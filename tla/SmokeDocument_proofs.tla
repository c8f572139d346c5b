------------------------- MODULE SmokeDocument_proofs -------------------------
(***************************************************************************)
(* Proofs about SmokeDocument for any number of parts, polls and faults.   *)
(***************************************************************************)
EXTENDS SmokeDocument, FiniteSetTheorems, TLAPS

States == {"none", "stored", "converting", "converted", "ingesting", "failed", "completed", "deleted"}

\* Local states, whatever their lengths.
Reports == [status : {"passed", "failed"}, stage : Places \union {"none"}, failures : Nat]
Locals ==
  [phase : {"release", "pdf"}, at : Places, token : {"none", "valid", "expired"},
   renew : {"may", "login", "done"}, parts : 0 .. PartCount, created : Seq(Docs),
   left : Nat, base : 0 .. 3, asked : BOOLEAN, polls : 0 .. MaxPolls, report : Reports]

\* The part of the invariant that is about the service alone.
ServiceInv ==
  /\ docs \in [Docs -> States] /\ version \in [Docs -> 0 .. 3]
  /\ upload \in {"none", "open", "completed", "aborted"} /\ accepts \in BOOLEAN
  /\ faults \in 0 .. MaxFaults
  /\ UsersDocumentsKept /\ \A d \in Docs : version[d] <= Versions(docs[d])

\* What a failure leaves of what is due.
DueAlways(q, ds, up) ==
  LET passed == q.report.status = "passed" IN
  /\ q.phase = "release" =>
       /\ up = "none" /\ \A d \in Docs \ {"users", "note"} : ds[d] = "none"
       /\ passed => Known(q, "note")
  /\ q.phase = "pdf" =>
       /\ ds["note"] = "deleted"
       /\ passed => Known(q, "original") /\ up = "completed" /\ Known(q, "parent")

\* What a step that fails after its effect has to leave.
Raisable(q, ds, up) ==
  /\ q \in Locals /\ LocalInv(q) /\ q.at # "done" /\ (q.at = "get" => q.left > 0)
  /\ CountInv(q, ds) /\ ToldInv(q, ds) /\ DueAlways(q, ds, up)

Kept(q, ds, up) ==
  q \in Locals /\ LocalInv(q) /\ CountInv(q, ds) /\ ToldInv(q, ds) /\ DueInv(q, ds, up)

LEMMA PlacesAre ==
  Places = {"login", "create", "view", "start", "part_url", "part_put", "complete", "replay", "abort",
            "preview", "range", "convert", "poll", "ingest", "get", "delete", "done"}
BY DEF Places, Calls, Uploading

LEMMA IInvForm == IInv <=> ServiceInv /\ Kept(probe, docs, upload)
<1>1. ASSUME IInv PROVE ServiceInv /\ Kept(probe, docs, upload)
  <2>1. probe \in Locals
    BY <1>1 DEF IInv, TypeOK, Locals, Reports
  <2> QED BY <1>1, <2>1 DEF IInv, TypeOK, ServiceInv, Kept, States
<1>2. ASSUME ServiceInv, Kept(probe, docs, upload) PROVE IInv
  <2>1. probe \in Locals /\ probe.left + probe.report.failures <= Len(probe.created)
    BY <1>2 DEF Kept, LocalInv
  <2>2. /\ Len(probe.created) \in Nat /\ probe.left \in 0 .. Len(probe.created)
        /\ probe.report.failures \in 0 .. Len(probe.created)
    BY <2>1 DEF Locals, Reports
  <2>3. probe.report \in [status : {"passed", "failed"}, stage : Places \union {"none"},
                          failures : 0 .. Len(probe.created)]
    BY <2>1, <2>2 DEF Locals, Reports
  <2>4. probe \in [phase : {"release", "pdf"}, at : Places, token : {"none", "valid", "expired"},
                renew : {"may", "login", "done"}, parts : 0 .. PartCount, created : Seq(Docs),
                left : 0 .. Len(probe.created), base : 0 .. 3, asked : BOOLEAN, polls : 0 .. MaxPolls,
                report : [status : {"passed", "failed"}, stage : Places \union {"none"},
                          failures : 0 .. Len(probe.created)]]
    BY <2>1, <2>2, <2>3 DEF Locals
  <2>5. TypeOK
    BY <1>2, <2>4 DEF TypeOK, ServiceInv, States
  <2> QED BY <1>2, <2>5 DEF IInv, ServiceInv, Kept
<1> QED BY <1>1, <1>2

-----------------------------------------------------------------------------
(* The operations on the local state.                                      *)
\* The fields that the invariant is about and that most operations leave.
Same(r, q) ==
  r \in Locals /\ r.phase = q.phase /\ r.parts = q.parts /\ r.created = q.created /\ r.left = q.left

LEMMA ToEffect ==
  ASSUME NEW q \in Locals, NEW x \in Places
  PROVE  Same(To(q, x), q) /\ To(q, x).at = x /\ To(q, x).renew = "may" /\ To(q, x).report = q.report
         /\ To(q, x).asked = q.asked /\ To(q, x).polls = q.polls
BY DEF To, Same, Locals

LEMMA CleanupEffect ==
  ASSUME NEW q \in Locals
  PROVE  LET r == Cleanup(q) IN
         /\ r \in Locals /\ r.phase = q.phase /\ r.parts = q.parts /\ r.created = q.created
         /\ r.left = Len(q.created) /\ r.at = "get" /\ r.renew = "may" /\ r.report = q.report
<1>1. Len(q.created) \in Nat /\ "get" \in Places
  BY PlacesAre DEF Locals
<1> DEFINE n == Len(q.created)
           r == [q EXCEPT !.at = "get", !.renew = "may", !.left = n]
<1>2. Cleanup(q) = r
  BY DEF Cleanup
<1> HIDE DEF n
<1>3. /\ r \in Locals /\ r.phase = q.phase /\ r.parts = q.parts /\ r.created = q.created
      /\ r.left = n /\ r.at = "get" /\ r.renew = "may" /\ r.report = q.report
  BY <1>1 DEF Locals, n
<1> QED BY <1>2, <1>3 DEF n

LEMMA RaisedEffect ==
  ASSUME NEW q \in Locals
  PROVE  LET r == Raised(q) IN
         /\ q.at \in {"get", "delete"} /\ q.left > 0 =>
              /\ r \in Locals /\ r.phase = q.phase /\ r.parts = q.parts /\ r.created = q.created
              /\ r.at = "get" /\ r.renew = "may" /\ r.left = q.left - 1
              /\ r.report.status = q.report.status /\ r.report.stage = q.report.stage
              /\ r.report.failures = q.report.failures + 1
         /\ q.at \in Uploading =>
              /\ Same(r, q) /\ r.at = "abort" /\ r.renew = "may" /\ r.report.status = q.report.status
              /\ r.report.stage = q.at /\ r.report.failures = q.report.failures
         /\ q.at \notin {"get", "delete"} \union Uploading =>
              /\ r \in Locals /\ r.phase = q.phase /\ r.parts = q.parts /\ r.created = q.created
              /\ r.left = Len(q.created) /\ r.at = "get" /\ r.renew = "may"
              /\ r.report.status = q.report.status /\ r.report.failures = q.report.failures
              /\ r.report.stage = IF q.at = "abort" THEN q.report.stage ELSE q.at
<1> DEFINE r == Raised(q)
<1>1. q.report \in Reports /\ q.at \in Places /\ q.left \in Nat /\ q.created \in Seq(Docs)
  BY DEF Locals
<1>2. ASSUME q.at \in {"get", "delete"}, q.left > 0
      PROVE  /\ r \in Locals /\ r.phase = q.phase /\ r.parts = q.parts /\ r.created = q.created
             /\ r.at = "get" /\ r.renew = "may" /\ r.left = q.left - 1
             /\ r.report.status = q.report.status /\ r.report.stage = q.report.stage
             /\ r.report.failures = q.report.failures + 1
  <2>1. r = [q EXCEPT !.at = "get", !.renew = "may", !.left = @ - 1, !.report.failures = @ + 1]
    BY <1>2 DEF Raised, Uploading
  <2>2. r = [q EXCEPT !.at = "get", !.renew = "may", !.left = q.left - 1,
                      !.report = [q.report EXCEPT !.failures = @ + 1]]
    BY <2>1 DEF Locals
  <2>3. [q.report EXCEPT !.failures = @ + 1] \in Reports
    BY <1>1 DEF Reports
  <2>4. r \in Locals
    <3>1. q.left - 1 \in Nat /\ "get" \in Places
      BY <1>1, <1>2, PlacesAre
    <3> QED BY <2>2, <2>3, <3>1 DEF Locals
  <2> QED BY <1>1, <2>2, <2>4 DEF Locals, Reports
<1>3. ASSUME q.at \in Uploading
      PROVE  /\ Same(r, q) /\ r.at = "abort" /\ r.renew = "may" /\ r.report.status = q.report.status
             /\ r.report.stage = q.at /\ r.report.failures = q.report.failures
  <2>1. r = [q EXCEPT !.at = "abort", !.renew = "may", !.report.stage = q.at]
    BY <1>3 DEF Raised, Uploading
  <2>2. r = [q EXCEPT !.at = "abort", !.renew = "may", !.report = [q.report EXCEPT !.stage = q.at]]
    BY <2>1 DEF Locals
  <2>3. [q.report EXCEPT !.stage = q.at] \in Reports
    BY <1>1 DEF Reports
  <2>4. r \in Locals
    BY <2>2, <2>3, PlacesAre DEF Locals
  <2> QED BY <1>1, <2>2, <2>4 DEF Locals, Reports, Same
<1>4. ASSUME q.at \notin {"get", "delete"} \union Uploading
      PROVE  /\ r \in Locals /\ r.phase = q.phase /\ r.parts = q.parts /\ r.created = q.created
             /\ r.left = Len(q.created) /\ r.at = "get" /\ r.renew = "may"
             /\ r.report.status = q.report.status /\ r.report.failures = q.report.failures
             /\ r.report.stage = IF q.at = "abort" THEN q.report.stage ELSE q.at
  <2>1. CASE q.at = "abort"
    <3>1. r = Cleanup(q)
      BY <2>1 DEF Raised, Uploading
    <3> QED BY <2>1, <3>1, CleanupEffect
  <2>2. CASE q.at # "abort"
    <3> DEFINE p == [q EXCEPT !.report.stage = q.at]
    <3>1. r = Cleanup(p)
      BY <1>4, <2>2 DEF Raised
    <3>2. p = [q EXCEPT !.report = [q.report EXCEPT !.stage = q.at]]
      BY DEF Locals
    <3>3. [q.report EXCEPT !.stage = q.at] \in Reports
      BY <1>1 DEF Reports
    <3>4. p \in Locals
      BY <3>2, <3>3 DEF Locals
    <3>5. /\ p.phase = q.phase /\ p.parts = q.parts /\ p.created = q.created
          /\ p.report.status = q.report.status /\ p.report.failures = q.report.failures /\ p.report.stage = q.at
      BY <1>1, <3>2 DEF Locals, Reports
    <3> HIDE DEF p
    <3> QED BY <2>2, <3>1, <3>4, <3>5, CleanupEffect
  <2> QED BY <2>1, <2>2
<1> QED BY <1>2, <1>3, <1>4

LEMMA RememberEffect ==
  ASSUME NEW q \in Locals, NEW d \in Docs
  PROVE  LET r == Remember(q, d) IN
         /\ r \in Locals /\ r.phase = q.phase /\ r.parts = q.parts /\ r.left = q.left /\ r.at = q.at
         /\ r.renew = q.renew /\ r.report = q.report /\ r.polls = q.polls /\ r.asked = q.asked
         /\ Len(r.created) \in Nat /\ Len(r.created) >= Len(q.created)
         /\ \A i \in DOMAIN r.created : Known(q, r.created[i]) \/ r.created[i] = d
         /\ \A e : Known(r, e) <=> Known(q, e) \/ e = d
<1> DEFINE r == Remember(q, d)
<1>1. q.created \in Seq(Docs)
  BY DEF Locals
<1>2. CASE Known(q, d)
  <2>1. r = q
    BY <1>2 DEF Remember, Known
  <2> QED BY <1>1, <1>2, <2>1 DEF Known
<1>3. CASE ~ Known(q, d)
  <2>1. r = [q EXCEPT !.created = Append(q.created, d)]
    BY <1>3 DEF Remember, Known, Locals
  <2> DEFINE more == Append(q.created, d)
  <2>2. /\ more \in Seq(Docs) /\ Len(more) = Len(q.created) + 1 /\ DOMAIN more = 1 .. Len(q.created) + 1
        /\ \A i \in 1 .. Len(q.created) : more[i] = q.created[i]
        /\ more[Len(q.created) + 1] = d /\ Len(q.created) \in Nat /\ DOMAIN q.created = 1 .. Len(q.created)
    BY <1>1
  <2> HIDE DEF more
  <2>3. /\ r \in Locals /\ r.phase = q.phase /\ r.parts = q.parts /\ r.left = q.left /\ r.at = q.at
        /\ r.renew = q.renew /\ r.report = q.report /\ r.polls = q.polls /\ r.asked = q.asked
        /\ r.created = more
    BY <2>1, <2>2 DEF Locals, more
  <2> HIDE DEF r
  <2>4. \A i \in DOMAIN more : Known(q, more[i]) \/ more[i] = d
    BY <2>2 DEF Known
  <2>5. \A e : Known(r, e) <=> Known(q, e) \/ e = d
    <3>1. Len(q.created) + 1 \in DOMAIN more /\ \A i \in DOMAIN q.created : i \in DOMAIN more /\ more[i] = q.created[i]
      BY <2>2
    <3> QED BY <2>2, <2>3, <2>4, <3>1 DEF Known
  <2>6. Len(more) \in Nat /\ Len(more) >= Len(q.created)
    BY <2>2
  <2> QED BY <2>3, <2>4, <2>5, <2>6 DEF r
<1> QED BY <1>2, <1>3

-----------------------------------------------------------------------------
(* What the cleanup has gone through and is still there.                   *)
Rest(q, ds) == {i \in q.left + 1 .. Len(q.created) : ds[q.created[i]] \in Alive}

LEMMA RestFinite ==
  ASSUME NEW q \in Locals, NEW ds
  PROVE  IsFiniteSet(Rest(q, ds)) /\ Cardinality(Rest(q, ds)) \in Nat
<1>1. q.left + 1 \in Int /\ Len(q.created) \in Int
  BY DEF Locals
<1>2. IsFiniteSet(q.left + 1 .. Len(q.created))
  BY <1>1, FS_Interval
<1>3. IsFiniteSet(Rest(q, ds))
  BY <1>2, FS_Subset DEF Rest
<1> QED BY <1>3, FS_CardinalityType

LEMMA RestEmpty ==
  ASSUME NEW q \in Locals, NEW ds, q.left = Len(q.created)
  PROVE  Cardinality(Rest(q, ds)) = 0
<1>1. q.left \in Nat
  BY DEF Locals
<1>2. Rest(q, ds) = {}
  BY <1>1 DEF Rest
<1> QED BY <1>2, FS_EmptySet

\* Documents that are not there cannot come back.
LEMMA RestShrinks ==
  ASSUME NEW q \in Locals, NEW r \in Locals, NEW ds, NEW es, r.created = q.created, r.left = q.left,
         \A d : Known(q, d) /\ es[d] \in Alive => ds[d] \in Alive
  PROVE  Cardinality(Rest(r, es)) <= Cardinality(Rest(q, ds))
<1>1. \A i \in q.left + 1 .. Len(q.created) : Known(q, q.created[i])
  BY DEF Known, Locals
<1>2. Rest(r, es) \subseteq Rest(q, ds)
  BY <1>1 DEF Rest
<1> QED BY <1>2, RestFinite, FS_Subset

LEMMA RestGrows ==
  ASSUME NEW q \in Locals, NEW r \in Locals, NEW ds, q.left > 0, r.created = q.created, r.left = q.left - 1
  PROVE  /\ Cardinality(Rest(r, ds)) <= Cardinality(Rest(q, ds)) + 1
         /\ ds[q.created[q.left]] \notin Alive => Cardinality(Rest(r, ds)) <= Cardinality(Rest(q, ds))
<1>1. q.left \in Nat /\ Len(q.created) \in Nat
  BY DEF Locals
<1>2. Rest(r, ds) \subseteq Rest(q, ds) \union {q.left}
  BY <1>1 DEF Rest
<1>3. ds[q.created[q.left]] \notin Alive => Rest(r, ds) \subseteq Rest(q, ds)
  BY <1>1 DEF Rest
<1>4. /\ IsFiniteSet(Rest(q, ds) \union {q.left})
      /\ Cardinality(Rest(q, ds) \union {q.left}) <= Cardinality(Rest(q, ds)) + 1
  <2>1. IsFiniteSet(Rest(q, ds)) /\ Cardinality(Rest(q, ds)) \in Nat
    BY RestFinite
  <2>2. /\ IsFiniteSet(Rest(q, ds) \union {q.left})
        /\ Cardinality(Rest(q, ds) \union {q.left}) =
             IF q.left \in Rest(q, ds) THEN Cardinality(Rest(q, ds)) ELSE Cardinality(Rest(q, ds)) + 1
    BY <2>1, FS_AddElement, Zenon
  <2> QED BY <2>1, <2>2
<1>5. /\ Cardinality(Rest(r, ds)) \in Nat /\ Cardinality(Rest(q, ds)) \in Nat
      /\ Cardinality(Rest(q, ds) \union {q.left}) \in Nat
  BY <1>4, RestFinite, FS_CardinalityType
<1>6. Cardinality(Rest(r, ds)) <= Cardinality(Rest(q, ds) \union {q.left})
  BY <1>2, <1>4, FS_Subset
<1>7. ds[q.created[q.left]] \notin Alive => Cardinality(Rest(r, ds)) <= Cardinality(Rest(q, ds))
  BY <1>3, RestFinite, FS_Subset
<1> QED BY <1>4, <1>5, <1>6, <1>7

LEMMA CountForm ==
  ASSUME NEW q \in Locals, NEW ds
  PROVE  CountInv(q, ds) <=> /\ \A d : Known(q, d) => d # "users" /\ ds[d] # "none"
                             /\ q.at \in Cleaning => Cardinality(Rest(q, ds)) <= q.report.failures
BY DEF CountInv, Known, Rest

-----------------------------------------------------------------------------
(* A failure, before or after a call took effect.                          *)
LEMMA RaisedKept ==
  ASSUME NEW q, NEW ds, NEW up, Raisable(q, ds, up)
  PROVE  Kept(Raised(q), ds, up)
<1> DEFINE r == Raised(q)
<1>1. q \in Locals /\ LocalInv(q) /\ q.at \in Places /\ q.at # "done" /\ (q.at = "get" => q.left > 0)
      /\ CountInv(q, ds) /\ ToldInv(q, ds) /\ DueAlways(q, ds, up)
  BY DEF Raisable, Locals
<1>2. q.left \in Nat /\ q.report.failures \in Nat /\ Len(q.created) \in Nat
  BY <1>1 DEF Locals, Reports
<1>3. /\ \A d : Known(q, d) => d # "users" /\ ds[d] # "none"
      /\ q.at \in Cleaning => Cardinality(Rest(q, ds)) <= q.report.failures
  BY <1>1, CountForm
<1> SUFFICES ASSUME NEW p, p = r PROVE Kept(p, ds, up)
  OBVIOUS
<1> HIDE DEF r
<1>4. CASE q.at \in {"get", "delete"}
  <2>1. q.left > 0
    BY <1>1, <1>4 DEF LocalInv
  <2>2. /\ p \in Locals /\ p.phase = q.phase /\ p.parts = q.parts /\ p.created = q.created
        /\ p.at = "get" /\ p.renew = "may" /\ p.left = q.left - 1
        /\ p.report.status = q.report.status /\ p.report.stage = q.report.stage
        /\ p.report.failures = q.report.failures + 1
    BY <1>1, <1>4, <2>1, RaisedEffect DEF r
  <2>3. \A d : Known(p, d) <=> Known(q, d)
    BY <2>2 DEF Known
  <2>4. Cardinality(Rest(p, ds)) <= p.report.failures
    <3>1. Cardinality(Rest(p, ds)) <= Cardinality(Rest(q, ds)) + 1
      BY <1>1, <2>1, <2>2, RestGrows
    <3>2. Cardinality(Rest(p, ds)) \in Nat /\ Cardinality(Rest(q, ds)) \in Nat
      BY <1>1, <2>2, RestFinite
    <3> QED BY <1>2, <1>3, <1>4, <2>2, <3>1, <3>2 DEF Cleaning
  <2>5. CountInv(p, ds)
    BY <1>3, <2>2, <2>3, <2>4, CountForm
  <2>6. LocalInv(p)
    BY <1>1, <1>2, <2>1, <2>2 DEF LocalInv, PlacesOf, Cleaning
  <2>7. Stage(p) = Stage(q)
    BY <1>4, <2>2 DEF Stage, Cleaning
  <2>8. ToldInv(p, ds)
    BY <1>1, <2>2, <2>3, <2>7 DEF ToldInv
  <2>9. DueInv(p, ds, up)
    BY <1>1, <2>2, <2>3 DEF DueAlways, DueInv, Starting
  <2> QED BY <2>2, <2>5, <2>6, <2>8, <2>9 DEF Kept
<1>5. CASE q.at \in Uploading
  <2>1. /\ Same(p, q) /\ p.at = "abort" /\ p.renew = "may" /\ p.report.status = q.report.status
        /\ p.report.stage = q.at /\ p.report.failures = q.report.failures
    BY <1>1, <1>5, RaisedEffect DEF r
  <2>2. \A d : Known(p, d) <=> Known(q, d)
    BY <2>1 DEF Known, Same
  <2>3. CountInv(p, ds)
    BY <1>3, <2>1, <2>2, CountForm DEF Same, Cleaning
  <2>4. LocalInv(p)
    BY <1>1, <1>2, <1>5, <2>1 DEF LocalInv, PlacesOf, Cleaning, Same, Uploading, Starting
  <2>5. Stage(p) = Stage(q)
    BY <1>5, <2>1 DEF Stage, Cleaning, Uploading
  <2>6. ToldInv(p, ds)
    BY <1>1, <2>1, <2>2, <2>5 DEF ToldInv, Same
  <2>7. DueInv(p, ds, up)
    BY <1>1, <2>1, <2>2 DEF DueAlways, DueInv, Starting, Same
  <2> QED BY <2>1, <2>3, <2>4, <2>6, <2>7 DEF Kept, Same
<1>6. CASE q.at \notin {"get", "delete"} \union Uploading
  <2>1. /\ p \in Locals /\ p.phase = q.phase /\ p.parts = q.parts /\ p.created = q.created
        /\ p.left = Len(q.created) /\ p.at = "get" /\ p.renew = "may"
        /\ p.report.status = q.report.status /\ p.report.failures = q.report.failures
        /\ p.report.stage = IF q.at = "abort" THEN q.report.stage ELSE q.at
    BY <1>1, <1>6, RaisedEffect DEF r
  <2>2. \A d : Known(p, d) <=> Known(q, d)
    BY <2>1 DEF Known
  <2>3. Cardinality(Rest(p, ds)) = 0
    BY <2>1, RestEmpty
  <2>4. CountInv(p, ds)
    BY <1>2, <1>3, <2>1, <2>2, <2>3, CountForm
  <2>5. q.at \notin Cleaning
    BY <1>1, <1>6 DEF Cleaning
  <2>6. LocalInv(p)
    BY <1>1, <1>2, <2>1, <2>5 DEF LocalInv, PlacesOf, Cleaning
  <2>7. Stage(p) = Stage(q)
    BY <2>1, <2>5 DEF Stage, Cleaning
  <2>8. ToldInv(p, ds)
    BY <1>1, <2>1, <2>2, <2>7 DEF ToldInv
  <2>9. DueInv(p, ds, up)
    BY <1>1, <2>1, <2>2 DEF DueAlways, DueInv, Starting
  <2> QED BY <2>1, <2>4, <2>6, <2>8, <2>9 DEF Kept
<1> QED BY <1>4, <1>5, <1>6

LEMMA DueStays ==
  ASSUME NEW q, NEW ds, NEW up, DueInv(q, ds, up)
  PROVE  DueAlways(q, ds, up)
BY DEF DueInv, DueAlways

\* A call that took effect, with an answer or without.
LEMMA AnsweredStep ==
  ASSUME IInv, NEW q, Answered(q), Raisable(probe, docs', upload'), Kept(q, docs', upload'),
         docs' \in [Docs -> States], version' \in [Docs -> 0 .. 3],
         upload' \in {"none", "open", "completed", "aborted"}, accepts' \in BOOLEAN,
         UsersDocumentsKept', \A d \in Docs : version'[d] <= Versions(docs'[d])
  PROVE  IInv'
<1>1. faults' \in 0 .. MaxFaults
  BY SizeAssumption, IInvForm DEF ServiceInv, Answered, Fault
<1>2. ServiceInv'
  BY <1>1 DEF ServiceInv
<1>3. Kept(probe', docs', upload')
  BY RaisedKept DEF Answered
<1>4. (IInv <=> ServiceInv /\ Kept(probe, docs, upload))'
  BY IInvForm, PTL
<1> QED BY <1>2, <1>3, <1>4 DEF Kept

-----------------------------------------------------------------------------
(* Steps that leave the service as it is.                                  *)
LEMMA Before ==
  ASSUME IInv
  PROVE  /\ ServiceInv /\ Kept(probe, docs, upload)
         /\ probe \in Locals /\ probe.at \in Places /\ LocalInv(probe) /\ CountInv(probe, docs)
         /\ ToldInv(probe, docs) /\ DueInv(probe, docs, upload)
         /\ Working => Raisable(probe, docs, upload)
<1>1. ServiceInv /\ Kept(probe, docs, upload)
  BY IInvForm
<1> QED BY <1>1, DueStays DEF Kept, Locals, Raisable, Working

LEMMA ServiceKept ==
  ASSUME IInv, UNCHANGED <<docs, version, upload>>, accepts' \in BOOLEAN, faults' \in 0 .. MaxFaults,
         Kept(probe', docs, upload)
  PROVE  IInv'
<1>1. ServiceInv'
  BY Before DEF ServiceInv, UsersDocumentsKept
<1>2. (IInv <=> ServiceInv /\ Kept(probe, docs, upload))'
  BY IInvForm, PTL
<1> QED BY <1>1, <1>2 DEF Kept

LEMMA FaultType ==
  ASSUME IInv, Fault \/ UNCHANGED faults
  PROVE  faults' \in 0 .. MaxFaults
BY SizeAssumption, Before DEF ServiceInv, Fault

LEMMA QuietStep ==
  ASSUME IInv, Working, UNCHANGED service, NEW q, Answered(q), Kept(q, docs, upload)
  PROVE  IInv'
<1>1. UNCHANGED <<docs, version, upload, accepts>>
  BY DEF service
<1>2. Kept(Raised(probe), docs, upload)
  BY Before, RaisedKept
<1>3. faults' \in 0 .. MaxFaults /\ Kept(probe', docs, upload)
  BY <1>2, FaultType DEF Answered
<1> QED BY <1>1, <1>3, ServiceKept, Before DEF ServiceInv

LEMMA RaisedStep ==
  ASSUME IInv, Working, UNCHANGED service, probe' = Raised(probe), Fault \/ UNCHANGED faults
  PROVE  IInv'
<1>1. UNCHANGED <<docs, version, upload, accepts>>
  BY DEF service
<1>2. Kept(Raised(probe), docs, upload)
  BY Before, RaisedKept
<1> QED BY <1>1, <1>2, ServiceKept, FaultType, Before DEF ServiceInv

\* The token and the renewal say nothing of the documents.
LEMMA RelevantKept ==
  ASSUME NEW q, NEW ds, NEW up, Kept(q, ds, up), NEW r, Same(r, q), r.at = q.at, r.report = q.report,
         r.renew = "login" => r.at # "login" /\ r.at # "done" /\ (r.at = "get" => r.left > 0)
  PROVE  Kept(r, ds, up)
<1>1. q \in Locals /\ r \in Locals /\ LocalInv(q) /\ CountInv(q, ds) /\ ToldInv(q, ds) /\ DueInv(q, ds, up)
  BY DEF Kept, Same
<1>2. r.phase = q.phase /\ r.parts = q.parts /\ r.created = q.created /\ r.left = q.left
  BY DEF Same
<1>3. LocalInv(r)
  BY <1>1, <1>2 DEF LocalInv
<1>4. CountInv(r, ds)
  BY <1>1, <1>2 DEF CountInv
<1>5. ToldInv(r, ds) /\ DueInv(r, ds, up)
  BY <1>1, <1>2 DEF ToldInv, DueInv, Known, Stage
<1> QED BY <1>1, <1>3, <1>4, <1>5 DEF Kept

\* A step forward of a check that makes nothing.
LEMMA MoveKept ==
  ASSUME NEW q, NEW ds, NEW up, Kept(q, ds, up),
         NEW r \in Locals, r.phase = q.phase, r.created = q.created, r.left = q.left, r.report = q.report,
         r.renew = "may",
         r.parts = q.parts \/ q.at = "part_put", r.at \in {"part_url", "part_put"} => r.parts < PartCount,
         \/ q.at = "login" /\ r.at = (IF q.phase = "release" THEN "create" ELSE "start")
         \/ q.at = "view" /\ r.at = "ingest"
         \/ q.at = "part_url" /\ r.at = "part_put"
         \/ q.at = "part_put" /\ r.at \in {"part_url", "complete"}
         \/ q.at = "replay" /\ r.at = "preview"
         \/ q.at = "preview" /\ r.at = "range"
         \/ q.at = "range" /\ r.at = "convert"
         \/ q.at = "poll" /\ r.at = "poll"
         \/ q.at = "poll" /\ r.at = "ingest" /\ (q.phase = "pdf" => ds["parent"] # "converting" /\ ds["part"] \notin Alive)
  PROVE  Kept(r, ds, up)
<1>1. q \in Locals /\ LocalInv(q) /\ CountInv(q, ds) /\ ToldInv(q, ds) /\ DueInv(q, ds, up)
  BY DEF Kept
<1>2. q.at \notin Cleaning \union {"abort"} /\ r.at \notin Cleaning \union {"abort"}
  BY DEF Cleaning
<1>3. \A d : Known(r, d) <=> Known(q, d)
  BY DEF Known
<1>4. q.phase \in {"release", "pdf"}
  BY <1>1 DEF Locals
<1>5. r.at \in PlacesOf(r.phase)
  BY <1>1, <1>4 DEF LocalInv, PlacesOf, Cleaning, Starting
<1>6. LocalInv(r)
  BY <1>1, <1>2, <1>5 DEF LocalInv
<1>7. CountInv(r, ds)
  BY <1>1, <1>2, <1>3, CountForm
<1>8. Stage(r) = r.at /\ Stage(q) = q.at
  BY <1>2 DEF Stage
<1>9. ToldInv(r, ds)
  <2> SUFFICES ASSUME q.phase = "pdf" PROVE ToldInv(r, ds)
    BY DEF ToldInv
  <2>1. /\ ds["original"] \in Alive => Known(q, "original")
        /\ ds["second"] \notin Alive
        /\ ds["parent"] \in Alive => Known(q, "parent")
        /\ ds["parent"] = "converting" => r.at = "poll"
        /\ ds["part"] \in Alive => r.at = "poll"
    BY <1>1, <1>8 DEF ToldInv, DueInv, Starting, Alive
  <2> QED BY <1>3, <1>8, <2>1 DEF ToldInv
<1>10. DueInv(r, ds, up)
  BY <1>1, <1>2, <1>3, <1>4, <1>5 DEF DueInv, Starting, PlacesOf, Cleaning, LocalInv
<1> QED BY <1>6, <1>7, <1>9, <1>10 DEF Kept

LEMMA CallFailsStep == IInv /\ CallFails => IInv'
<1> SUFFICES ASSUME IInv, CallFails PROVE IInv'
  OBVIOUS
<1> QED BY RaisedStep DEF CallFails, Unchanged

LEMMA UnauthorizedStep == IInv /\ Unauthorized => IInv'
<1> SUFFICES ASSUME IInv, Unauthorized PROVE IInv'
  OBVIOUS
<1>1. Working /\ probe.at \in Calls /\ UNCHANGED <<service, faults>>
  BY DEF Unauthorized
<1>2. CASE probe' = Raised(probe)
  BY <1>1, <1>2, RaisedStep
<1>3. CASE probe' = [probe EXCEPT !.token = "none", !.renew = "login"]
  <2>1. Same(probe', probe) /\ probe'.at = probe.at /\ probe'.report = probe.report
    BY <1>3, Before DEF Locals, Same
  <2>2. probe.at # "login" /\ probe.at # "done" /\ (probe.at = "get" => probe.left > 0)
    BY <1>1 DEF Working, Calls, Uploading
  <2>3. Kept(probe', docs, upload)
    BY <2>1, <2>2, Before, RelevantKept DEF Same
  <2> QED BY <1>1, <2>3, ServiceKept, Before DEF service, ServiceInv
<1> QED BY <1>2, <1>3 DEF Unauthorized

LEMMA ExpireStep == IInv /\ Expire => IInv'
<1> SUFFICES ASSUME IInv, Expire PROVE IInv'
  OBVIOUS
<1>1. Fault /\ UNCHANGED <<docs, version, upload, accepts>> /\ probe' = [probe EXCEPT !.token = "expired"]
  BY DEF Expire, Unchanged, service
<1>2. Same(probe', probe) /\ probe'.at = probe.at /\ probe'.report = probe.report /\ probe'.renew = probe.renew
  BY <1>1, Before DEF Locals, Same
<1>3. Kept(probe', docs, upload)
  BY <1>2, Before, RelevantKept DEF Same, LocalInv
<1> QED BY <1>1, <1>3, ServiceKept, FaultType, Before DEF ServiceInv

LEMMA LoginStep == IInv /\ Login => IInv'
<1> SUFFICES ASSUME IInv, Login PROVE IInv'
  OBVIOUS
<1> DEFINE q == [probe EXCEPT !.token = "valid"]
           renewed == [q EXCEPT !.renew = "done"]
           next == IF q.phase = "release" THEN "create" ELSE "start"
<1>1. UNCHANGED service /\ Answered(IF q.renew = "login" THEN renewed ELSE To(q, next))
      /\ (probe.at = "login" \/ probe.renew = "login")
  BY DEF Login, Unchanged
<1>2. Working
  BY <1>1, Before DEF Working, LocalInv
<1>3. q \in Locals /\ Same(q, probe) /\ q.at = probe.at /\ q.report = probe.report /\ q.renew = probe.renew
  BY Before DEF Locals, Same
<1>4. Same(renewed, probe) /\ renewed.at = probe.at /\ renewed.report = probe.report /\ renewed.renew = "done"
  BY Before DEF Locals, Same
<1>5. next \in Places
  BY PlacesAre
<1> HIDE DEF q, renewed, next
<1>6. CASE q.renew = "login"
  <2>1. Kept(renewed, docs, upload)
    BY <1>4, Before, RelevantKept
  <2> QED BY <1>1, <1>2, <1>6, <2>1, QuietStep
<1>7. CASE q.renew # "login"
  <2>1. probe.at = "login"
    BY <1>1, <1>3, <1>7
  <2>2. Same(To(q, next), q) /\ To(q, next).at = next /\ To(q, next).renew = "may" /\ To(q, next).report = q.report
    BY <1>3, <1>5, ToEffect
  <2>3. next \notin {"part_url", "part_put"} /\ next = IF probe.phase = "release" THEN "create" ELSE "start"
    BY <1>3 DEF next, Same
  <2>4. Kept(To(q, next), docs, upload)
    BY <1>3, <2>1, <2>2, <2>3, Before, MoveKept DEF Same
  <2>5. Answered(To(q, next))
    BY <1>1, <1>7
  <2> QED BY <1>1, <1>2, <2>4, <2>5, QuietStep
<1> QED BY <1>6, <1>7

LEMMA ViewStep == IInv /\ View => IInv'
<1> SUFFICES ASSUME IInv, View PROVE IInv'
  OBVIOUS
<1>1. Working /\ probe.at = "view" /\ Answered(To(probe, "ingest")) /\ UNCHANGED service
  BY DEF View, At, Unchanged
<1>2. /\ Same(To(probe, "ingest"), probe) /\ To(probe, "ingest").at = "ingest"
      /\ To(probe, "ingest").renew = "may" /\ To(probe, "ingest").report = probe.report
  BY Before, PlacesAre, ToEffect
<1>3. Kept(To(probe, "ingest"), docs, upload)
  BY <1>1, <1>2, Before, MoveKept DEF Same
<1> QED BY <1>1, <1>3, QuietStep

LEMMA PartUrlStep == IInv /\ PartUrl => IInv'
<1> SUFFICES ASSUME IInv, PartUrl PROVE IInv'
  OBVIOUS
<1>1. Working /\ probe.at = "part_url" /\ Answered(To(probe, "part_put")) /\ UNCHANGED service
  BY DEF PartUrl, At, Unchanged
<1>2. /\ Same(To(probe, "part_put"), probe) /\ To(probe, "part_put").at = "part_put"
      /\ To(probe, "part_put").renew = "may" /\ To(probe, "part_put").report = probe.report
  BY Before, PlacesAre, ToEffect
<1>3. probe.parts < PartCount
  BY <1>1, Before DEF LocalInv
<1>4. Kept(To(probe, "part_put"), docs, upload)
  BY <1>1, <1>2, <1>3, Before, MoveKept DEF Same
<1> QED BY <1>1, <1>4, QuietStep

LEMMA PartPutStep == IInv /\ PartPut => IInv'
<1> SUFFICES ASSUME IInv, PartPut PROVE IInv'
  OBVIOUS
<1> DEFINE next == IF probe.parts + 1 < PartCount THEN "part_url" ELSE "complete"
           r == [To(probe, next) EXCEPT !.parts = @ + 1]
<1>1. Working /\ probe.at = "part_put" /\ Answered(r) /\ UNCHANGED service
  BY DEF PartPut, At, Unchanged
<1>2. probe.parts < PartCount /\ probe.parts \in 0 .. PartCount /\ PartCount \in Int
  BY <1>1, SizeAssumption, Before DEF LocalInv, Locals
<1>3. next \in Places
  BY PlacesAre
<1>4. /\ Same(To(probe, next), probe) /\ To(probe, next).at = next
      /\ To(probe, next).renew = "may" /\ To(probe, next).report = probe.report
  BY <1>3, Before, ToEffect
<1> DEFINE t == To(probe, next)
<1>5. /\ r \in Locals /\ r.phase = probe.phase /\ r.created = probe.created /\ r.left = probe.left
      /\ r.report = probe.report /\ r.renew = "may" /\ r.at = next /\ r.parts = probe.parts + 1
  <2>1. t \in Locals /\ t.parts = probe.parts /\ probe.parts + 1 \in 0 .. PartCount
    BY <1>2, <1>4 DEF Same
  <2>2. r = [t EXCEPT !.parts = t.parts + 1]
    OBVIOUS
  <2> HIDE DEF t, r, next
  <2>3. /\ r \in Locals /\ r.phase = t.phase /\ r.created = t.created /\ r.left = t.left
        /\ r.report = t.report /\ r.renew = t.renew /\ r.at = t.at /\ r.parts = t.parts + 1
    BY <2>1, <2>2 DEF Locals
  <2> QED BY <1>4, <2>1, <2>3 DEF Same, t
<1>6. next \in {"part_url", "complete"} /\ (next = "part_url" => probe.parts + 1 < PartCount)
  OBVIOUS
<1> HIDE DEF r, next
<1>7. Kept(r, docs, upload)
  BY <1>1, <1>5, <1>6, Before, MoveKept
<1> QED BY <1>1, <1>7, QuietStep

LEMMA PreviewStep == IInv /\ Preview => IInv'
<1> SUFFICES ASSUME IInv, Preview PROVE IInv'
  OBVIOUS
<1>1. Working /\ probe.at = "preview" /\ Answered(To(probe, "range")) /\ UNCHANGED service
  BY DEF Preview, At, Unchanged
<1>2. /\ Same(To(probe, "range"), probe) /\ To(probe, "range").at = "range"
      /\ To(probe, "range").renew = "may" /\ To(probe, "range").report = probe.report
  BY Before, PlacesAre, ToEffect
<1>3. Kept(To(probe, "range"), docs, upload)
  BY <1>1, <1>2, Before, MoveKept DEF Same
<1> QED BY <1>1, <1>3, QuietStep

LEMMA ByteRangeStep == IInv /\ ByteRange => IInv'
<1> SUFFICES ASSUME IInv, ByteRange PROVE IInv'
  OBVIOUS
<1>1. Working /\ probe.at = "range" /\ Answered(To(probe, "convert")) /\ UNCHANGED service
  BY DEF ByteRange, At, Unchanged
<1>2. /\ Same(To(probe, "convert"), probe) /\ To(probe, "convert").at = "convert"
      /\ To(probe, "convert").renew = "may" /\ To(probe, "convert").report = probe.report
  BY Before, PlacesAre, ToEffect
<1>3. Kept(To(probe, "convert"), docs, upload)
  BY <1>1, <1>2, Before, MoveKept DEF Same
<1> QED BY <1>1, <1>3, QuietStep

LEMMA TimeOutStep == IInv /\ TimeOut => IInv'
<1> SUFFICES ASSUME IInv, TimeOut PROVE IInv'
  OBVIOUS
<1> QED BY RaisedStep DEF TimeOut, Working

\* A check that found its document completed and nothing split off knows all that is there.
LEMMA PassedKept ==
  ASSUME IInv, probe.at = "poll", NEW q, Same(q, probe), q.at = "poll", q.report = probe.report,
         docs[IF probe.phase = "release" THEN "note" ELSE "parent"] = "completed", ~ Live("part")
  PROVE  Kept(Passed(q), docs, upload)
<1>1. /\ LocalInv(probe) /\ CountInv(probe, docs) /\ ToldInv(probe, docs) /\ DueInv(probe, docs, upload)
      /\ probe \in Locals
  BY Before
<1>2. q \in Locals /\ q.phase = probe.phase /\ q.parts = probe.parts /\ q.created = probe.created
  BY DEF Same
<1> DEFINE p == [q EXCEPT !.report = [q.report EXCEPT !.status = "passed"]]
<1>3. Passed(q) = Cleanup(p)
  <2>1. [q EXCEPT !.report.status = "passed"] = p
    BY <1>2 DEF Locals
  <2> QED BY <2>1 DEF Passed
<1>4. /\ p \in Locals /\ p.phase = probe.phase /\ p.parts = probe.parts /\ p.created = probe.created
      /\ p.report.status = "passed" /\ p.report.stage = probe.report.stage
      /\ p.report.failures = probe.report.failures
  <2>1. q.report \in Reports
    BY <1>2 DEF Locals
  <2>2. [q.report EXCEPT !.status = "passed"] \in Reports
    BY <2>1 DEF Reports
  <2> QED BY <1>2, <2>1, <2>2 DEF Locals, Reports
<1> HIDE DEF p
<1> SUFFICES ASSUME NEW r, r = Cleanup(p) PROVE Kept(r, docs, upload)
  BY <1>3
<1>5. /\ r \in Locals /\ r.phase = probe.phase /\ r.parts = probe.parts /\ r.created = probe.created
      /\ r.left = Len(probe.created) /\ r.at = "get" /\ r.renew = "may"
      /\ r.report.status = "passed" /\ r.report.stage = probe.report.stage
      /\ r.report.failures = probe.report.failures
  BY <1>4, CleanupEffect
<1>6. \A d : Known(r, d) <=> Known(probe, d)
  BY <1>5 DEF Known
<1>7. probe.report.failures = 0 /\ probe.report.stage = "none" /\ Len(probe.created) \in Nat
  BY <1>1 DEF LocalInv, Cleaning, Locals
<1>8. LocalInv(r)
  BY <1>1, <1>5, <1>7 DEF LocalInv, PlacesOf, Cleaning
<1>9. Cardinality(Rest(r, docs)) = 0
  BY <1>5, RestEmpty
<1>10. CountInv(r, docs)
  BY <1>1, <1>5, <1>6, <1>7, <1>9, CountForm
<1>11. docs["part"] \notin Alive
  BY DEF Live, Alive
<1>12. Stage(probe) = "poll"
  BY DEF Stage, Cleaning
<1>13. probe.phase = "pdf" => Known(probe, "original") /\ Known(probe, "parent") /\ upload = "completed"
  BY <1>1 DEF DueInv
<1>14. ToldInv(r, docs)
  BY <1>1, <1>5, <1>6, <1>11, <1>12, <1>13 DEF ToldInv
<1>15. DueInv(r, docs, upload)
  BY <1>1, <1>5, <1>6, <1>13 DEF DueInv, Starting
<1> QED BY <1>5, <1>8, <1>10, <1>14, <1>15 DEF Kept

LEMMA PollStep == IInv /\ Poll => IInv'
<1> SUFFICES ASSUME IInv, Poll PROVE IInv'
  OBVIOUS
<1> DEFINE q == [probe EXCEPT !.polls = @ + 1]
           completed == docs[IF q.phase = "release" THEN "note" ELSE "parent"] = "completed"
<1>1. Working /\ probe.at = "poll" /\ Answered(Judged(q)) /\ UNCHANGED service /\ probe.polls < MaxPolls
  BY DEF Poll, At, Unchanged
<1>2. Same(q, probe) /\ q.at = "poll" /\ q.report = probe.report /\ q.renew = probe.renew
  BY <1>1, SizeAssumption, Before DEF Locals, Same
<1>3. Kept(q, docs, upload) /\ Raisable(q, docs, upload)
  <2>1. Kept(q, docs, upload)
    BY <1>1, <1>2, Before, RelevantKept DEF LocalInv
  <2> QED BY <1>2, <2>1, DueStays DEF Kept, Raisable, Same
<1>4. q \in Locals /\ q.phase = probe.phase /\ q.created = probe.created
  BY <1>2 DEF Same
<1> HIDE DEF q
<1>5. Kept(Judged(q), docs, upload)
  <2>1. CASE q.phase = "release" /\ docs["note"] = "failed"
    <3>1. Judged(q) = Raised(q)
      BY <2>1 DEF Judged
    <3> QED BY <1>3, <3>1, RaisedKept
  <2>2. CASE q.phase = "pdf" /\ Live("part")
    <3> DEFINE r == Remember(q, "part")
    <3>1. Judged(q) = Raised(r)
      BY <2>2 DEF Judged
    <3>2. /\ r \in Locals /\ r.phase = q.phase /\ r.parts = q.parts /\ r.left = q.left /\ r.at = q.at
          /\ r.renew = q.renew /\ r.report = q.report /\ Len(r.created) \in Nat
          /\ Len(r.created) >= Len(q.created)
          /\ \A e : Known(r, e) <=> Known(q, e) \/ e = "part"
      BY <1>4, RememberEffect DEF Docs
    <3> HIDE DEF r
    <3>3. LocalInv(q) /\ CountInv(q, docs) /\ ToldInv(q, docs) /\ DueInv(q, docs, upload)
      BY <1>3 DEF Kept
    <3>4. q.left = 0 /\ q.report.failures = 0 /\ q.report.status = "failed"
      BY <1>2, <3>3 DEF LocalInv, Cleaning
    <3>5. LocalInv(r)
      BY <1>2, <3>2, <3>3, <3>4 DEF LocalInv
    <3>6. CountInv(r, docs)
      BY <1>2, <1>4, <2>2, <3>2, <3>3, CountForm DEF Cleaning, Live
    <3>7. Stage(r) = "poll" /\ Stage(q) = "poll"
      BY <1>2, <3>2 DEF Stage, Cleaning
    <3>8. ToldInv(r, docs)
      BY <3>2, <3>3, <3>7 DEF ToldInv
    <3>9. DueAlways(r, docs, upload)
      BY <3>2, <3>3, <3>4 DEF DueInv, DueAlways
    <3>10. Raisable(r, docs, upload)
      BY <1>2, <3>2, <3>5, <3>6, <3>8, <3>9 DEF Raisable
    <3> QED BY <3>1, <3>10, RaisedKept
  <2>3. CASE completed /\ ~ Live("part")
    <3>1. ~ (q.phase = "release" /\ docs["note"] = "failed")
      BY <2>3
    <3>2. q.phase = "pdf" => docs["parent"] # "converted"
      BY <2>3
    <3>3. Judged(q) = Passed(q)
      BY <2>3, <3>1, <3>2 DEF Judged
    <3> QED BY <1>1, <1>2, <1>4, <2>3, <3>3, PassedKept
  <2>4. CASE ~ completed /\ q.phase = "pdf" /\ docs["parent"] = "converted" /\ ~ q.asked /\ ~ Live("part")
    <3>1. Judged(q) = To(q, "ingest")
      BY <2>4 DEF Judged
    <3>2. /\ Same(To(q, "ingest"), q) /\ To(q, "ingest").at = "ingest"
          /\ To(q, "ingest").renew = "may" /\ To(q, "ingest").report = q.report
      BY <1>4, PlacesAre, ToEffect
    <3>3. docs["part"] \notin Alive
      BY <2>4 DEF Live, Alive
    <3>4. Kept(To(q, "ingest"), docs, upload)
      BY <1>2, <1>3, <2>4, <3>2, <3>3, MoveKept DEF Same
    <3> QED BY <3>1, <3>4
  <2>5. CASE /\ ~ (q.phase = "release" /\ docs["note"] = "failed") /\ ~ (q.phase = "pdf" /\ Live("part"))
             /\ ~ (completed /\ ~ Live("part"))
             /\ ~ (q.phase = "pdf" /\ docs["parent"] = "converted" /\ ~ q.asked /\ ~ Live("part"))
    <3>1. Judged(q) = To(q, "poll")
      BY <2>5 DEF Judged
    <3>2. /\ Same(To(q, "poll"), q) /\ To(q, "poll").at = "poll"
          /\ To(q, "poll").renew = "may" /\ To(q, "poll").report = q.report
      BY <1>4, PlacesAre, ToEffect
    <3>3. Kept(To(q, "poll"), docs, upload)
      BY <1>2, <1>3, <3>2, MoveKept DEF Same
    <3> QED BY <3>1, <3>3
  <2> QED BY <2>1, <2>2, <2>3, <2>4, <2>5
<1> QED BY <1>1, <1>5, QuietStep DEF q

LEMMA GetStep == IInv /\ Get => IInv'
<1> SUFFICES ASSUME IInv, Get PROVE IInv'
  OBVIOUS
<1> DEFINE t == To(probe, "delete")
           b == version[probe.created[probe.left]]
           r == [t EXCEPT !.base = b]
<1>1. Working /\ probe.at = "get" /\ Answered(r) /\ UNCHANGED service /\ probe.left > 0
  BY DEF Get, At, Unchanged, Working
<1>2. /\ probe \in Locals /\ LocalInv(probe) /\ CountInv(probe, docs) /\ ToldInv(probe, docs)
      /\ DueInv(probe, docs, upload)
  BY Before
<1>3. Same(t, probe) /\ t.at = "delete" /\ t.renew = "may" /\ t.report = probe.report
  BY <1>2, PlacesAre, ToEffect
<1>4. probe.left \in 1 .. Len(probe.created) /\ probe.created[probe.left] \in Docs
  BY <1>1, <1>2 DEF LocalInv, Locals, Reports
<1>5. b \in 0 .. 3
  BY <1>4, Before DEF ServiceInv
<1> HIDE DEF t, b
<1>6. Same(r, probe) /\ r.at = "delete" /\ r.renew = "may" /\ r.report = probe.report
  BY <1>3, <1>5 DEF Locals, Same
<1> HIDE DEF r
<1>7. \A d : Known(r, d) <=> Known(probe, d)
  BY <1>6 DEF Known, Same
<1>8. LocalInv(r)
  BY <1>1, <1>2, <1>6 DEF LocalInv, PlacesOf, Cleaning, Same
<1>9. Rest(r, docs) = Rest(probe, docs)
  BY <1>6 DEF Rest, Same
<1>10. CountInv(r, docs)
  BY <1>1, <1>2, <1>6, <1>7, <1>9, CountForm DEF Same, Cleaning
<1>11. Stage(r) = Stage(probe)
  BY <1>1, <1>6 DEF Stage, Cleaning
<1>12. ToldInv(r, docs) /\ DueInv(r, docs, upload)
  BY <1>1, <1>2, <1>6, <1>7, <1>11 DEF ToldInv, DueInv, Same, Starting
<1>13. Kept(r, docs, upload)
  BY <1>6, <1>8, <1>10, <1>12 DEF Kept, Same
<1> QED BY <1>1, <1>13, QuietStep

-----------------------------------------------------------------------------
(* Steps that change the service.                                          *)
\* The documents after one is stored, or stored again.
LEMMA StoreType ==
  ASSUME ServiceInv, NEW d \in Docs \ {"users"}, NEW s \in States, Store(d, s),
         Versions(docs[d]) + 1 <= Versions(s), Versions(docs[d]) \in {0, 1, 2}
  PROVE  /\ docs' \in [Docs -> States] /\ version' \in [Docs -> 0 .. 3] /\ UsersDocumentsKept'
         /\ docs'[d] = s /\ \A e \in Docs \ {d} : docs'[e] = docs[e]
         /\ \A e \in Docs : version'[e] <= Versions(docs'[e])
<1>1. /\ docs \in [Docs -> States] /\ version \in [Docs -> 0 .. 3] /\ docs["users"] = "stored"
      /\ \A e \in Docs : version[e] <= Versions(docs[e])
  BY DEF ServiceInv, UsersDocumentsKept
<1>2. docs' = [docs EXCEPT ![d] = s] /\ version' = [version EXCEPT ![d] = version[d] + 1]
  BY DEF Store
<1>3. Versions(s) \in 0 .. 3
  BY DEF Versions
<1> DEFINE limit(e) == Versions(docs[e])
<1>4. version[d] \in 0 .. 3 /\ version[d] <= Versions(docs[d])
  BY <1>1
<1>5. version[d] + 1 \in 0 .. 3 /\ version[d] + 1 <= Versions(s)
  BY <1>3, <1>4
<1>6. docs'[d] = s /\ \A e \in Docs \ {d} : docs'[e] = docs[e]
  BY <1>1, <1>2
<1>7. version'[d] = version[d] + 1 /\ \A e \in Docs \ {d} : version'[e] = version[e]
  BY <1>1, <1>2
<1>8. docs' \in [Docs -> States] /\ version' \in [Docs -> 0 .. 3]
  BY <1>1, <1>2, <1>5
<1>9. \A e \in Docs : version'[e] <= Versions(docs'[e])
  BY <1>1, <1>5, <1>6, <1>7
<1>10. docs'["users"] = "stored"
  BY <1>1, <1>6 DEF Docs
<1> QED BY <1>6, <1>8, <1>9, <1>10 DEF UsersDocumentsKept

\* A call that makes a document, which the check then remembers.
LEMMA MadeStep ==
  ASSUME IInv, Working, NEW d \in Docs, NEW s \in States, NEW next \in Places, Store(d, s),
         UNCHANGED accepts, Answered(To(Remember(probe, d), next)),
         \/ /\ probe.at = "create" /\ d = "note" /\ s = "stored" /\ next = "view" /\ upload' = upload
         \/ /\ probe.at = "complete" /\ d = "original" /\ s = "stored" /\ next = "replay"
            /\ upload' = "completed"
         \/ /\ probe.at = "convert" /\ d = "parent" /\ s = "converting" /\ next = "poll" /\ upload' = upload
  PROVE  IInv'
<1>1. /\ ServiceInv /\ probe \in Locals /\ LocalInv(probe) /\ CountInv(probe, docs)
      /\ ToldInv(probe, docs) /\ DueInv(probe, docs, upload)
  BY Before
<1>2. /\ probe.phase \in {"release", "pdf"}
      /\ probe.at = "create" => probe.phase = "release"
      /\ probe.at \in {"complete", "convert"} => probe.phase = "pdf"
  BY <1>1 DEF LocalInv, PlacesOf, Cleaning, Starting, Locals
<1>3. docs[d] = "none" /\ d \in Docs \ {"users"}
  BY <1>1, <1>2 DEF DueInv, Starting
<1>4. /\ docs' \in [Docs -> States] /\ version' \in [Docs -> 0 .. 3] /\ UsersDocumentsKept'
      /\ docs'[d] = s /\ \A e \in Docs \ {d} : docs'[e] = docs[e]
      /\ \A e \in Docs : version'[e] <= Versions(docs'[e])
  <2>1. Versions(docs[d]) = 0 /\ Versions(s) = 1
    BY <1>3 DEF Versions
  <2> QED BY <1>1, <1>3, <2>1, StoreType
<1>5. probe.at \notin Cleaning \union {"abort"}
  BY DEF Cleaning
<1>6. Stage(probe) = probe.at
  BY <1>5 DEF Stage
<1>7. \A e : Known(probe, e) => e \in Docs \ {d, "users"} /\ docs[e] # "none"
  <2>1. \A e : Known(probe, e) => e \in Docs
    BY <1>1 DEF Known, Locals
  <2> QED BY <1>1, <1>3, <2>1, CountForm
<1>8. probe.left = 0 /\ probe.report.failures = 0 /\ probe.report.status = "failed" /\ probe.report.stage = "none"
  BY <1>1, <1>5 DEF LocalInv
<1>9. Raisable(probe, docs', upload')
  <2>1. CountInv(probe, docs')
    BY <1>1, <1>4, <1>5, <1>7, CountForm
  <2>2. ToldInv(probe, docs')
    BY <1>1, <1>2, <1>4, <1>6 DEF ToldInv, Docs, Alive
  <2>3. DueAlways(probe, docs', upload')
    BY <1>1, <1>2, <1>4, <1>8 DEF DueAlways, DueInv, Docs
  <2> QED BY <1>1, <2>1, <2>2, <2>3 DEF Raisable, Working
<1> DEFINE r == Remember(probe, d)
           q == To(r, next)
<1>10. /\ r \in Locals /\ r.phase = probe.phase /\ r.parts = probe.parts /\ r.left = probe.left
       /\ r.report = probe.report /\ Len(r.created) \in Nat
       /\ \A e : Known(r, e) <=> Known(probe, e) \/ e = d
  BY <1>1, RememberEffect
<1> HIDE DEF r
<1>11. Same(q, r) /\ q.at = next /\ q.renew = "may" /\ q.report = r.report
  BY <1>10, ToEffect
<1> HIDE DEF q
<1>12. /\ q \in Locals /\ q.phase = probe.phase /\ q.left = 0 /\ q.report = probe.report
       /\ q.created = r.created /\ \A e : Known(q, e) <=> Known(probe, e) \/ e = d
  BY <1>8, <1>10, <1>11 DEF Same, Known
<1>13. next \notin Cleaning \union {"abort"}
  BY DEF Cleaning
<1>14. Stage(q) = next
  BY <1>11, <1>13 DEF Stage
<1>15. LocalInv(q)
  <2>1. next \in PlacesOf(q.phase)
    BY <1>2, <1>12 DEF PlacesOf
  <2> QED BY <1>8, <1>10, <1>11, <1>12, <1>13, <2>1 DEF LocalInv
<1>16. CountInv(q, docs')
  <2>1. s # "none" /\ d # "users"
    BY <1>3
  <2>2. \A e : Known(q, e) => e # "users" /\ docs'[e] # "none"
    BY <1>4, <1>7, <1>12, <2>1
  <2> QED BY <1>11, <1>12, <1>13, <2>2, CountForm
<1>17. ToldInv(q, docs')
  <2> SUFFICES ASSUME probe.phase = "pdf" PROVE ToldInv(q, docs')
    BY <1>12 DEF ToldInv
  <2>1. CASE probe.at = "complete" /\ d = "original" /\ next = "replay"
    <3>1. docs["parent"] = "none" /\ docs["second"] = "none" /\ docs["part"] \notin Alive
      BY <1>1, <1>6, <2>1 DEF DueInv, ToldInv, Starting
    <3>2. docs'["parent"] = "none" /\ docs'["second"] = "none" /\ docs'["part"] \notin Alive /\ Known(q, "original")
      BY <1>4, <1>12, <2>1, <3>1 DEF Docs
    <3> QED BY <3>2 DEF ToldInv, Alive
  <2>2. CASE probe.at = "convert" /\ d = "parent" /\ next = "poll"
    <3>1. docs["second"] \notin Alive /\ Known(probe, "original")
      BY <1>1, <1>6, <2>2 DEF DueInv, ToldInv
    <3>2. docs'["second"] \notin Alive /\ Known(q, "original") /\ Known(q, "parent")
      BY <1>4, <1>12, <2>2, <3>1 DEF Docs
    <3> QED BY <1>14, <2>2, <3>2 DEF ToldInv
  <2> QED BY <1>2, <2>1, <2>2
<1>18. DueInv(q, docs', upload')
  <2>1. CASE probe.at = "create" /\ d = "note" /\ next = "view" /\ upload' = upload
    BY <1>1, <1>2, <1>4, <1>11, <1>12, <2>1 DEF DueInv, Docs
  <2>2. CASE probe.at = "complete" /\ d = "original" /\ next = "replay" /\ upload' = "completed"
    BY <1>1, <1>2, <1>4, <1>8, <1>11, <1>12, <2>2 DEF DueInv, Docs, Starting
  <2>3. CASE probe.at = "convert" /\ d = "parent" /\ next = "poll" /\ upload' = upload
    BY <1>1, <1>2, <1>4, <1>8, <1>11, <1>12, <2>3 DEF DueInv, Docs, Starting
  <2> QED BY <2>1, <2>2, <2>3
<1>19. Kept(q, docs', upload')
  BY <1>12, <1>15, <1>16, <1>17, <1>18 DEF Kept
<1>20. upload' \in {"none", "open", "completed", "aborted"} /\ accepts' \in BOOLEAN
  BY <1>1 DEF ServiceInv
<1>21. Answered(q)
  BY DEF q, r
<1> QED BY <1>4, <1>9, <1>19, <1>20, <1>21, AnsweredStep

LEMMA CreateStep == IInv /\ Create => IInv'
<1> SUFFICES ASSUME IInv, Create PROVE IInv'
  OBVIOUS
<1>1. /\ Working /\ probe.at = "create" /\ Store("note", "stored") /\ UNCHANGED <<upload, accepts>>
      /\ Answered(To(Remember(probe, "note"), "view"))
  BY DEF Create, At
<1>2. "note" \in Docs /\ "stored" \in States /\ "view" \in Places
  BY PlacesAre DEF Docs, States
<1> QED BY <1>1, <1>2, MadeStep

LEMMA CompleteStep == IInv /\ Complete => IInv'
<1> SUFFICES ASSUME IInv, Complete PROVE IInv'
  OBVIOUS
<1>1. /\ Working /\ probe.at = "complete" /\ Store("original", "stored") /\ upload' = "completed"
      /\ UNCHANGED accepts /\ Answered(To(Remember(probe, "original"), "replay"))
  BY DEF Complete, At
<1>2. "original" \in Docs /\ "stored" \in States /\ "replay" \in Places
  BY PlacesAre DEF Docs, States
<1> QED BY <1>1, <1>2, MadeStep

LEMMA ConvertStep == IInv /\ Convert => IInv'
<1> SUFFICES ASSUME IInv, Convert PROVE IInv'
  OBVIOUS
<1>1. /\ Working /\ probe.at = "convert" /\ Store("parent", "converting") /\ UNCHANGED <<upload, accepts>>
      /\ Answered(To(Remember(probe, "parent"), "poll"))
  BY DEF Convert, At
<1>2. "parent" \in Docs /\ "converting" \in States /\ "poll" \in Places
  BY PlacesAre DEF Docs, States
<1> QED BY <1>1, <1>2, MadeStep

LEMMA StartStep == IInv /\ Start => IInv'
<1> SUFFICES ASSUME IInv, Start PROVE IInv'
  OBVIOUS
<1> DEFINE q == To(probe, "part_url")
<1>1. /\ Working /\ probe.at = "start" /\ upload' = "open" /\ Answered(q)
      /\ UNCHANGED <<docs, version, accepts>>
  BY DEF Start, At
<1>2. /\ ServiceInv /\ probe \in Locals /\ LocalInv(probe) /\ CountInv(probe, docs)
      /\ ToldInv(probe, docs) /\ DueInv(probe, docs, upload) /\ Raisable(probe, docs, upload)
  BY <1>1, Before
<1>3. probe.phase = "pdf" /\ probe.report.status = "failed"
  BY <1>1, <1>2 DEF LocalInv, PlacesOf, Cleaning, Locals
<1>4. Raisable(probe, docs, "open")
  BY <1>2, <1>3 DEF Raisable, DueAlways
<1>5. Same(q, probe) /\ q.at = "part_url" /\ q.renew = "may" /\ q.report = probe.report
  BY <1>2, PlacesAre, ToEffect
<1> HIDE DEF q
<1>6. \A d : Known(q, d) <=> Known(probe, d)
  BY <1>5 DEF Known, Same
<1>7. LocalInv(q)
  BY <1>1, <1>2, <1>3, <1>5, SizeAssumption DEF LocalInv, PlacesOf, Cleaning, Starting, Same
<1>8. CountInv(q, docs)
  BY <1>1, <1>2, <1>5, <1>6, CountForm DEF Cleaning, Same
<1>9. ToldInv(q, docs)
  <2>1. Stage(probe) = "start" /\ Stage(q) = "part_url"
    BY <1>1, <1>5 DEF Stage, Cleaning
  <2> QED BY <1>2, <1>3, <1>5, <1>6, <2>1 DEF ToldInv, Same
<1>10. DueInv(q, docs, "open")
  BY <1>1, <1>2, <1>3, <1>5, <1>6 DEF DueInv, Starting, Same
<1>11. Kept(q, docs, "open")
  BY <1>5, <1>7, <1>8, <1>9, <1>10 DEF Kept, Same
<1> QED BY <1>1, <1>2, <1>4, <1>11, AnsweredStep DEF ServiceInv, UsersDocumentsKept

LEMMA ReplayStep == IInv /\ Replay => IInv'
<1> SUFFICES ASSUME IInv, Replay PROVE IInv'
  OBVIOUS
<1>1. Working /\ probe.at = "replay"
  BY DEF Replay, At
<1>2. /\ ServiceInv /\ probe \in Locals /\ LocalInv(probe) /\ CountInv(probe, docs)
      /\ ToldInv(probe, docs) /\ DueInv(probe, docs, upload)
  BY Before
<1>3. CASE UNCHANGED service /\ Answered(To(probe, "preview"))
  <2>1. /\ Same(To(probe, "preview"), probe) /\ To(probe, "preview").at = "preview"
        /\ To(probe, "preview").renew = "may" /\ To(probe, "preview").report = probe.report
    BY <1>2, PlacesAre, ToEffect
  <2>2. Kept(To(probe, "preview"), docs, upload)
    BY <1>1, <2>1, Before, MoveKept DEF Same
  <2> QED BY <1>1, <1>3, <2>2, QuietStep
<1>4. CASE Store("second", "stored") /\ UNCHANGED <<upload, accepts, faults>> /\ probe' = Raised(probe)
  <2>1. probe.phase = "pdf" /\ probe.at \notin Cleaning \union {"abort"}
    BY <1>1, <1>2 DEF LocalInv, PlacesOf, Cleaning, Locals
  <2>2. docs["second"] = "none"
    BY <1>1, <1>2, <2>1 DEF DueInv
  <2>3. /\ docs' \in [Docs -> States] /\ version' \in [Docs -> 0 .. 3] /\ UsersDocumentsKept'
        /\ docs'["second"] = "stored" /\ \A e \in Docs \ {"second"} : docs'[e] = docs[e]
        /\ \A e \in Docs : version'[e] <= Versions(docs'[e])
    <3>1. Versions(docs["second"]) = 0 /\ Versions("stored") = 1
      BY <2>2 DEF Versions
    <3>2. "second" \in Docs \ {"users"} /\ "stored" \in States
      BY DEF Docs, States
    <3> QED BY <1>2, <1>4, <3>1, <3>2, StoreType
  <2>4. \A e : Known(probe, e) => e \in Docs \ {"second", "users"} /\ docs[e] # "none"
    <3>1. \A e : Known(probe, e) => e \in Docs
      BY <1>2 DEF Known, Locals
    <3> QED BY <1>2, <2>2, <3>1, CountForm
  <2>5. CountInv(probe, docs')
    BY <1>2, <2>1, <2>3, <2>4, CountForm
  <2>6. ToldInv(probe, docs')
    <3>1. Stage(probe) = "replay"
      BY <1>1, <2>1 DEF Stage
    <3> QED BY <1>2, <2>1, <2>3, <3>1 DEF ToldInv, Docs
  <2>7. DueAlways(probe, docs', upload)
    BY <1>2, <2>1, <2>3 DEF DueAlways, DueInv, Docs
  <2>8. Raisable(probe, docs', upload)
    BY <1>1, <1>2, <2>5, <2>6, <2>7 DEF Raisable
  <2>9. Kept(probe', docs', upload')
    BY <1>4, <2>8, RaisedKept
  <2>10. ServiceInv'
    BY <1>2, <1>4, <2>3 DEF ServiceInv
  <2>11. (IInv <=> ServiceInv /\ Kept(probe, docs, upload))'
    BY IInvForm, PTL
  <2> QED BY <2>9, <2>10, <2>11 DEF Kept
<1> QED BY <1>3, <1>4 DEF Replay, Unchanged

LEMMA AbortStep == IInv /\ Abort => IInv'
<1> SUFFICES ASSUME IInv, Abort PROVE IInv'
  OBVIOUS
<1>1. /\ Working /\ probe.at = "abort" /\ Answered(Cleanup(probe))
      /\ upload' \in {upload, "aborted"} /\ UNCHANGED <<docs, version, accepts>>
  BY DEF Abort, At
<1>2. /\ ServiceInv /\ probe \in Locals /\ LocalInv(probe) /\ Raisable(probe, docs, upload)
  BY <1>1, Before
<1>3. probe.phase = "pdf" /\ probe.report.status = "failed"
  BY <1>1, <1>2 DEF LocalInv, PlacesOf, Cleaning, Locals
<1>4. Raisable(probe, docs, upload')
  BY <1>2, <1>3 DEF Raisable, DueAlways
<1>5. Raised(probe) = Cleanup(probe)
  BY <1>1 DEF Raised, Uploading
<1>6. Kept(Cleanup(probe), docs, upload')
  BY <1>4, <1>5, RaisedKept
<1> QED BY <1>1, <1>2, <1>4, <1>6, AnsweredStep DEF ServiceInv, UsersDocumentsKept

LEMMA IngestStep == IInv /\ Ingest => IInv'
<1> SUFFICES ASSUME IInv, Ingest PROVE IInv'
  OBVIOUS
<1> DEFINE d == IF probe.phase = "release" THEN "note" ELSE "parent"
           t == To(probe, "poll")
           q == [t EXCEPT !.asked = TRUE]
<1>1. /\ Working /\ probe.at = "ingest" /\ Answered(q) /\ UNCHANGED <<version, upload, accepts>>
      /\ docs' = [docs EXCEPT ![d] = IF @ \in {"stored", "converted"} THEN "ingesting" ELSE @]
  BY DEF Ingest, At
<1>2. /\ ServiceInv /\ probe \in Locals /\ LocalInv(probe) /\ CountInv(probe, docs)
      /\ ToldInv(probe, docs) /\ DueInv(probe, docs, upload)
  BY Before
<1>3. d \in Docs \ {"users"} /\ docs \in [Docs -> States] /\ (d = "note" <=> probe.phase = "release")
      /\ d \in {"note", "parent"} /\ probe.phase \in {"release", "pdf"}
  BY <1>2 DEF Docs, ServiceInv, Locals
<1> HIDE DEF d
<1>4. /\ docs' \in [Docs -> States] /\ \A e \in Docs \ {d} : docs'[e] = docs[e]
      /\ \A e \in Docs : docs'[e] = docs[e] \/ (docs[e] \in {"stored", "converted"} /\ docs'[e] = "ingesting")
  BY <1>1, <1>3 DEF States
<1>5. \A e \in Docs : version'[e] <= Versions(docs'[e])
  <2> SUFFICES ASSUME NEW e \in Docs PROVE version'[e] <= Versions(docs'[e])
    OBVIOUS
  <2>1. version[e] <= Versions(docs[e]) /\ version[e] \in 0 .. 3 /\ version'[e] = version[e]
    BY <1>1, <1>2 DEF ServiceInv
  <2> QED BY <1>4, <2>1 DEF Versions
<1>6. UsersDocumentsKept'
  BY <1>2, <1>3, <1>4 DEF ServiceInv, UsersDocumentsKept, Docs
<1>7. probe.at \notin Cleaning \union {"abort"}
  BY <1>1 DEF Cleaning
<1>8. \A e : Known(probe, e) => e \in Docs /\ e # "users" /\ docs'[e] # "none"
  <2>1. \A e : Known(probe, e) => e \in Docs
    BY <1>2 DEF Known, Locals
  <2> QED BY <1>2, <1>4, <2>1, CountForm
<1>9. /\ \A e \in Docs : docs'[e] \in Alive <=> docs[e] \in Alive
      /\ \A e \in Docs : docs'[e] \in {"none", "deleted", "converting"} => docs[e] = docs'[e]
      /\ \A e \in Docs : docs[e] \in {"none", "deleted"} => docs'[e] = docs[e]
  BY <1>4 DEF Alive
<1>10. Raisable(probe, docs', upload)
  <2>1. CountInv(probe, docs')
    BY <1>2, <1>7, <1>8, CountForm
  <2>2. ToldInv(probe, docs')
    BY <1>2, <1>9 DEF ToldInv, Docs
  <2>3. DueAlways(probe, docs', upload)
    BY <1>2, <1>9 DEF DueAlways, DueInv, Docs
  <2> QED BY <1>1, <1>2, <2>1, <2>2, <2>3 DEF Raisable
<1>11. Same(t, probe) /\ t.at = "poll" /\ t.renew = "may" /\ t.report = probe.report
  BY <1>2, PlacesAre, ToEffect
<1> HIDE DEF t
<1>12. Same(q, probe) /\ q.at = "poll" /\ q.renew = "may" /\ q.report = probe.report
  BY <1>11 DEF Locals, Same
<1> HIDE DEF q
<1>13. \A e : Known(q, e) <=> Known(probe, e)
  BY <1>12 DEF Known, Same
<1>14. Kept(q, docs', upload)
  <2>1. LocalInv(q)
    BY <1>1, <1>2, <1>3, <1>7, <1>12 DEF LocalInv, PlacesOf, Cleaning, Starting, Same
  <2>2. CountInv(q, docs')
    BY <1>8, <1>12, <1>13, CountForm DEF Cleaning, Same
  <2>3. ToldInv(q, docs')
    <3>1. Stage(probe) = "ingest" /\ Stage(q) = "poll"
      BY <1>1, <1>12 DEF Stage, Cleaning
    <3> QED BY <1>2, <1>9, <1>12, <1>13, <3>1 DEF ToldInv, Same, Docs
  <2>4. DueInv(q, docs', upload)
    BY <1>1, <1>2, <1>9, <1>12, <1>13 DEF DueInv, Starting, Same, Docs
  <2> QED BY <1>12, <2>1, <2>2, <2>3, <2>4 DEF Kept, Same
<1> QED BY <1>1, <1>2, <1>4, <1>5, <1>6, <1>10, <1>14, AnsweredStep DEF ServiceInv

LEMMA DeleteStep == IInv /\ Delete => IInv'
<1> SUFFICES ASSUME IInv, Delete PROVE IInv'
  OBVIOUS
<1> DEFINE d == probe.created[probe.left]
           t == To(probe, "get")
           q == [t EXCEPT !.left = @ - 1]
<1>1. Working /\ probe.at = "delete" /\ UNCHANGED <<version, upload, accepts>>
  BY DEF Delete, At
<1>2. /\ ServiceInv /\ probe \in Locals /\ LocalInv(probe) /\ CountInv(probe, docs)
      /\ ToldInv(probe, docs) /\ DueInv(probe, docs, upload)
  BY Before
<1>3. probe.left \in 1 .. Len(probe.created) /\ probe.left \in DOMAIN probe.created /\ d \in Docs
      /\ probe.report.failures \in Nat
  BY <1>1, <1>2 DEF LocalInv, Locals, Reports
<1>4. Known(probe, d) /\ d # "users" /\ docs[d] # "none"
  <2>1. Known(probe, d)
    BY <1>3 DEF Known
  <2> QED BY <1>2, <2>1, CountForm
<1>5. CASE probe' = Raised(probe) /\ UNCHANGED <<docs, faults>>
  BY <1>1, <1>5, RaisedStep DEF service
<1>6. CASE docs' = [docs EXCEPT ![d] = "deleted"] /\ Answered(q)
  <2> HIDE DEF d
  <2>1. /\ docs' \in [Docs -> States] /\ docs'[d] = "deleted" /\ \A e \in Docs \ {d} : docs'[e] = docs[e]
    BY <1>2, <1>3, <1>6 DEF ServiceInv, States
  <2>2. UsersDocumentsKept'
    BY <1>2, <1>4, <2>1 DEF ServiceInv, UsersDocumentsKept, Docs
  <2>3. \A e \in Docs : version'[e] <= Versions(docs'[e])
    <3> SUFFICES ASSUME NEW e \in Docs PROVE version'[e] <= Versions(docs'[e])
      OBVIOUS
    <3>1. version[e] <= Versions(docs[e]) /\ version[e] \in 0 .. 3 /\ version'[e] = version[e]
      BY <1>1, <1>2 DEF ServiceInv
    <3> QED BY <2>1, <3>1 DEF Versions
  <2>4. /\ \A e \in Docs : docs'[e] \in Alive => docs[e] \in Alive
        /\ \A e \in Docs : docs'[e] = "converting" => docs[e] = "converting"
        /\ \A e \in Docs : docs[e] = "deleted" => docs'[e] = "deleted"
        /\ \A e \in Docs : docs'[e] = "none" <=> docs[e] = "none"
    BY <1>4, <2>1 DEF Alive
  <2>5. \A e : Known(probe, e) => e \in Docs
    BY <1>2 DEF Known, Locals
  <2>6. \A e : Known(probe, e) => e # "users" /\ docs'[e] # "none"
    BY <1>2, <2>4, <2>5, CountForm
  <2>7. /\ Cardinality(Rest(probe, docs')) <= Cardinality(Rest(probe, docs))
        /\ Cardinality(Rest(probe, docs)) <= probe.report.failures
    <3>1. Cardinality(Rest(probe, docs)) <= probe.report.failures
      BY <1>1, <1>2, CountForm DEF Cleaning
    <3> QED BY <1>2, <2>4, <2>5, <3>1, RestShrinks
  <2>8. Cardinality(Rest(probe, docs')) <= probe.report.failures
    BY <1>2, <1>3, <2>7, RestFinite
  <2>9. ToldInv(probe, docs')
    BY <1>2, <2>4 DEF ToldInv, Docs
  <2>10. DueAlways(probe, docs', upload)
    BY <1>2, <2>4 DEF DueAlways, DueInv, Docs
  <2>11. Raisable(probe, docs', upload)
    <3>1. CountInv(probe, docs')
      BY <1>2, <2>6, <2>8, CountForm
    <3> QED BY <1>1, <1>2, <2>9, <2>10, <3>1 DEF Raisable
  <2>12. Same(t, probe) /\ t.at = "get" /\ t.renew = "may" /\ t.report = probe.report
    BY <1>2, PlacesAre, ToEffect
  <2> HIDE DEF t
  <2>13. /\ q \in Locals /\ q.phase = probe.phase /\ q.parts = probe.parts /\ q.created = probe.created
         /\ q.left = probe.left - 1 /\ q.at = "get" /\ q.renew = "may" /\ q.report = probe.report
    <3>1. t \in Locals /\ t.left = probe.left /\ probe.left - 1 \in Nat
      BY <1>3, <2>12 DEF Same
    <3>2. q = [t EXCEPT !.left = probe.left - 1]
      BY <3>1
    <3> HIDE DEF q
    <3> QED BY <2>12, <3>1, <3>2 DEF Locals, Same
  <2> HIDE DEF q
  <2>14. \A e : Known(q, e) <=> Known(probe, e)
    BY <2>13 DEF Known
  <2>15. Kept(q, docs', upload)
    <3>1. LocalInv(q)
      BY <1>1, <1>2, <1>3, <2>13 DEF LocalInv, PlacesOf, Cleaning, Locals
    <3>2. Cardinality(Rest(q, docs')) <= Cardinality(Rest(probe, docs'))
      <4>1. docs'[probe.created[probe.left]] \notin Alive
        BY <2>1 DEF Alive, d
      <4> QED BY <1>2, <1>3, <2>13, <4>1, RestGrows
    <3>3. Cardinality(Rest(q, docs')) <= q.report.failures
      <4>1. Cardinality(Rest(q, docs')) \in Nat /\ Cardinality(Rest(probe, docs')) \in Nat
        BY <1>2, <2>13, RestFinite
      <4> QED BY <1>3, <2>8, <2>13, <3>2, <4>1
    <3>4. CountInv(q, docs')
      BY <2>6, <2>13, <2>14, <3>3, CountForm
    <3>5. Stage(q) = Stage(probe)
      BY <1>1, <2>13 DEF Stage, Cleaning
    <3>6. ToldInv(q, docs')
      BY <2>9, <2>13, <2>14, <3>5 DEF ToldInv
    <3>7. DueInv(q, docs', upload)
      BY <2>10, <2>13, <2>14 DEF DueAlways, DueInv, Starting
    <3> QED BY <2>13, <3>1, <3>4, <3>6, <3>7 DEF Kept
  <2> QED BY <1>1, <1>2, <1>6, <2>1, <2>2, <2>3, <2>11, <2>15, AnsweredStep DEF ServiceInv
<1> QED BY <1>5, <1>6 DEF Delete

-----------------------------------------------------------------------------
(* The end of a check.                                                     *)
LEMMA NothingLeft ==
  ASSUME NEW q \in Locals, NEW ds, q.left = 0, Cardinality(Rest(q, ds)) <= 0
  PROVE  \A d : Known(q, d) => ds[d] \notin Alive
<1>1. IsFiniteSet(Rest(q, ds)) /\ Cardinality(Rest(q, ds)) \in Nat
  BY RestFinite
<1>2. Rest(q, ds) = {}
  BY <1>1, FS_EmptySet
<1>3. DOMAIN q.created = q.left + 1 .. Len(q.created)
  BY DEF Locals
<1> QED BY <1>2, <1>3 DEF Rest, Known

LEMMA FreshKept ==
  ASSUME NEW ds, NEW up, ds["note"] = "deleted", \A d \in Docs \ {"users", "note"} : ds[d] = "none"
  PROVE  Kept(Fresh("pdf"), ds, up)
<1> DEFINE r == Fresh("pdf")
<1>1. /\ r.phase = "pdf" /\ r.at = "login" /\ r.token = "none" /\ r.renew = "may" /\ r.parts = 0
      /\ r.created = <<>> /\ r.left = 0 /\ r.base = 0 /\ r.asked = FALSE /\ r.polls = 0
      /\ r.report = [status |-> "failed", stage |-> "none", failures |-> 0]
  BY DEF Fresh
<1>2. r \in Locals
  <2>1. <<>> \in Seq(Docs) /\ "login" \in Places /\ 0 \in 0 .. PartCount /\ 0 \in 0 .. MaxPolls
    BY PlacesAre, SizeAssumption
  <2>2. [status |-> "failed", stage |-> "none", failures |-> 0] \in Reports
    BY DEF Reports
  <2> QED BY <2>1, <2>2 DEF Fresh, Locals
<1> HIDE DEF r
<1>3. r.report.status = "failed" /\ r.report.stage = "none" /\ r.report.failures = 0
  BY <1>1
<1>4. LocalInv(r)
  BY <1>1, <1>3 DEF LocalInv, PlacesOf, Cleaning, Starting
<1>5. \A d : ~ Known(r, d)
  BY <1>1 DEF Known
<1>6. CountInv(r, ds)
  BY <1>1, <1>2, <1>5, CountForm DEF Cleaning
<1>7. ToldInv(r, ds)
  BY DEF ToldInv, Docs, Alive
<1>8. DueInv(r, ds, up)
  BY <1>1, <1>3 DEF DueInv, Docs, Starting
<1> QED BY <1>2, <1>4, <1>6, <1>7, <1>8 DEF Kept, r

LEMMA FinishStep == IInv /\ Finish => IInv'
<1> SUFFICES ASSUME IInv, Finish PROVE IInv'
  OBVIOUS
<1> DEFINE passed == probe.report.status = "passed" /\ probe.report.failures = 0
           q == [probe EXCEPT !.at = "done", !.report.status = IF passed THEN @ ELSE "failed"]
<1>1. /\ probe.at = "get" /\ probe.left = 0 /\ UNCHANGED <<docs, version, upload, accepts, faults>>
      /\ \/ passed /\ probe.phase = "release" /\ probe' = Fresh("pdf")
         \/ probe' = q
  BY DEF Finish, service
<1>2. /\ ServiceInv /\ probe \in Locals /\ LocalInv(probe) /\ CountInv(probe, docs)
      /\ ToldInv(probe, docs) /\ DueInv(probe, docs, upload)
  BY Before
<1>3. CASE passed /\ probe.phase = "release" /\ probe' = Fresh("pdf")
  <2>1. Cardinality(Rest(probe, docs)) <= 0
    BY <1>1, <1>2, <1>3, CountForm DEF Cleaning
  <2>2. Known(probe, "note") /\ \A d \in Docs \ {"users", "note"} : docs[d] = "none"
    BY <1>2, <1>3 DEF DueInv
  <2>3. docs["note"] \notin Alive /\ docs["note"] # "none" /\ docs["note"] \in States
    <3>1. docs["note"] \notin Alive
      BY <1>1, <1>2, <2>1, <2>2, NothingLeft
    <3>2. docs["note"] # "none"
      BY <1>2, <2>2, CountForm
    <3> QED BY <1>2, <3>1, <3>2 DEF ServiceInv, Docs
  <2>4. docs["note"] = "deleted"
    BY <2>3 DEF States, Alive
  <2>5. Kept(probe', docs, upload)
    BY <1>3, <2>2, <2>4, FreshKept
  <2> QED BY <1>1, <1>2, <2>5, ServiceKept DEF ServiceInv
<1>4. CASE probe' = q
  <2>1. q = [probe EXCEPT !.at = "done",
                          !.report = [probe.report EXCEPT !.status = IF passed THEN @ ELSE "failed"]]
    BY <1>2 DEF Locals
  <2>2. probe.report \in Reports
    BY <1>2 DEF Locals
  <2> DEFINE said == [probe.report EXCEPT !.status = IF passed THEN @ ELSE "failed"]
  <2>3. said \in Reports /\ said.stage = probe.report.stage /\ said.failures = probe.report.failures
        /\ (said.status = "passed" => passed)
    BY <2>2 DEF Reports
  <2> HIDE DEF said
  <2>4. /\ q \in Locals /\ q.phase = probe.phase /\ q.parts = probe.parts /\ q.created = probe.created
        /\ q.left = 0 /\ q.at = "done" /\ q.renew = probe.renew /\ q.report = said
    BY <1>1, <1>2, <2>1, <2>3, PlacesAre DEF Locals, said
  <2> HIDE DEF q
  <2>5. \A d : Known(q, d) <=> Known(probe, d)
    BY <2>4 DEF Known
  <2>6. q.report.stage = probe.report.stage /\ q.report.failures = probe.report.failures
        /\ (q.report.status = "passed" => passed)
    BY <2>3, <2>4
  <2>7. LocalInv(q)
    BY <1>1, <1>2, <2>4, <2>6 DEF LocalInv, PlacesOf, Cleaning
  <2>8. Rest(q, docs) = Rest(probe, docs)
    BY <1>1, <2>4 DEF Rest
  <2>9. CountInv(q, docs)
    BY <1>1, <1>2, <2>4, <2>5, <2>6, <2>8, CountForm DEF Cleaning
  <2>10. Stage(q) = Stage(probe)
    BY <1>1, <2>4, <2>6 DEF Stage, Cleaning
  <2>11. ToldInv(q, docs)
    BY <1>2, <2>4, <2>5, <2>10 DEF ToldInv
  <2>12. DueInv(q, docs, upload)
    BY <1>1, <1>2, <2>4, <2>5, <2>6 DEF DueInv, Starting
  <2>13. Kept(probe', docs, upload)
    BY <1>4, <2>4, <2>7, <2>9, <2>11, <2>12 DEF Kept
  <2> QED BY <1>1, <1>2, <2>13, ServiceKept DEF ServiceInv
<1> QED BY <1>1, <1>3, <1>4

-----------------------------------------------------------------------------
(* What the service does by itself.                                        *)
LEMMA WorkedStep ==
  ASSUME IInv, UNCHANGED <<upload, accepts, probe, faults>>,
         docs' \in [Docs -> States], version' \in [Docs -> 0 .. 3], UsersDocumentsKept',
         \A e \in Docs : version'[e] <= Versions(docs'[e]),
         \A e \in Docs \ {"part"} :
           /\ docs'[e] \in Alive <=> docs[e] \in Alive
           /\ docs'[e] = "converting" => docs[e] = "converting"
           /\ docs[e] \in {"none", "deleted"} <=> docs'[e] \in {"none", "deleted"}
           /\ docs[e] \in {"none", "deleted"} => docs'[e] = docs[e],
         \/ docs'["part"] = docs["part"]
         \/ docs["parent"] = "converting" /\ docs["part"] = "none" /\ docs'["part"] = "stored"
  PROVE  IInv'
<1>1. /\ ServiceInv /\ probe \in Locals /\ LocalInv(probe) /\ CountInv(probe, docs)
      /\ ToldInv(probe, docs) /\ DueInv(probe, docs, upload)
  BY Before
<1>2. /\ \A d : Known(probe, d) => d # "users" /\ docs[d] # "none"
      /\ \A d : Known(probe, d) => d \in Docs
  BY <1>1, CountForm DEF Known, Locals
<1>3. \A d : Known(probe, d) => (docs'[d] \in Alive <=> docs[d] \in Alive) /\ docs'[d] # "none"
  BY <1>2
<1>4. CountInv(probe, docs')
  <2>1. Cardinality(Rest(probe, docs')) <= Cardinality(Rest(probe, docs))
    BY <1>1, <1>3, RestShrinks
  <2>2. Cardinality(Rest(probe, docs')) \in Nat /\ Cardinality(Rest(probe, docs)) \in Nat
        /\ probe.report.failures \in Nat
    BY <1>1, RestFinite DEF Locals, Reports
  <2>3. probe.at \in Cleaning => Cardinality(Rest(probe, docs)) <= probe.report.failures
    BY <1>1, CountForm
  <2>4. probe.at \in Cleaning => Cardinality(Rest(probe, docs')) <= probe.report.failures
    BY <2>1, <2>2, <2>3
  <2> QED BY <1>1, <1>2, <1>3, <2>4, CountForm
<1>5. probe.phase = "release" => docs["parent"] = "none"
  BY <1>1 DEF DueInv, Docs
<1>6. ToldInv(probe, docs')
  BY <1>1 DEF ToldInv, Docs, Alive
<1>7. DueInv(probe, docs', upload)
  BY <1>1, <1>5 DEF DueInv, Docs
<1>8. ServiceInv'
  BY <1>1 DEF ServiceInv
<1>9. Kept(probe', docs', upload')
  BY <1>1, <1>4, <1>6, <1>7 DEF Kept
<1>10. (IInv <=> ServiceInv /\ Kept(probe, docs, upload))'
  BY IInvForm, PTL
<1> QED BY <1>8, <1>9, <1>10 DEF Kept

LEMMA WorksStep == IInv /\ Works => IInv'
<1> SUFFICES ASSUME IInv, Works PROVE IInv'
  OBVIOUS
<1>1. UNCHANGED <<upload, accepts, probe, faults>>
  BY DEF Works
<1>2. /\ ServiceInv /\ docs \in [Docs -> States]
      /\ \A d \in Docs : version[d] <= Versions(docs[d]) /\ version[d] \in 0 .. 3
  BY Before DEF ServiceInv
<1>3. ASSUME NEW d \in {"note", "parent"}, NEW s \in {"converted", "completed", "failed"}, Store(d, s),
             docs[d] \in {"converting", "ingesting"}, Versions(docs[d]) + 1 <= Versions(s),
             Versions(docs[d]) \in {0, 1, 2}
      PROVE  IInv'
  <2>1. /\ docs' \in [Docs -> States] /\ version' \in [Docs -> 0 .. 3] /\ UsersDocumentsKept'
        /\ docs'[d] = s /\ \A e \in Docs \ {d} : docs'[e] = docs[e]
        /\ \A e \in Docs : version'[e] <= Versions(docs'[e])
    <3>1. d \in Docs \ {"users"} /\ s \in States
      BY DEF Docs, States
    <3> QED BY <1>2, <1>3, <3>1, StoreType
  <2>2. "part" \in Docs \ {d}
    BY DEF Docs
  <2> QED BY <1>1, <1>3, <2>1, <2>2, WorkedStep DEF Alive
<1>4. CASE Converted
  <2>1. Versions("converting") = 1 /\ Versions("converted") = 2
    BY DEF Versions
  <2> QED BY <1>3, <1>4, <2>1 DEF Converted
<1>5. CASE Split
  <2>1. Versions("none") = 0 /\ Versions("stored") = 1 /\ "part" \in Docs \ {"users"} /\ "stored" \in States
    BY DEF Versions, Docs, States
  <2>2. /\ docs' \in [Docs -> States] /\ version' \in [Docs -> 0 .. 3] /\ UsersDocumentsKept'
        /\ docs'["part"] = "stored" /\ \A e \in Docs \ {"part"} : docs'[e] = docs[e]
        /\ \A e \in Docs : version'[e] <= Versions(docs'[e])
    BY <1>2, <1>5, <2>1, StoreType DEF Split
  <2> QED BY <1>1, <1>5, <2>2, WorkedStep DEF Split
<1>6. CASE AutoIngest
  <2>1. docs' \in [Docs -> States] /\ docs'["parent"] = "ingesting" /\ \A e \in Docs \ {"parent"} : docs'[e] = docs[e]
        /\ docs["parent"] = "converted" /\ version' = version
    BY <1>2, <1>6 DEF AutoIngest, Docs, States
  <2>2. Versions("converted") = 2 /\ Versions("ingesting") = 2 /\ "parent" # "users" /\ "part" # "parent"
        /\ {"users", "parent", "part"} \subseteq Docs
    BY DEF Versions, Docs
  <2>3. \A e \in Docs : version'[e] <= Versions(docs'[e])
    BY <1>2, <2>1, <2>2
  <2>4. UsersDocumentsKept' /\ version' \in [Docs -> 0 .. 3]
    BY <1>2, <2>1, <2>2 DEF ServiceInv, UsersDocumentsKept
  <2> QED BY <1>1, <2>1, <2>2, <2>3, <2>4, WorkedStep DEF Alive
<1>7. ASSUME NEW d \in {"note", "parent"}, Ingested(d) PROVE IInv'
  <2>1. Versions("ingesting") = 2 /\ Versions("completed") = 3 /\ Versions("failed") = 3
    BY DEF Versions
  <2> QED BY <1>3, <1>7, <2>1 DEF Ingested
<1> QED BY <1>4, <1>5, <1>6, <1>7 DEF Works

LEMMA RejectStep == IInv /\ Reject => IInv'
BY Before, ServiceKept DEF Reject, ServiceInv

-----------------------------------------------------------------------------
LEMMA InitInv == Init => IInv
<1> SUFFICES ASSUME Init PROVE IInv
  OBVIOUS
<1>1. /\ docs = [d \in Docs |-> IF d = "users" THEN "stored" ELSE "none"]
      /\ version = [d \in Docs |-> IF d = "users" THEN 1 ELSE 0]
      /\ upload = "none" /\ accepts \in BOOLEAN /\ probe = Fresh("release") /\ faults = 0
  BY DEF Init
<1>2. ServiceInv
  <2>1. \A d \in Docs : version[d] <= Versions(docs[d])
    BY <1>1 DEF Versions
  <2>2. "users" \in Docs
    BY DEF Docs
  <2> QED BY <1>1, <2>1, <2>2, SizeAssumption DEF ServiceInv, States, UsersDocumentsKept
<1> DEFINE r == Fresh("release")
<1>3. /\ r.phase = "release" /\ r.at = "login" /\ r.renew = "may" /\ r.parts = 0
      /\ r.created = <<>> /\ r.left = 0
      /\ r.report = [status |-> "failed", stage |-> "none", failures |-> 0]
  BY DEF Fresh
<1>4. r \in Locals
  <2>1. <<>> \in Seq(Docs) /\ "login" \in Places /\ 0 \in 0 .. PartCount /\ 0 \in 0 .. MaxPolls
    BY PlacesAre, SizeAssumption
  <2>2. [status |-> "failed", stage |-> "none", failures |-> 0] \in Reports
    BY DEF Reports
  <2> QED BY <2>1, <2>2 DEF Fresh, Locals
<1> HIDE DEF r
<1>5. r.report.status = "failed" /\ r.report.stage = "none" /\ r.report.failures = 0
  BY <1>3
<1>6. LocalInv(r)
  BY <1>3, <1>5 DEF LocalInv, PlacesOf, Cleaning
<1>7. CountInv(r, docs)
  <2>1. \A d : ~ Known(r, d)
    BY <1>3 DEF Known
  <2> QED BY <1>3, <1>4, <2>1, CountForm DEF Cleaning
<1>8. ToldInv(r, docs) /\ DueInv(r, docs, upload)
  BY <1>1, <1>3, <1>5 DEF ToldInv, DueInv, Docs
<1> QED BY <1>1, <1>2, <1>4, <1>6, <1>7, <1>8, IInvForm DEF Kept, r

LEMMA StutterStep == IInv /\ UNCHANGED vars => IInv'
BY Before, ServiceKept DEF vars, service, ServiceInv

LEMMA NextStep == IInv /\ [Next]_vars => IInv'
<1> SUFFICES ASSUME IInv, [Next]_vars PROVE IInv'
  OBVIOUS
<1>1. CASE Login \/ Unauthorized \/ CallFails \/ Expire
  BY <1>1, LoginStep, UnauthorizedStep, CallFailsStep, ExpireStep
<1>2. CASE Create \/ View \/ Start \/ PartUrl \/ PartPut \/ Complete \/ Replay \/ Abort
  BY <1>2, CreateStep, ViewStep, StartStep, PartUrlStep, PartPutStep, CompleteStep, ReplayStep, AbortStep
<1>3. CASE Preview \/ ByteRange \/ Convert \/ Ingest \/ Poll \/ TimeOut
  BY <1>3, PreviewStep, ByteRangeStep, ConvertStep, IngestStep, PollStep, TimeOutStep
<1>4. CASE Get \/ Delete \/ Finish
  BY <1>4, GetStep, DeleteStep, FinishStep
<1>5. CASE Works \/ Reject \/ UNCHANGED vars
  BY <1>5, WorksStep, RejectStep, StutterStep
<1> QED BY <1>1, <1>2, <1>3, <1>4, <1>5 DEF Next, Progress

\* The strengthened invariant of SmokeDocument holds in every state: where a
\* check is, what it remembers and what its cleanup counted fit what became of
\* the documents, whatever failed, expired or was answered wrongly.
THEOREM Invariance == Spec => []IInv
BY InitInv, NextStep, PTL DEF Spec

-----------------------------------------------------------------------------
(* The properties that the runs check.                                     *)
\* Known documents that are there are no more than their places in the list.
LEMMA KnownCounted ==
  ASSUME NEW q \in Locals, NEW ds, q.left = 0, NEW S, \A d \in S : Known(q, d) /\ ds[d] \in Alive
  PROVE  Cardinality(S) \in Nat /\ Cardinality(S) <= Cardinality(Rest(q, ds))
<1> DEFINE I == {i \in Rest(q, ds) : q.created[i] \in S}
           f == [i \in I |-> q.created[i]]
<1>1. \A d \in S : \E i \in I : q.created[i] = d
  BY DEF Known, Rest, Locals
<1>2. f \in Surjection(I, S)
  BY <1>1 DEF Surjection
<1> HIDE DEF f
<1>3. IsFiniteSet(Rest(q, ds)) /\ Cardinality(Rest(q, ds)) \in Nat /\ I \subseteq Rest(q, ds)
  BY RestFinite
<1>4. IsFiniteSet(I) /\ Cardinality(I) <= Cardinality(Rest(q, ds))
  BY <1>3, FS_Subset
<1> HIDE DEF I
<1>5. IsFiniteSet(S) /\ Cardinality(S) <= Cardinality(I)
  BY <1>2, <1>4, FS_Surjection
<1> QED BY <1>3, <1>4, <1>5, FS_CardinalityType

LEMMA LiveIsAlive ==
  ASSUME IInv, NEW d \in Docs
  PROVE  Live(d) <=> docs[d] \in Alive
BY Before DEF ServiceInv, States, Live, Alive

LEMMA Counted == IInv => LeftoversCounted
<1> SUFFICES ASSUME IInv, probe.at = "done" PROVE LeftoversCounted
  BY DEF LeftoversCounted
<1> DEFINE S == {d \in Own : Live(d) /\ \E i \in DOMAIN probe.created : probe.created[i] = d}
<1>1. probe \in Locals /\ LocalInv(probe) /\ CountInv(probe, docs)
  BY Before
<1>2. probe.left = 0
  BY <1>1 DEF LocalInv
<1>3. \A d \in S : Known(probe, d) /\ docs[d] \in Alive
  BY LiveIsAlive DEF Known, Own
<1> HIDE DEF S
<1>4. Cardinality(S) \in Nat /\ Cardinality(S) <= Cardinality(Rest(probe, docs))
  BY <1>1, <1>2, <1>3, KnownCounted
<1>5. Cardinality(Rest(probe, docs)) <= probe.report.failures
  BY <1>1, CountForm DEF Cleaning
<1>6. /\ IsFiniteSet(Rest(probe, docs)) /\ Cardinality(Rest(probe, docs)) \in Nat
      /\ probe.report.failures \in Nat
  BY <1>1, RestFinite DEF Locals, Reports
<1> QED BY <1>4, <1>5, <1>6 DEF LeftoversCounted, S

\* States are of their types, what users stored before the checks is there, and
\* the report of a check that ended counts at least the documents that it knows
\* and that are still there, however many of its calls failed.
THEOREM LeavesAreCounted == Spec => []Safety
<1>1. IInv => Safety
  BY Counted DEF IInv, Safety
<1> QED BY <1>1, Invariance, PTL

\* A check that passed left no document that it or a defect of the service made,
\* and no open upload, for any number of parts, polls and failures.
THEOREM PassedIsClean == Spec => []CleanAfterPass
<1>1. ASSUME IInv, probe.at = "done", probe.report.status = "passed" PROVE CleanAfterPass
  <2>1. /\ probe \in Locals /\ LocalInv(probe) /\ CountInv(probe, docs)
        /\ ToldInv(probe, docs) /\ DueInv(probe, docs, upload) /\ probe.phase \in {"release", "pdf"}
    BY <1>1, Before DEF Locals
  <2>2. probe.left = 0 /\ probe.report.failures = 0 /\ probe.report.stage = "none"
    BY <1>1, <2>1 DEF LocalInv
  <2>3. \A d : Known(probe, d) => docs[d] \notin Alive
    <3>1. Cardinality(Rest(probe, docs)) <= 0
      BY <1>1, <2>1, <2>2, CountForm DEF Cleaning
    <3> QED BY <2>1, <2>2, <3>1, NothingLeft
  <2>4. Stage(probe) = "none"
    BY <1>1, <2>2 DEF Stage, Cleaning
  <2>5. CASE probe.phase = "release"
    <3>1. Known(probe, "note") /\ upload = "none" /\ \A d \in Docs \ {"users", "note"} : docs[d] = "none"
      BY <1>1, <2>1, <2>5 DEF DueInv
    <3>2. \A d \in Own : docs[d] \notin Alive
      BY <2>3, <3>1 DEF Own, Alive
    <3> QED BY <1>1, <3>1, <3>2, LiveIsAlive DEF CleanAfterPass, Own
  <2>6. CASE probe.phase = "pdf"
    <3>1. docs["note"] = "deleted" /\ Known(probe, "original") /\ Known(probe, "parent") /\ upload = "completed"
      BY <1>1, <2>1, <2>6 DEF DueInv
    <3>2. docs["second"] \notin Alive /\ docs["part"] \notin Alive
      BY <2>1, <2>4, <2>6 DEF ToldInv
    <3>3. docs["note"] \notin Alive /\ docs["original"] \notin Alive /\ docs["parent"] \notin Alive
      BY <2>3, <3>1 DEF Alive
    <3>4. \A d \in Own : docs[d] \notin Alive
      BY <3>2, <3>3 DEF Own, Docs
    <3> QED BY <1>1, <3>1, <3>4, LiveIsAlive DEF CleanAfterPass, Own
  <2> QED BY <2>1, <2>5, <2>6
<1>2. IInv => CleanAfterPass
  BY <1>1 DEF CleanAfterPass
<1> QED BY <1>2, Invariance, PTL

\* What the PDF probe leaves and does not know, it leaves at the call that its
\* report names: a completion, its replay or a conversion whose answer was lost,
\* or a document split off while it polled.
THEOREM LeftoversAreTold == Spec => []LeftoversTold
<1>1. ASSUME IInv, probe.at = "done", probe.phase = "pdf",
             NEW d \in Own, Live(d), \A i \in DOMAIN probe.created : probe.created[i] # d
      PROVE  probe.report.stage \in {"complete", "replay", "convert", "poll"}
  <2>1. ToldInv(probe, docs) /\ DueInv(probe, docs, upload)
    BY <1>1, Before
  <2>2. docs[d] \in Alive /\ ~ Known(probe, d)
    BY <1>1, LiveIsAlive DEF Own, Known
  <2>3. Stage(probe) = probe.report.stage
    BY <1>1 DEF Stage, Cleaning
  <2>4. d # "note"
    BY <1>1, <2>1, <2>2 DEF DueInv, Alive
  <2> QED BY <1>1, <2>1, <2>2, <2>3, <2>4 DEF ToldInv, Own, Docs
<1>2. IInv => LeftoversTold
  BY <1>1 DEF LeftoversTold
<1> QED BY <1>2, Invariance, PTL
=============================================================================
