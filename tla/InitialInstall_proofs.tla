----------------------- MODULE InitialInstall_proofs -----------------------
(***************************************************************************)
(* Proofs about InitialInstall for any set of releases, any changes that   *)
(* manifests may differ in and any number of databases and faults.         *)
(***************************************************************************)
EXTENDS InitialInstall, TLAPS

Places ==
  {"idle", "failed", "repair", "check_empty", "bind", "start_job", "await_job", "fingerprint",
   "rollout", "ready", "record", "done"}
Locals ==
  [at : Places, in : Inputs \union {None}, fresh : BOOLEAN,
   pending : Writes \union {None}, i : Dbs, current : Schemas \union {None}]

\* The fields of the local state after a step.
Became(at, in, fresh, pending, i, current) ==
  /\ run' \in Locals
  /\ run'.at = at /\ run'.in = in /\ run'.fresh = fresh /\ run'.pending = pending
  /\ run'.i = i /\ run'.current = current

LEMMA RunType == TypeOK => run \in Locals
BY DEF TypeOK, Locals, Places

LEMMA FirstDb == 1 \in Dbs /\ NumDbs \in Dbs /\ Dbs \subseteq Nat
BY SizeAssumption DEF Dbs

LEMMA GotoEffect ==
  ASSUME TypeOK, NEW x \in Places, Goto(x)
  PROVE  Became(x, run.in, run.fresh, run.pending, run.i, run.current)
<1>1. run \in Locals
  BY RunType
<1> QED BY <1>1 DEF Goto, Locals, Became

LEMMA IdleEffect ==
  ASSUME TypeOK, NEW x \in Places, run' = Idle(x)
  PROVE  Became(x, run.in, FALSE, None, 1, None)
<1>1. run \in Locals
  BY RunType
<1>2. run' \in Locals
  BY <1>1, FirstDb DEF Idle, Locals
<1>3. /\ run'.at = x /\ run'.in = run.in /\ run'.fresh = FALSE /\ run'.pending = None
      /\ run'.i = 1 /\ run'.current = None
  BY <1>1 DEF Idle, Locals
<1> QED BY <1>2, <1>3 DEF Became

-----------------------------------------------------------------------------
(* Records and the chain that they form.                                   *)
LEMMA RecordType ==
  ASSUME TypeOK, NEW n \in Names, Has(n)
  PROVE  /\ rec[n] \in Records /\ rec[n].contract \in BOOLEAN /\ rec[n].of \in Shas
         /\ rec[n].manifest \in Manifests /\ rec[n].original \in Manifests
BY DEF TypeOK, Has, Records

LEMMA NoneIsNone ==
  /\ None \notin Shas /\ None \notin Schemas /\ None \notin Inputs /\ None \notin Records /\ None \notin Releases
  /\ None \notin Writes
BY NoneAssumption

LEMMA TailForm == Tail = IF Has("oauth") THEN rec["oauth"].manifest ELSE OnMail
BY DEF Tail, OnMail, OnProbe

\* What the repair of a run made of the chain is what is on record after it.
LEMMA LinksOnRecord ==
  ASSUME TypeOK, RecInv, NEW in \in Inputs, Under(in), StageHolds(in), in.repair \in {"probe", "mail"} => ~ Has("ready")
  PROVE  /\ Probed(in) = OnProbe /\ Mailed(in) = OnMail
         /\ Wired(in) <=> Has("oauth")
<1>1. in.repair \in {"probe", "mail"} => ~ Has("oauth")
  BY DEF RecInv
<1>2. Probed(in) = OnProbe
  BY <1>1, TailForm DEF Probed, Link, OnProbe, OnMail, Under
<1>3. in.repair = "mail" => in.manifest = OnMail
  BY <1>1, TailForm DEF Under
<1>4. Mailed(in) = OnMail
  BY <1>2, <1>3 DEF Mailed, Link, OnMail
<1> QED BY <1>2, <1>4 DEF Wired, Under

\* Inputs that say what is on record are accepted.
LEMMA Acceptance ==
  ASSUME TypeOK, RecInv, ReleaseIsPromoted, SchemaInv, Open, NEW in \in Inputs, Under(in), StageHolds(in),
         in.repair \in {"probe", "mail"} => ~ Has("ready") /\ Successes = {},
         in.repair = "oauth" => Successes = {},
         Successes = {} \/ in.op = "deploy"
  PROVE  Accepts(in)
<1>1. Has("marker") /\ rec["marker"].contract /\ rec["marker"].of = in.of /\ in.manifest = Tail
  BY DEF Under, Bound
<1>2. /\ Probed(in) = OnProbe /\ Mailed(in) = OnMail
      /\ Wired(in) <=> Has("oauth")
  BY LinksOnRecord
<1>3. in.op = "deploy" => Has("ready")
  BY DEF StageHolds
<1>4. Has("ready") => in.op = "deploy"
  BY DEF StageHolds, Inputs
<1>5. Successes = {} \/ (in.op = "deploy" /\ Successes = {in.of})
  BY <1>1 DEF Open
<1>6. \A n \in {"marker", "ready"} : Has(n) => Ours(n, in.of)
  BY <1>1 DEF RecInv, Ours, Names
<1>7. Wired(in) => WiringHolds(in)
  <2> SUFFICES ASSUME Has("oauth") PROVE WiringHolds(in)
    BY <1>2
  <2>1. Has("ready") /\ in.op = "deploy" /\ rec["ready"].manifest = OnMail
    BY <1>4 DEF RecInv
  <2>2. in.manifest = rec["oauth"].manifest /\ Reviewed("oauth", OnMail, in.manifest)
    BY <1>1 DEF RecInv, Tail
  <2>3. rec["oauth"] = Expected(in, OnMail, rec["ready"].prints)
    BY <1>1, <2>2 DEF RecInv, Expected
  <2> QED BY <1>1, <1>2, <2>1, <2>2, <2>3 DEF WiringHolds
<1>8. ChainHolds(in)
  <2>1. in.repair \in {"probe", "mail"} => ~ Has("oauth")
    BY DEF RecInv
  <2>2. LinkHolds("probe", rec["marker"].manifest, in)
    <3>1. CASE Has("probe")
      BY <1>1, <3>1 DEF RecInv, LinkHolds, Ours, Names
    <3>2. CASE ~ Has("probe")
      <4>1. in.repair = "probe" => in.manifest = rec["marker"].manifest
        BY <1>1, <2>1, <3>2 DEF Under, Tail, OnMail, OnProbe
      <4> QED BY <3>2, <4>1 DEF LinkHolds
    <3> QED BY <3>1, <3>2
  <2>3. LinkHolds("mail", OnProbe, in)
    <3>1. CASE Has("mail")
      BY <1>1, <3>1 DEF RecInv, LinkHolds, Ours, Names
    <3>2. CASE ~ Has("mail")
      <4>1. in.repair = "mail" => in.manifest = OnProbe
        BY <1>1, <2>1, <3>2 DEF Under, Tail, OnMail, OnProbe
      <4> QED BY <3>2, <4>1 DEF LinkHolds
    <3> QED BY <3>1, <3>2
  <2> QED BY <1>2, <2>2, <2>3 DEF ChainHolds
<1>9. ~ Wired(in) => Mailed(in) = in.manifest
  BY <1>1, <1>2 DEF Tail, OnMail, OnProbe
<1>10. Has("ready") => rec["ready"].manifest = ReadyManifest(in)
  BY <1>2, <1>9 DEF RecInv, ReadyManifest
<1>11. apps # None => apps = in.of
  BY <1>1 DEF SchemaInv
<1>12. Has("ready") => schema = rec["ready"].prints
  BY DEF SchemaInv
<1>13. release[in.of] # None => release[in.of].manifest = in.manifest /\ release[in.of].prints = schema
  <2> SUFFICES ASSUME release[in.of] # None
               PROVE  release[in.of].manifest = in.manifest /\ release[in.of].prints = schema
    OBVIOUS
  <2>1. in.of \in Successes
    BY DEF Successes, Inputs
  <2> QED BY <1>1, <1>12, <2>1 DEF Open, ReleaseIsPromoted
<1>14. in.repair \in {"probe", "mail"} => Has("marker") /\ ~ Has("ready") /\ Successes = {}
  BY <1>1
<1> QED BY <1>1, <1>5, <1>6, <1>7, <1>8, <1>9, <1>10, <1>11, <1>12, <1>13, <1>14 DEF Accepts

LEMMA TailFormNext == Tail' = IF Has("oauth")' THEN rec'["oauth"].manifest ELSE OnMail'
BY DEF Tail, OnMail, OnProbe

\* What a run that was accepted found: its release is the one that is bound.
LEMMA FoundBound ==
  ASSUME TypeOK, NEW in \in Inputs, Accepts(in), Has("marker")
  PROVE  /\ Bound /\ rec["marker"].of = in.of /\ rec["marker"].contract = TRUE
         /\ LinkHolds("probe", rec["marker"].manifest, in) /\ LinkHolds("mail", Probed(in), in)
         /\ ~ Wired(in) => Mailed(in) = in.manifest
         /\ Wired(in) => WiringHolds(in)
<1>1. Ours("marker", in.of)
  BY DEF Accepts
<1>2. rec["marker"].contract \in BOOLEAN
  BY RecordType DEF Names
<1> QED BY <1>1, <1>2 DEF Accepts, Ours, Bound, ChainHolds

LEMMA LinkType ==
  ASSUME TypeOK, NEW in \in Inputs, Has("marker")
  PROVE  Probed(in) \in Manifests /\ Mailed(in) \in Manifests
<1>1. in.manifest \in Manifests
  BY DEF Inputs
<1>2. {"marker", "probe", "mail"} \subseteq Names
  BY DEF Names
<1>3. Probed(in) \in Manifests
  BY <1>1, <1>2, RecordType DEF Probed, Link
<1> QED BY <1>1, <1>2, <1>3, RecordType DEF Mailed, Link

LEMMA ExpectedType ==
  ASSUME NEW in \in Inputs, NEW m \in Manifests, NEW prints \in Schemas \union {None}
  PROVE  /\ Expected(in, m, prints) \in Records
         /\ Expected(in, m, prints).contract = TRUE /\ Expected(in, m, prints).of = in.of
         /\ Expected(in, m, prints).manifest = in.manifest /\ Expected(in, m, prints).original = m
         /\ Expected(in, m, prints).prints = prints
BY DEF Expected, Records, Inputs

\* The record that the repair of an accepted run has to write.
LEMMA PendingForm ==
  ASSUME TypeOK, RecInv, NEW in \in Inputs, Accepts(in), Has("marker")
  PROVE  LET n == in.repair
             before == IF n = "oauth" THEN Mailed(in) ELSE IF n = "mail" THEN Probed(in) ELSE rec["marker"].manifest
             data == Expected(in, before, IF n = "oauth" THEN rec["ready"].prints ELSE None)
         IN
         /\ before \in Manifests
         /\ \/ /\ Pending(in) = None
               /\ n = "none" \/ Has(n) \/ (n \in {"probe", "mail"} /\ before = in.manifest)
            \/ /\ n # "none" /\ ~ Has(n) /\ (n = "oauth" \/ before # in.manifest)
               /\ Pending(in) = [name |-> n, data |-> data]
               /\ [name |-> n, data |-> data] \in Writes /\ data \in Records /\ Pending(in) # None
<1> DEFINE n == in.repair
           before == IF n = "oauth" THEN Mailed(in) ELSE IF n = "mail" THEN Probed(in) ELSE rec["marker"].manifest
           data == Expected(in, before, IF n = "oauth" THEN rec["ready"].prints ELSE None)
<1>1. n \in {"none", "probe", "mail", "oauth"}
  BY DEF Inputs
<1>2. before \in Manifests
  BY LinkType, RecordType DEF Names
<1>3. n = "oauth" => rec["ready"].prints \in Schemas
  BY DEF Accepts, WiringHolds, Wired, RecInv
<1>4. data \in Records
  BY <1>2, <1>3, ExpectedType
<1> DEFINE write == [name |-> n, data |-> data]
<1>5. Pending(in) = IF n = "none" \/ Has(n) THEN None
                    ELSE IF n # "oauth" /\ before = in.manifest THEN None ELSE write
  BY <1>1 DEF Pending
<1> HIDE DEF data
<1>6. n # "none" => write \in Writes
  BY <1>1, <1>4 DEF Writes, Names
<1>7. n # "none" => write # None
  BY <1>6, NoneIsNone
<1> HIDE DEF before, write
<1>8. n # "none" /\ ~ Has(n) /\ ~ (n # "oauth" /\ before = in.manifest) => Pending(in) = write
  BY <1>5
<1>9. n = "none" \/ Has(n) \/ (n # "oauth" /\ before = in.manifest) => Pending(in) = None
  BY <1>5
<1> QED BY <1>1, <1>2, <1>4, <1>6, <1>7, <1>8, <1>9 DEF before, data, write

\* Without a record to write the run's inputs say what is on record.
LEMMA NothingPending ==
  ASSUME TypeOK, RecInv, NEW in \in Inputs, Accepts(in), Has("marker"), Pending(in) = None
  PROVE  Under(in)
<1>1. /\ Bound /\ rec["marker"].of = in.of
      /\ LinkHolds("probe", rec["marker"].manifest, in) /\ LinkHolds("mail", Probed(in), in)
      /\ ~ Wired(in) => Mailed(in) = in.manifest
      /\ Wired(in) => WiringHolds(in)
  BY FoundBound
<1>2. in.repair \in {"none", "probe", "mail", "oauth"}
  BY DEF Inputs
<1>3. in.repair \in {"probe", "mail"} => ~ Has("ready") /\ ~ Has("oauth")
  BY DEF Accepts, RecInv
<1>4. /\ in.repair = "probe" => Has("probe") \/ rec["marker"].manifest = in.manifest
      /\ in.repair = "mail" => Has("mail") \/ Probed(in) = in.manifest
      /\ in.repair = "oauth" => Has("oauth")
  BY PendingForm
<1>5. in.repair = "probe" => Has("probe") \/ ~ Has("mail")
  <2> SUFFICES ASSUME in.repair = "probe", ~ Has("probe"), Has("mail") PROVE FALSE
    OBVIOUS
  <2>1. Reviewed("mail", Probed(in), rec["mail"].manifest) /\ Probed(in) = in.manifest
    BY <1>1 DEF LinkHolds, Probed, Link
  <2>2. Mailed(in) = rec["mail"].manifest /\ Mailed(in) = in.manifest
    BY <1>1, <1>3 DEF Mailed, Link, Wired
  <2> QED BY <2>1, <2>2 DEF Reviewed
<1>6. CASE Has("oauth")
  <2>1. rec["oauth"] = Expected(in, Mailed(in), rec["ready"].prints)
    BY <1>1, <1>6 DEF Wired, WiringHolds
  <2>2. rec["oauth"].manifest = in.manifest
    BY <2>1 DEF Expected
  <2> QED BY <1>1, <1>4, <1>5, <1>6, <2>2, TailForm DEF Under
<1>7. CASE ~ Has("oauth")
  <2>1. Mailed(in) = in.manifest
    BY <1>1, <1>4, <1>7 DEF Wired
  <2>2. Probed(in) = OnProbe \/ Has("mail")
    BY <1>4, <2>1 DEF Probed, Mailed, Link, OnProbe
  <2>3. Mailed(in) = OnMail
    BY <1>4, <2>1, <2>2 DEF Mailed, Link, OnMail
  <2> QED BY <1>1, <1>4, <1>5, <1>7, <2>1, <2>3, TailForm DEF Under
<1> QED BY <1>6, <1>7

\* A repair that is written goes to the end of the chain and leaves the rest of it.
LEMMA RepairWritten ==
  ASSUME TypeOK, RecInv, NEW in \in Inputs, Accepts(in), Has("marker"), Pending(in) # None,
         rec' = [rec EXCEPT ![Pending(in).name] = Pending(in).data]
  PROVE  /\ Pending(in).name \in Names /\ Pending(in).data \in Records /\ rec[Pending(in).name] = None
         /\ RecInv' /\ Under(in)' /\ in.repair \notin Tail /\ Tail' = Tail \union {in.repair}
         /\ in.repair \in {"probe", "mail", "oauth"} /\ (in.repair = "oauth" <=> Has("ready"))
         /\ rec'["marker"] = rec["marker"] /\ rec'["ready"] = rec["ready"]
         /\ rec' \in [Names -> Records \union {None}] /\ Successes = {}
<1> DEFINE n == in.repair
           before == IF n = "oauth" THEN Mailed(in) ELSE IF n = "mail" THEN Probed(in) ELSE rec["marker"].manifest
           prints == IF n = "oauth" THEN rec["ready"].prints ELSE None
           data == Expected(in, before, prints)
<1>1. /\ Bound /\ rec["marker"].of = in.of /\ rec["marker"].contract = TRUE
      /\ LinkHolds("probe", rec["marker"].manifest, in) /\ LinkHolds("mail", Probed(in), in)
      /\ ~ Wired(in) => Mailed(in) = in.manifest
      /\ Wired(in) => WiringHolds(in)
  BY FoundBound
<1>2. /\ n # "none" /\ ~ Has(n) /\ (n = "oauth" \/ before # in.manifest) /\ before \in Manifests
      /\ Pending(in) = [name |-> n, data |-> data] /\ data \in Records
  BY PendingForm
<1>3. n \in {"probe", "mail", "oauth"}
  BY <1>2 DEF Inputs
<1>4. n = "oauth" => Has("ready") /\ rec["ready"].prints \in Schemas
  BY <1>1 DEF Wired, WiringHolds, RecInv
<1>5. /\ data.contract = TRUE /\ data.of = in.of /\ data.manifest = in.manifest /\ data.original = before
      /\ data.prints = prints
      /\ data = [contract |-> TRUE, of |-> in.of, manifest |-> in.manifest, original |-> before, prints |-> prints]
  BY DEF Expected
<1>6. data # None /\ n \in Names /\ rec \in [Names -> Records \union {None}]
  BY <1>2, <1>3, NoneIsNone DEF Names, TypeOK
<1>7. rec' = [rec EXCEPT ![n] = data]
  BY <1>2
<1> HIDE DEF data, before, prints
<1>8. /\ rec'[n] = data /\ \A m \in Names \ {n} : rec'[m] = rec[m]
      /\ rec' \in [Names -> Records \union {None}]
  BY <1>2, <1>6, <1>7
<1>9. /\ Has(n)' /\ \A m \in Names \ {n} : (Has(m)' <=> Has(m))
  BY <1>6, <1>8 DEF Has
<1>10. Bound' /\ rec'["marker"] = rec["marker"] /\ rec'["ready"] = rec["ready"] /\ (Has("ready")' <=> Has("ready"))
  BY <1>1, <1>3, <1>8, <1>9 DEF Bound, Names
<1>11. /\ Ours(n, in.of)'
       /\ \A m \in Names \ {"marker"} : Has(m)' => Bound' /\ Ours(m, rec["marker"].of)'
  BY <1>1, <1>5, <1>8, <1>9, <1>10 DEF RecInv, Ours
<1>12. Successes = {} /\ (n \in {"probe", "mail"} => ~ Has("ready") /\ ~ Has("oauth"))
  BY <1>1, <1>3 DEF Accepts, RecInv, Wired, WiringHolds
<1> DEFINE Appended ==
      RecInv' /\ Under(in)' /\ n \notin Tail /\ Tail' = Tail \union {n} /\ (n = "oauth" <=> Has("ready"))
<1>13. ASSUME n = "probe" PROVE Appended
  <2>1. before = rec["marker"].manifest /\ Reviewed("probe", rec["marker"].manifest, in.manifest)
    BY <1>1, <1>2, <1>13 DEF before, LinkHolds
  <2>2. Probed(in) = in.manifest
    BY <1>2, <1>13 DEF Probed, Link
  <2>3. ~ Has("mail")
    <3>1. SUFFICES ASSUME Has("mail") PROVE FALSE
      OBVIOUS
    <3>2. Reviewed("mail", in.manifest, rec["mail"].manifest)
      BY <1>1, <2>2, <3>1 DEF LinkHolds
    <3>3. rec["mail"].manifest = in.manifest
      BY <1>1, <1>12, <1>13, <3>1 DEF Mailed, Link, Wired
    <3> QED BY <3>2, <3>3 DEF Reviewed
  <2>4. ~ Has("mail")' /\ ~ Has("oauth")' /\ ~ Has("ready")'
    BY <1>9, <1>12, <1>13, <2>3 DEF Names
  <2>5. RecInv'
    BY <1>5, <1>8, <1>10, <1>11, <1>13, <2>1, <2>4 DEF RecInv
  <2>6. Tail' = in.manifest /\ Tail = rec["marker"].manifest
    BY <1>2, <1>5, <1>8, <1>9, <1>12, <1>13, <2>3, <2>4, TailForm, TailFormNext DEF OnMail, OnProbe
  <2>7. Has("probe")'
    BY <1>9, <1>13
  <2>8. Under(in)'
    BY <1>1, <1>10, <1>13, <2>6, <2>7 DEF Under
  <2> QED BY <1>12, <1>13, <2>1, <2>5, <2>6, <2>8 DEF Reviewed
<1>14. ASSUME n = "mail" PROVE Appended
  <2>1. before = Probed(in) /\ Reviewed("mail", Probed(in), in.manifest)
    BY <1>1, <1>2, <1>14 DEF before, LinkHolds
  <2>2. Probed(in) = OnProbe
    BY <1>14 DEF Probed, Link, OnProbe
  <2>3. ~ Has("oauth")' /\ ~ Has("ready")' /\ OnProbe' = OnProbe
    BY <1>8, <1>9, <1>12, <1>14 DEF Names, OnProbe
  <2>4. (Has("probe")' <=> Has("probe")) /\ rec'["probe"] = rec["probe"]
    BY <1>8, <1>9, <1>14 DEF Names
  <2>5. RecInv'
    BY <1>5, <1>8, <1>10, <1>11, <1>14, <2>1, <2>2, <2>3, <2>4 DEF RecInv
  <2>6. Tail' = in.manifest /\ Tail = OnProbe
    BY <1>2, <1>5, <1>8, <1>9, <1>12, <1>14, <2>3, TailForm, TailFormNext DEF OnMail
  <2>7. Under(in)'
    BY <1>1, <1>10, <1>14, <2>6 DEF Under
  <2> QED BY <1>12, <1>14, <2>1, <2>2, <2>5, <2>6, <2>7 DEF Reviewed
<1>15. ASSUME n = "oauth" PROVE Appended
  <2>1. before = Mailed(in) /\ prints = rec["ready"].prints
    BY <1>15 DEF before, prints
  <2>2. Mailed(in) = OnMail /\ Reviewed("oauth", Mailed(in), in.manifest)
    BY <1>1, <1>15 DEF Wired, WiringHolds, Mailed, Probed, Link, OnMail, OnProbe
  <2>3. /\ OnMail' = OnMail /\ OnProbe' = OnProbe
        /\ (Has("probe")' <=> Has("probe")) /\ rec'["probe"] = rec["probe"]
        /\ (Has("mail")' <=> Has("mail")) /\ rec'["mail"] = rec["mail"]
    BY <1>8, <1>9, <1>10, <1>15 DEF Names, OnMail, OnProbe
  <2>4. RecInv'
    <3>1. rec'["oauth"] = [contract |-> TRUE, of |-> rec'["marker"].of, manifest |-> rec'["oauth"].manifest,
                           original |-> OnMail', prints |-> rec'["ready"].prints]
      <4>1. rec'["oauth"] = data
        BY <1>8, <1>15
      <4>2. in.of = rec'["marker"].of /\ in.manifest = rec'["oauth"].manifest
        BY <1>1, <1>5, <1>10, <4>1
      <4>3. before = OnMail' /\ prints = rec'["ready"].prints
        BY <1>10, <2>1, <2>2, <2>3
      <4>4. data = [contract |-> TRUE, of |-> in.of, manifest |-> in.manifest, original |-> before, prints |-> prints]
        BY <1>5
      <4> QED BY <4>1, <4>2, <4>3, <4>4
    <3>2. Reviewed("oauth", OnMail', rec'["oauth"].manifest)
      BY <1>5, <1>8, <1>15, <2>2, <2>3
    <3>3. Has("ready")' /\ rec'["ready"].manifest = OnMail' /\ rec'["ready"].prints \in Schemas
      BY <1>4, <1>10, <1>15, <2>3 DEF RecInv
    <3>4. /\ Has("probe")' => /\ rec'["probe"].original = rec'["marker"].manifest
                              /\ Reviewed("probe", rec'["marker"].manifest, rec'["probe"].manifest)
          /\ Has("mail")' => /\ rec'["mail"].original = OnProbe'
                             /\ Reviewed("mail", OnProbe', rec'["mail"].manifest)
      BY <1>10, <2>3 DEF RecInv
    <3>5. \A m \in Names \ {"marker"} : Has(m)' => Bound' /\ Ours(m, rec["marker"].of)'
      BY <1>11
    <3> QED BY <3>1, <3>2, <3>3, <3>4, <3>5 DEF RecInv
  <2>5. Tail' = in.manifest /\ Tail = OnMail
    BY <1>2, <1>5, <1>8, <1>9, <1>15, TailForm, TailFormNext
  <2>6. Has("oauth")'
    BY <1>9, <1>15
  <2>7. Under(in)'
    BY <1>1, <1>10, <1>15, <2>5, <2>6 DEF Under
  <2> QED BY <1>4, <1>15, <2>2, <2>4, <2>5, <2>7 DEF Reviewed
<1>16. rec[n] = None /\ Pending(in).name = n /\ Pending(in).data = data
  BY <1>2 DEF Has
<1>17. Appended
  BY <1>3, <1>13, <1>14, <1>15
<1> QED BY <1>2, <1>3, <1>6, <1>8, <1>10, <1>12, <1>16, <1>17

-----------------------------------------------------------------------------
(* What depends on the records and releases alone.                         *)
LEMMA RecKept ==
  ASSUME rec' = rec
  PROVE  /\ \A n \in Names : Has(n)' <=> Has(n)
         /\ Bound' <=> Bound
         /\ Tail' = Tail /\ OnMail' = OnMail
         /\ \A in : Under(in)' <=> Under(in)
         /\ RecInv => RecInv'
<1>1. \A n \in Names : Has(n)' <=> Has(n)
  BY DEF Has
<1>2. (Bound' <=> Bound) /\ Tail' = Tail /\ OnMail' = OnMail /\ OnProbe' = OnProbe
  BY DEF Bound, Tail, OnMail, OnProbe, Has
<1>3. \A in : Under(in)' <=> Under(in)
  BY <1>1, <1>2 DEF Under, Names
<1>4. RecInv => RecInv'
  BY <1>1, <1>2 DEF RecInv, Ours, Names
<1> QED BY <1>1, <1>2, <1>3, <1>4

LEMMA ReleaseKept ==
  ASSUME release' = release
  PROVE  Successes' = Successes /\ (Released' <=> Released)
BY DEF Successes, Released

LEMMA OpenKept ==
  ASSUME rec' = rec, release' = release
  PROVE  /\ Open' <=> Open
         /\ ReleaseIsPromoted => ReleaseIsPromoted'
<1>1. Open' <=> Open
  BY RecKept, ReleaseKept DEF Open
<1>2. ReleaseIsPromoted => ReleaseIsPromoted'
  BY RecKept, ReleaseKept DEF ReleaseIsPromoted, Ours, Names
<1> QED BY <1>1, <1>2

\* Acceptance looks at the schemas only once an installation is ready.
LEMMA AcceptsKept ==
  ASSUME rec' = rec, release' = release, apps' = apps, NEW in \in Inputs, Accepts(in),
         schema' = schema \/ ~ Has("ready")
  PROVE  Accepts(in)'
<1>1. \A n \in Names : Has(n)' <=> Has(n)
  BY RecKept
<1>2. /\ Probed(in)' = Probed(in) /\ Mailed(in)' = Mailed(in) /\ (Wired(in)' <=> Wired(in))
      /\ ChainHolds(in)' <=> ChainHolds(in)
  BY DEF Probed, Mailed, Link, ChainHolds, LinkHolds, Wired, Has, Ours, Reviewed
<1>3. WiringHolds(in)' <=> WiringHolds(in)
  BY <1>1, <1>2, ReleaseKept DEF WiringHolds, Names, Expected, Reviewed
<1>4. StageHolds(in)' <=> StageHolds(in)
  BY <1>1 DEF StageHolds, Names
<1>5. release[in.of] # None => Has("ready")
  <2> SUFFICES ASSUME release[in.of] # None PROVE Has("ready")
    OBVIOUS
  <2>1. Successes # {}
    BY DEF Successes, Inputs
  <2> QED BY <2>1 DEF Accepts, StageHolds
<1> QED BY <1>1, <1>2, <1>3, <1>4, <1>5, ReleaseKept DEF Accepts, Names, Ours, ReadyManifest

\* A run that fails can be repeated, or did all that it was for.
LEMMA ActiveRepeatable ==
  ASSUME TypeOK, RecInv, ReleaseIsPromoted, SchemaInv, Open, NEW in \in Inputs, Running(in),
         run.at \notin {"idle", "failed"}
  PROVE  Repeatable(in)
<1>1. Has("marker")
  BY DEF Open, Bound
<1>2. run.at \notin {"check_empty", "bind"}
  BY <1>1 DEF Running
<1>3. CASE At("repair")
  BY <1>3 DEF Running, Repeatable
<1>4. CASE ~ At("repair")
  <2>1. /\ Under(in)
        /\ in.op = "bootstrap" => Successes = {} /\ (Has("ready") <=> At("done"))
        /\ in.op = "deploy" => Has("ready") /\ Successes \in {{}, {in.of}}
    BY <1>2, <1>4 DEF Running, At
  <2>2. in.op \in {"bootstrap", "deploy"} /\ (in.repair \in {"probe", "mail"} => in.op = "bootstrap")
    BY DEF Inputs
  <2>3. CASE Has("ready") /\ in.op = "bootstrap"
    BY <2>3 DEF Repeatable
  <2>4. CASE ~ Has("ready") /\ in.op = "bootstrap"
    <3>1. StageHolds(in)
      BY <2>4 DEF StageHolds
    <3>2. Accepts(in)
      BY <2>1, <2>4, <3>1, Acceptance
    <3> QED BY <3>2 DEF Repeatable
  <2>5. CASE in.op = "deploy" /\ (Successes = {} \/ in.repair # "oauth")
    <3>1. StageHolds(in)
      BY <1>1, <2>1, <2>5 DEF StageHolds
    <3>2. Accepts(in)
      BY <2>1, <2>2, <2>5, <3>1, Acceptance
    <3> QED BY <3>2 DEF Repeatable
  <2>6. CASE in.op = "deploy" /\ Successes = {in.of} /\ in.repair = "oauth"
    <3>1. Released
      BY <2>6 DEF Open, Released
    <3> QED BY <2>6, <3>1 DEF Repeatable
  <2> QED BY <2>1, <2>2, <2>3, <2>4, <2>5, <2>6
<1> QED BY <1>3, <1>4

-----------------------------------------------------------------------------
(* Each step preserves the invariant.                                      *)
LEMMA FreshInput ==
  ASSUME NEW in \in Inputs, Accepts(in), ~ Has("marker")
  PROVE  in.op = "bootstrap" /\ in.repair = "none" /\ Pending(in) = None /\ Successes = {} /\ apps = None
<1>1. in.op \in {"bootstrap", "deploy"} /\ in.repair \in {"none", "probe", "mail", "oauth"}
  BY DEF Inputs
<1>2. in.repair \notin {"probe", "mail"}
  BY DEF Accepts
<1>3. in.repair # "oauth"
  BY DEF Accepts, Wired, WiringHolds
<1>4. in.op = "bootstrap"
  BY <1>1 DEF Accepts, StageHolds
<1>5. Successes = {} /\ apps = None
  BY <1>4 DEF Accepts
<1>6. Pending(in) = None
  BY <1>1, <1>2, <1>3 DEF Pending
<1> QED BY <1>1, <1>2, <1>3, <1>4, <1>5, <1>6

LEMMA PendingName ==
  ASSUME NEW in \in Inputs, Pending(in) # None
  PROVE  Pending(in).name = in.repair /\ rec[Pending(in).name] = None
<1>1. in.repair # "none" /\ ~ Has(in.repair)
  BY DEF Pending
<1>2. Pending(in).name = in.repair
  <2>1. CASE in.repair = "oauth"
    BY <1>1, <2>1 DEF Pending
  <2>2. CASE in.repair # "oauth"
    BY <1>1, <2>2 DEF Pending
  <2> QED BY <2>1, <2>2
<1> QED BY <1>1, <1>2 DEF Has

LEMMA PendingType ==
  ASSUME TypeOK, RecInv, NEW in \in Inputs, Accepts(in)
  PROVE  Pending(in) \in Writes \union {None}
<1>1. CASE Has("marker")
  BY <1>1, PendingForm
<1>2. CASE ~ Has("marker")
  BY <1>2, FreshInput
<1> QED BY <1>1, <1>2

LEMMA InvokeStep == ASSUME IInv, NEW in \in Inputs, Invoke(in) PROVE IInv'
<1>1. TypeOK /\ RecInv /\ ReleaseIsPromoted /\ SchemaInv
  BY DEF IInv
<1>2. /\ Accepts(in) /\ rec' = rec /\ release' = release /\ schema' = schema /\ job' = job /\ apps' = apps
      /\ faults' = faults
      /\ run' = [at |-> "repair", in |-> in, fresh |-> ~ Has("marker"), pending |-> Pending(in),
                 i |-> 1, current |-> None]
  BY DEF Invoke
<1>3. run' \in Locals /\ run'.at = "repair" /\ run'.in = in /\ run'.pending = Pending(in)
      /\ (run'.fresh <=> ~ Has("marker")) /\ run'.i = 1
  BY <1>1, <1>2, PendingType, FirstDb DEF Locals, Places
<1>4. TypeOK'
  BY <1>1, <1>2, <1>3 DEF TypeOK, Locals, Places
<1>5. RecInv' /\ ReleaseIsPromoted' /\ SchemaInv'
  BY <1>1, <1>2, RecKept, ReleaseKept, OpenKept DEF SchemaInv, Names
<1>6. Accepts(in)' /\ (Has("marker")' <=> Has("marker"))
  BY <1>2, AcceptsKept, RecKept DEF Names
<1>7. Pending(in)' = Pending(in)
  BY <1>2 DEF Pending, Has, Expected, Mailed, Probed, Link
<1>8. Running(in)'
  BY <1>3, <1>6, <1>7 DEF Running, At
<1> QED BY <1>3, <1>4, <1>5, <1>8 DEF IInv, RunInv, RerunInv, At

\* A run that fails leaves what it did.
LEMMA RaiseStep ==
  ASSUME IInv, run.at \notin {"idle", "failed"}, Raise, UNCHANGED <<rec, release, schema, job, apps>>,
         faults' \in 0 .. MaxFaults
  PROVE  IInv'
<1>1. TypeOK /\ RecInv /\ ReleaseIsPromoted /\ SchemaInv /\ RunInv
  BY DEF IInv
<1>2. Became("failed", run.in, FALSE, None, 1, None)
  BY <1>1, IdleEffect DEF Raise, Places
<1>3. TypeOK'
  BY <1>1, <1>2 DEF TypeOK, Became, Locals, Places
<1>4. RecInv' /\ ReleaseIsPromoted' /\ SchemaInv'
  BY <1>1, RecKept, ReleaseKept, OpenKept DEF SchemaInv, Names
<1>5. RunInv'
  BY <1>2 DEF RunInv, Became
<1>6. PICK in \in Inputs : in = run.in /\ Running(in)
  BY <1>1 DEF RunInv
<1>7. Open => Repeatable(in)
  BY <1>1, <1>6, ActiveRepeatable
<1>8. Repeatable(in) => Repeatable(in)'
  BY AcceptsKept, RecKept, ReleaseKept DEF Repeatable, Names
<1>9. RerunInv'
  BY <1>2, <1>6, <1>7, <1>8, OpenKept DEF RerunInv, Became
<1> QED BY <1>3, <1>4, <1>5, <1>9 DEF IInv

LEMMA FailStep == IInv /\ Fail => IInv'
<1> SUFFICES ASSUME IInv, Fail PROVE IInv'
  OBVIOUS
<1>1. faults' \in 0 .. MaxFaults
  BY SizeAssumption DEF IInv, TypeOK, Fail
<1> QED BY <1>1, RaiseStep DEF Fail

LEMMA WriteRepairStep == IInv /\ WriteRepair => IInv'
<1> SUFFICES ASSUME IInv, WriteRepair PROVE IInv'
  OBVIOUS
<1>1. TypeOK /\ RecInv /\ ReleaseIsPromoted /\ SchemaInv /\ RunInv
  BY DEF IInv
<1>2. /\ run.at = "repair" /\ release' = release /\ schema' = schema /\ job' = job /\ apps' = apps
      /\ faults' = faults
  BY DEF WriteRepair, At
<1>3. PICK in \in Inputs : in = run.in /\ Running(in)
  BY <1>1, <1>2 DEF RunInv
<1>4. Accepts(in) /\ run.pending = Pending(in) /\ (run.fresh <=> ~ Has("marker")) /\ run.i = 1
  BY <1>2, <1>3 DEF Running, At
<1> DEFINE next == IF release[in.of] # None THEN "rollout"
                   ELSE IF run.fresh THEN "check_empty"
                   ELSE IF in.op = "bootstrap" THEN "start_job" ELSE "fingerprint"
<1>5. next \in Places
  BY DEF Places
<1>6. /\ Goto(next)
      /\ IF run.pending = None THEN rec' = rec
         ELSE Has("marker") /\ rec' = [rec EXCEPT ![Pending(in).name] = Pending(in).data]
  <2>1. CASE run.pending = None
    BY <1>3, <2>1 DEF WriteRepair, Migrate
  <2>2. CASE run.pending # None
    <3>1. Has("marker")
      BY <1>4, <2>2, FreshInput
    <3>2. rec[Pending(in).name] = None
      BY <1>4, <2>2, PendingName
    <3> QED BY <1>3, <1>4, <2>2, <3>1, <3>2 DEF WriteRepair, Put, Migrate
  <2> QED BY <2>1, <2>2
<1> HIDE DEF next
<1>7. Became(next, run.in, run.fresh, run.pending, run.i, run.current)
  BY <1>1, <1>5, <1>6, GotoEffect
<1>8. run'.at = next /\ run'.in = in /\ run'.i = 1 /\ run' \in Locals
  BY <1>3, <1>4, <1>7 DEF Became
<1>9. next \in {"rollout", "check_empty", "start_job", "fingerprint"}
  BY DEF next
\* The records with the one that was pending.
<1>10. /\ RecInv' /\ rec' \in [Names -> Records \union {None}]
       /\ rec'["marker"] = rec["marker"] /\ rec'["ready"] = rec["ready"]
       /\ Has("marker") => Under(in)'
       /\ ReleaseIsPromoted'
  <2>1. CASE run.pending = None
    <3>1. RecInv' /\ ReleaseIsPromoted' /\ rec' = rec
      BY <1>1, <1>2, <1>6, <2>1, RecKept, OpenKept
    <3>2. Has("marker") => Under(in)
      BY <1>1, <1>4, <2>1, NothingPending
    <3>3. Under(in)' <=> Under(in)
      BY <3>1, RecKept
    <3> QED BY <1>1, <3>1, <3>2, <3>3 DEF TypeOK
  <2>2. CASE run.pending # None
    <3>1. /\ RecInv' /\ rec' \in [Names -> Records \union {None}] /\ Under(in)' /\ Successes = {}
          /\ rec'["marker"] = rec["marker"] /\ rec'["ready"] = rec["ready"]
      BY <1>1, <1>4, <1>6, <2>2, RepairWritten
    <3>2. Successes' = {}
      BY <1>2, <3>1, ReleaseKept
    <3> QED BY <3>1, <3>2 DEF ReleaseIsPromoted
  <2> QED BY <2>1, <2>2
<1>11. /\ Has("marker")' <=> Has("marker")
       /\ Has("ready")' <=> Has("ready")
       /\ Bound' <=> Bound
       /\ Successes' = Successes
  BY <1>2, <1>10, ReleaseKept DEF Has, Bound
<1>12. Open' <=> Open
  BY <1>2, <1>10, <1>11 DEF Open
<1>13. SchemaInv'
  BY <1>1, <1>2, <1>10, <1>11, <1>12 DEF SchemaInv
<1>14. TypeOK'
  BY <1>1, <1>2, <1>8, <1>10 DEF TypeOK, Locals, Places
<1>15. Running(in)'
  <2>1. CASE ~ Has("marker")
    <3>1. in.op = "bootstrap" /\ in.repair = "none" /\ Successes = {} /\ apps = None
      BY <1>4, <2>1, FreshInput
    <3>2. release[in.of] = None
      BY <3>1 DEF Successes, Inputs
    <3>3. next = "check_empty"
      BY <1>4, <2>1, <3>2 DEF next
    <3> QED BY <1>2, <1>8, <1>11, <2>1, <3>1, <3>3 DEF Running, At
  <2>2. CASE Has("marker")
    <3>1. Under(in)' /\ next \in {"rollout", "start_job", "fingerprint"}
      BY <1>4, <1>9, <1>10, <2>2 DEF next
    <3>2. in.op = "bootstrap" => ~ Has("ready") /\ Successes = {}
      BY <1>4 DEF Accepts, StageHolds
    <3>3. in.op = "deploy" => Has("ready") /\ Successes \in {{}, {in.of}}
      BY <1>4 DEF Accepts, StageHolds
    <3>4. in.op \in {"bootstrap", "deploy"} /\ in.of \in Shas
      BY DEF Inputs
    <3>5. next = "start_job" => in.op = "bootstrap"
      BY DEF next
    <3>6. next = "fingerprint" => in.op = "deploy" /\ release[in.of] = None
      BY <3>4 DEF next
    <3>7. next = "rollout" => in.op = "deploy" /\ release[in.of] # None
      <4>1. in.op = "bootstrap" => release[in.of] = None
        BY <3>2, <3>4 DEF Successes
      <4> QED BY <1>4, <2>2, <3>4, <4>1 DEF next
    <3>8. Has("ready") => \A d \in Dbs : job[d] # "active"
      BY <1>1 DEF SchemaInv
    <3>9. \A d \in Dbs : ~ (d < 1)
      BY DEF Dbs
    <3> QED BY <1>2, <1>8, <1>11, <3>1, <3>2, <3>3, <3>4, <3>5, <3>6, <3>7, <3>8, <3>9 DEF Running, At
  <2> QED BY <2>1, <2>2
<1> QED BY <1>8, <1>9, <1>10, <1>13, <1>14, <1>15 DEF IInv, RunInv, RerunInv, At

\* A step of the run that leaves the records, the releases and the images.
LEMMA RunMoves ==
  ASSUME IInv, UNCHANGED <<rec, release, apps, faults>>, NEW in \in Inputs, run' \in Locals, run'.in = in,
         run'.at \notin {"idle", "failed"}, Running(in)',
         schema' = schema, job' \in [Dbs -> {"none", "active", "complete", "failed"}],
         \A d \in Dbs : job'[d] = "active" => Bound /\ ~ Has("ready")
  PROVE  IInv'
<1>1. TypeOK /\ RecInv /\ ReleaseIsPromoted /\ SchemaInv
  BY DEF IInv
<1>2. TypeOK'
  BY <1>1 DEF TypeOK, Locals, Places
<1>3. RecInv' /\ ReleaseIsPromoted'
  BY <1>1, RecKept, OpenKept
<1>4. SchemaInv'
  BY <1>1, RecKept, ReleaseKept, OpenKept DEF SchemaInv, Names
<1> QED BY <1>2, <1>3, <1>4 DEF IInv, RunInv, RerunInv, At

LEMMA CheckEmptyStep == IInv /\ CheckEmpty => IInv'
<1> SUFFICES ASSUME IInv, CheckEmpty PROVE IInv'
  OBVIOUS
<1>1. TypeOK /\ SchemaInv /\ RunInv /\ run.at = "check_empty"
  BY DEF IInv, CheckEmpty, At
<1>2. UNCHANGED <<rec, release, schema, job, apps, faults>>
  BY DEF CheckEmpty
<1>3. PICK in \in Inputs : in = run.in /\ Running(in)
  BY <1>1 DEF RunInv
<1>4. CASE Raise
  BY <1>1, <1>2, <1>4, RaiseStep DEF TypeOK
<1>5. CASE Goto("bind") /\ \A d \in Dbs : schema[d] = {}
  <2>1. run' \in Locals /\ run'.at = "bind" /\ run'.in = in /\ run'.i = run.i
    BY <1>1, <1>3, <1>5, GotoEffect DEF Became, Places
  <2>2. /\ in.op = "bootstrap" /\ in.repair = "none" /\ ~ Has("marker") /\ Successes = {} /\ apps = None
        /\ run.i = 1
    BY <1>1, <1>3 DEF Running, At
  <2>3. Running(in)'
    BY <1>2, <1>5, <2>1, <2>2, RecKept, ReleaseKept DEF Running, At, Names
  <2> QED BY <1>1, <1>2, <1>3, <2>1, <2>3, RunMoves DEF TypeOK, SchemaInv
<1> QED BY <1>4, <1>5 DEF CheckEmpty

\* What the run that binds the installation finds and writes.
LEMMA BindWritten ==
  ASSUME IInv, Bind, NEW in \in Inputs, in = run.in, Running(in)
  PROVE  /\ in.op = "bootstrap" /\ in.repair = "none" /\ Successes = {} /\ apps = None /\ run.i = 1
         /\ \A d \in Dbs : schema[d] = {} /\ job[d] # "active"
         /\ ~ Bound /\ Goto("start_job")
         /\ rec' \in [Names -> Records \union {None}] /\ rec'["marker"].of = in.of
         /\ Has("marker")' /\ Bound' /\ (\A n \in Names \ {"marker"} : ~ Has(n)') /\ Tail' = in.manifest
<1>1. TypeOK /\ RecInv /\ SchemaInv /\ run.at = "bind"
  BY DEF IInv, Bind, At
<1>2. /\ in.op = "bootstrap" /\ in.repair = "none" /\ ~ Has("marker") /\ Successes = {} /\ apps = None
      /\ run.i = 1 /\ \A d \in Dbs : schema[d] = {}
  BY <1>1 DEF Running, At
<1>3. ~ Bound /\ (\A n \in Names : ~ Has(n)) /\ \A d \in Dbs : job[d] # "active"
  BY <1>1, <1>2 DEF Bound, RecInv, SchemaInv
<1> DEFINE data == Expected(in, {}, None)
<1>4. data \in Records /\ data.contract = TRUE /\ data.of = in.of /\ data.manifest = in.manifest /\ data # None
  <2>1. {} \in Manifests
    BY DEF Manifests
  <2>2. data \in Records
    BY <2>1, ExpectedType
  <2>3. data.contract = TRUE /\ data.of = in.of /\ data.manifest = in.manifest
    BY DEF Expected
  <2> HIDE DEF data
  <2> QED BY <2>2, <2>3, NoneIsNone
<1>5. rec["marker"] = None /\ "marker" \in Names
  BY <1>2 DEF Has, Names
<1>6. rec' = [rec EXCEPT !["marker"] = data] /\ Goto("start_job")
  <2>1. Migrate = "start_job"
    BY <1>2 DEF Migrate
  <2>2. Put("marker", Expected(run.in, {}, None), Goto(Migrate))
    BY DEF Bind
  <2>3. Put("marker", Expected(run.in, {}, None), Goto("start_job"))
    BY <2>1, <2>2 DEF Goto, Put
  <2>4. rec["marker"] \in {None, data} /\ Put("marker", data, Goto("start_job"))
    BY <1>5, <2>3
  <2> QED BY <2>4 DEF Put
<1> HIDE DEF data
<1>7. /\ rec'["marker"] = data /\ \A n \in Names \ {"marker"} : rec'[n] = rec[n]
      /\ rec' \in [Names -> Records \union {None}]
  BY <1>1, <1>4, <1>5, <1>6 DEF TypeOK
<1>8. Has("marker")' /\ Bound' /\ \A n \in Names \ {"marker"} : ~ Has(n)'
  BY <1>3, <1>4, <1>7 DEF Has, Bound
<1>9. Tail' = in.manifest
  BY <1>4, <1>7, <1>8, TailFormNext DEF OnMail, OnProbe, Names
<1> QED BY <1>2, <1>3, <1>4, <1>6, <1>7, <1>8, <1>9

LEMMA BindStep == IInv /\ Bind => IInv'
<1> SUFFICES ASSUME IInv, Bind PROVE IInv'
  OBVIOUS
<1>1. TypeOK /\ RunInv /\ run.at = "bind"
  BY DEF IInv, Bind, At
<1>2. UNCHANGED <<release, schema, job, apps, faults>>
  BY DEF Bind
<1>3. PICK in \in Inputs : in = run.in /\ Running(in)
  BY <1>1 DEF RunInv
<1>4. /\ in.op = "bootstrap" /\ in.repair = "none" /\ Successes = {} /\ apps = None /\ run.i = 1
      /\ \A d \in Dbs : schema[d] = {} /\ job[d] # "active"
      /\ Goto("start_job")
      /\ rec' \in [Names -> Records \union {None}] /\ rec'["marker"].of = in.of
      /\ Has("marker")' /\ Bound' /\ (\A n \in Names \ {"marker"} : ~ Has(n)') /\ Tail' = in.manifest
  BY <1>3, BindWritten
<1>5. run' \in Locals /\ run'.at = "start_job" /\ run'.in = in /\ run'.i = 1
  BY <1>1, <1>3, <1>4, GotoEffect DEF Became, Places
<1>6. TypeOK'
  BY <1>1, <1>2, <1>4, <1>5 DEF TypeOK, Locals, Places
<1>7. RecInv'
  BY <1>4 DEF RecInv, Names
<1>8. Successes' = {}
  BY <1>2, <1>4, ReleaseKept
<1>9. SchemaInv'
  <2>1. \A d \in Dbs : job'[d] # "active" /\ schema'[d] = {}
    BY <1>2, <1>4
  <2>2. apps' = None /\ ~ Has("ready")'
    BY <1>2, <1>4 DEF Names
  <2> QED BY <2>1, <2>2 DEF SchemaInv
<1>10. Running(in)'
  <2>1. Under(in)'
    BY <1>4 DEF Under
  <2>2. \A d \in Dbs : ~ (d < 1)
    BY DEF Dbs
  <2>3. ~ Has("ready")'
    BY <1>4 DEF Names
  <2> QED BY <1>4, <1>5, <1>8, <2>1, <2>2, <2>3 DEF Running, At
<1> QED BY <1>5, <1>6, <1>7, <1>8, <1>9, <1>10 DEF IInv, RunInv, RerunInv, ReleaseIsPromoted, At

LEMMA StartJobStep == IInv /\ StartJob => IInv'
<1> SUFFICES ASSUME IInv, StartJob PROVE IInv'
  OBVIOUS
<1>1. TypeOK /\ SchemaInv /\ RunInv /\ run.at = "start_job"
  BY DEF IInv, StartJob, At
<1>2. UNCHANGED <<rec, release, schema, apps, faults>> /\ job' = [job EXCEPT ![run.i] = "active"] /\ Goto("await_job")
  BY DEF StartJob
<1>3. PICK in \in Inputs : in = run.in /\ Running(in)
  BY <1>1 DEF RunInv
<1>4. run' \in Locals /\ run'.at = "await_job" /\ run'.in = in /\ run'.i = run.i /\ run.i \in Dbs
  BY <1>1, <1>2, <1>3, RunType, GotoEffect DEF Became, Places, Locals
<1>5. /\ Under(in) /\ in.op = "bootstrap" /\ Successes = {} /\ ~ Has("ready")
      /\ \A d \in Dbs : d < run.i => job[d] = "complete"
  BY <1>1, <1>3 DEF Running, At
<1>6. /\ job' \in [Dbs -> {"none", "active", "complete", "failed"}]
      /\ \A d \in Dbs : d # run.i => job'[d] = job[d]
  BY <1>1, <1>2, <1>4 DEF TypeOK
<1>7. \A d \in Dbs : d < run.i => job'[d] = "complete"
  BY <1>4, <1>5, <1>6, FirstDb
<1>8. Running(in)'
  BY <1>2, <1>4, <1>5, <1>7, RecKept, ReleaseKept DEF Running, At, Names
<1>9. Bound
  BY <1>5 DEF Under
<1> QED BY <1>2, <1>4, <1>5, <1>6, <1>8, <1>9, RunMoves

LEMMA AwaitJobStep == IInv /\ AwaitJob => IInv'
<1> SUFFICES ASSUME IInv, AwaitJob PROVE IInv'
  OBVIOUS
<1>1. TypeOK /\ SchemaInv /\ RunInv /\ run.at = "await_job"
  BY DEF IInv, AwaitJob, At
<1>2. UNCHANGED <<rec, release, schema, job, apps, faults>>
  BY DEF AwaitJob
<1>3. PICK in \in Inputs : in = run.in /\ Running(in)
  BY <1>1 DEF RunInv
<1>4. /\ Under(in) /\ in.op = "bootstrap" /\ Successes = {} /\ ~ Has("ready")
      /\ \A d \in Dbs : d < run.i => job[d] = "complete"
  BY <1>1, <1>3 DEF Running, At
<1>5. run \in Locals /\ run.i \in Dbs
  BY <1>1, RunType DEF Locals
<1>6. CASE Raise
  BY <1>1, <1>2, <1>6, RaiseStep DEF TypeOK
<1>7. CASE job[run.i] = "complete"
  <2>1. run' = [run EXCEPT !.at = IF run.i = NumDbs THEN "fingerprint" ELSE "start_job",
                           !.i = IF run.i = NumDbs THEN 1 ELSE run.i + 1]
    BY <1>7 DEF AwaitJob
  <2>2. run.i # NumDbs => run.i + 1 \in Dbs
    BY <1>5, SizeAssumption DEF Dbs
  <2>3. /\ run' \in Locals /\ run'.in = in
        /\ run'.at = IF run.i = NumDbs THEN "fingerprint" ELSE "start_job"
        /\ run'.i = IF run.i = NumDbs THEN 1 ELSE run.i + 1
    BY <1>3, <1>5, <2>1, <2>2, FirstDb DEF Locals, Places
  <2>4. CASE run.i = NumDbs
    <3>1. \A d \in Dbs : job[d] # "active"
      BY <1>4, <1>7, <2>4, SizeAssumption DEF Dbs
    <3>2. release[in.of] = None
      BY <1>4 DEF Successes, Inputs
    <3>3. Running(in)'
      BY <1>2, <1>4, <2>3, <2>4, <3>1, <3>2, RecKept, ReleaseKept DEF Running, At, Names
    <3> QED BY <1>1, <1>2, <2>3, <2>4, <3>3, RunMoves DEF TypeOK, SchemaInv
  <2>5. CASE run.i # NumDbs
    <3>1. \A d \in Dbs : d < run.i + 1 => job[d] = "complete"
      BY <1>4, <1>5, <1>7, SizeAssumption DEF Dbs
    <3>2. Running(in)'
      BY <1>2, <1>4, <2>3, <2>5, <3>1, RecKept, ReleaseKept DEF Running, At, Names
    <3> QED BY <1>1, <1>2, <2>3, <2>5, <3>2, RunMoves DEF TypeOK, SchemaInv
  <2> QED BY <2>4, <2>5
<1> QED BY <1>6, <1>7 DEF AwaitJob

LEMMA FingerprintStep == IInv /\ Fingerprint => IInv'
<1> SUFFICES ASSUME IInv, Fingerprint PROVE IInv'
  OBVIOUS
<1>1. TypeOK /\ SchemaInv /\ RunInv /\ run.at = "fingerprint" /\ run \in Locals
  BY RunType DEF IInv, Fingerprint, At
<1>2. /\ UNCHANGED <<rec, release, schema, job, apps, faults>>
      /\ run' = [run EXCEPT !.at = "rollout", !.current = schema]
  BY DEF Fingerprint
<1>3. PICK in \in Inputs : in = run.in /\ Running(in)
  BY <1>1 DEF RunInv
<1>4. /\ Under(in) /\ in.op = "bootstrap" => Successes = {} /\ ~ Has("ready")
      /\ in.op = "deploy" => Has("ready") /\ Successes \in {{}, {in.of}}
      /\ \A d \in Dbs : job[d] # "active"
  BY <1>1, <1>3 DEF Running, At
<1>5. run' \in Locals /\ run'.at = "rollout" /\ run'.in = in /\ run'.current = schema
  BY <1>1, <1>2, <1>3 DEF Locals, Places, TypeOK
<1>6. Running(in)'
  <2>1. Under(in)
    BY <1>1, <1>3 DEF Running, At
  <2> QED BY <1>2, <1>4, <1>5, <2>1, RecKept, ReleaseKept DEF Running, At, Names
<1> QED BY <1>1, <1>2, <1>4, <1>5, <1>6, RunMoves DEF TypeOK

LEMMA RolloutStep == IInv /\ Rollout => IInv'
<1> SUFFICES ASSUME IInv, Rollout PROVE IInv'
  OBVIOUS
<1>1. TypeOK /\ RecInv /\ ReleaseIsPromoted /\ SchemaInv /\ RunInv /\ run.at = "rollout"
  BY DEF IInv, Rollout, At
<1>2. PICK in \in Inputs : in = run.in /\ Running(in)
  BY <1>1 DEF RunInv
<1> DEFINE next == IF in.op = "bootstrap" THEN "ready" ELSE "record"
<1>3. UNCHANGED <<rec, release, schema, job, faults>> /\ apps' = in.of /\ Goto(next)
  BY <1>2 DEF Rollout
<1>4. next \in Places
  BY DEF Places
<1> HIDE DEF next
<1>5. run' \in Locals /\ run'.at = next /\ run'.in = in /\ run'.current = run.current
  BY <1>1, <1>2, <1>3, <1>4, GotoEffect DEF Became
<1>6. /\ Under(in)
      /\ in.op = "bootstrap" => Successes = {} /\ ~ Has("ready")
      /\ in.op = "deploy" => Has("ready") /\ Successes \in {{}, {in.of}}
      /\ \A d \in Dbs : job[d] # "active"
      /\ release[in.of] = None => run.current = schema
  BY <1>1, <1>2 DEF Running, At
<1>7. /\ next = "ready" => in.op = "bootstrap"
      /\ next = "record" => in.op = "deploy"
      /\ next \in {"ready", "record"}
  BY DEF next, Inputs
<1>8. Running(in)'
  BY <1>3, <1>5, <1>6, <1>7, RecKept, ReleaseKept DEF Running, At, Names
<1>9. in.of \in Shas /\ rec["marker"].of = in.of
  BY <1>6 DEF Inputs, Under
<1>10. TypeOK'
  BY <1>1, <1>3, <1>5, <1>9 DEF TypeOK, Locals, Places
<1>11. RecInv' /\ ReleaseIsPromoted'
  BY <1>1, <1>3, RecKept, OpenKept
<1>12. SchemaInv'
  BY <1>1, <1>3, <1>9, RecKept, ReleaseKept, OpenKept DEF SchemaInv, Names
<1> QED BY <1>5, <1>7, <1>8, <1>10, <1>11, <1>12 DEF IInv, RunInv, RerunInv, At

\* What a run that marks the installation ready finds and writes.
LEMMA ReadyWritten ==
  ASSUME IInv, MarkReady, NEW in \in Inputs, in = run.in, Running(in)
  PROVE  /\ Under(in) /\ in.op = "bootstrap" /\ Successes = {} /\ rec["ready"] = None /\ Tail = OnMail
         /\ ~ Has("oauth") /\ run.current = schema /\ \A d \in Dbs : job[d] # "active"
         /\ Expected(in, {}, schema) \in Records /\ Expected(in, {}, schema) # None
         /\ rec' = [rec EXCEPT !["ready"] = Expected(in, {}, schema)] /\ Goto("done")
<1>1. TypeOK /\ RecInv /\ run.at = "ready" /\ Put("ready", Expected(run.in, {}, run.current), Goto("done"))
  BY DEF IInv, MarkReady, At
<1>2. /\ Under(in) /\ in.op = "bootstrap" /\ Successes = {} /\ ~ Has("ready")
      /\ \A d \in Dbs : job[d] # "active"
      /\ release[in.of] = None => run.current = schema
  BY <1>1 DEF Running, At
<1>3. run.current = schema /\ schema \in Schemas /\ rec["ready"] = None
  BY <1>1, <1>2 DEF Successes, Inputs, TypeOK, Has
<1>4. ~ Has("oauth") /\ Tail = OnMail
  BY <1>1, <1>2, TailForm DEF RecInv
<1>5. Expected(in, {}, schema) \in Records
  <2>1. {} \in Manifests
    BY DEF Manifests
  <2> QED BY <1>3, <2>1, ExpectedType
<1>6. Expected(in, {}, schema) # None
  BY <1>5, NoneIsNone
<1>7. rec' = [rec EXCEPT !["ready"] = Expected(in, {}, schema)] /\ Goto("done")
  BY <1>1, <1>3 DEF Put
<1> QED BY <1>2, <1>3, <1>4, <1>5, <1>6, <1>7

LEMMA MarkReadyStep == IInv /\ MarkReady => IInv'
<1> SUFFICES ASSUME IInv, MarkReady PROVE IInv'
  OBVIOUS
<1>1. TypeOK /\ RecInv /\ SchemaInv /\ RunInv /\ run.at = "ready"
  BY DEF IInv, MarkReady, At
<1>2. UNCHANGED <<release, schema, job, apps, faults>>
  BY DEF MarkReady
<1>3. PICK in \in Inputs : in = run.in /\ Running(in)
  BY <1>1 DEF RunInv
<1> DEFINE data == Expected(in, {}, schema)
<1>4. /\ Under(in) /\ in.op = "bootstrap" /\ Successes = {} /\ rec["ready"] = None /\ Tail = OnMail
      /\ ~ Has("oauth") /\ run.current = schema /\ \A d \in Dbs : job[d] # "active"
      /\ data \in Records /\ data # None
      /\ rec' = [rec EXCEPT !["ready"] = data] /\ Goto("done")
  BY <1>3, ReadyWritten
<1>5. data.contract = TRUE /\ data.of = in.of /\ data.manifest = in.manifest /\ data.prints = schema
  BY DEF Expected
<1> HIDE DEF data
<1>6. /\ rec'["ready"] = data /\ \A n \in Names \ {"ready"} : rec'[n] = rec[n]
      /\ rec' \in [Names -> Records \union {None}]
  BY <1>1, <1>4 DEF TypeOK, Names
<1>7. Has("ready")' /\ \A n \in Names \ {"ready"} : Has(n)' <=> Has(n)
  BY <1>4, <1>6 DEF Has
<1>8. (Bound' <=> Bound) /\ OnProbe' = OnProbe /\ OnMail' = OnMail /\ Tail' = Tail /\ ~ Has("oauth")'
  BY <1>4, <1>6, <1>7, TailForm, TailFormNext DEF Bound, OnProbe, OnMail, Names
<1>9. Under(in)'
  BY <1>4, <1>6, <1>7, <1>8 DEF Under, Names
<1>10. run' \in Locals /\ run'.at = "done" /\ run'.in = in
  BY <1>1, <1>3, <1>4, GotoEffect DEF Became, Places
<1>11. TypeOK'
  BY <1>1, <1>2, <1>6, <1>10 DEF TypeOK, Locals, Places
<1>12. RecInv'
  <2>1. Bound' /\ rec'["marker"].of = in.of /\ rec'["marker"] = rec["marker"] /\ in.manifest = OnMail'
    BY <1>4, <1>6, <1>8 DEF Under, Names
  <2>2. \A n \in Names \ {"marker"} : Has(n)' => Bound' /\ Ours(n, rec["marker"].of)'
    BY <1>1, <1>5, <1>6, <1>7, <2>1 DEF RecInv, Ours
  <2>3. rec'["ready"].manifest = OnMail' /\ rec'["ready"].prints \in Schemas
    BY <1>1, <1>5, <1>6, <2>1 DEF TypeOK
  <2>4. /\ (Has("probe")' <=> Has("probe")) /\ rec'["probe"] = rec["probe"]
        /\ (Has("mail")' <=> Has("mail")) /\ rec'["mail"] = rec["mail"]
    BY <1>6, <1>7 DEF Names
  <2> QED BY <1>1, <1>8, <2>1, <2>2, <2>3, <2>4 DEF RecInv
<1>13. Successes' = {}
  BY <1>2, <1>4, ReleaseKept
<1>14. SchemaInv'
  <2>1. rec'["marker"] = rec["marker"] /\ rec'["ready"].prints = schema'
    BY <1>2, <1>5, <1>6 DEF Names
  <2>2. Open
    BY <1>4 DEF Open, Under
  <2>3. \A d \in Dbs : job'[d] # "active"
    BY <1>2, <1>4
  <2> QED BY <1>1, <1>2, <1>4, <1>8, <2>1, <2>2, <2>3 DEF SchemaInv
<1>15. Running(in)'
  BY <1>4, <1>7, <1>9, <1>10, <1>13 DEF Running, At
<1> QED BY <1>10, <1>11, <1>12, <1>13, <1>14, <1>15 DEF IInv, RunInv, RerunInv, ReleaseIsPromoted, At

\* What the run that records the release finds and writes.
LEMMA ReleaseWritten ==
  ASSUME IInv, RecordRelease, NEW in \in Inputs, in = run.in, Running(in)
  PROVE  /\ Under(in) /\ in.op = "deploy" /\ Has("ready") /\ Ours("ready", in.of) /\ Ours("marker", in.of)
         /\ UNCHANGED <<rec, schema, job, apps, faults>> /\ Goto("done")
         /\ \/ Successes = {in.of} /\ release' = release
            \/ /\ Successes = {} /\ Open
               /\ release' = [release EXCEPT ![in.of] =
                                [mode |-> "initial", manifest |-> Tail, prints |-> rec["ready"].prints]]
<1>1. TypeOK /\ RecInv /\ SchemaInv /\ run.at = "record"
  BY DEF IInv, RecordRelease, At
<1>2. /\ Under(in) /\ in.op = "deploy" /\ Has("ready") /\ Successes \in {{}, {in.of}}
      /\ release[in.of] = None => run.current = schema
  BY <1>1 DEF Running, At
<1>3. Ours("ready", in.of) /\ Ours("marker", in.of)
  <2>1. rec["marker"].contract \in BOOLEAN
    BY <1>1, <1>2, RecordType DEF Under, Bound, Names
  <2> QED BY <1>1, <1>2, <2>1 DEF RecInv, Under, Bound, Ours, Names
<1>4. UNCHANGED <<rec, schema, job, apps, faults>> /\ Goto("done")
  BY DEF RecordRelease
<1>5. CASE Successes = {in.of}
  <2>1. release[in.of] # None
    BY <1>5 DEF Successes
  <2> QED BY <1>2, <1>3, <1>4, <1>5, <2>1 DEF RecordRelease
<1>6. CASE Successes = {}
  <2>1. release[in.of] = None
    BY <1>6 DEF Successes, Inputs
  <2>2. Open
    BY <1>2, <1>6 DEF Open, Under
  <2>3. in.manifest = Tail /\ run.current = rec["ready"].prints
    BY <1>1, <1>2, <2>1, <2>2 DEF Under, SchemaInv
  <2>4. release' = [release EXCEPT ![in.of] =
                      [mode |-> "initial", manifest |-> in.manifest, prints |-> run.current]]
    BY <2>1 DEF RecordRelease
  <2> QED BY <1>2, <1>3, <1>4, <1>6, <2>2, <2>3, <2>4
<1> QED BY <1>2, <1>5, <1>6

LEMMA RecordReleaseStep == IInv /\ RecordRelease => IInv'
<1> SUFFICES ASSUME IInv, RecordRelease PROVE IInv'
  OBVIOUS
<1>1. TypeOK /\ RecInv /\ ReleaseIsPromoted /\ SchemaInv /\ RunInv /\ run.at = "record"
  BY DEF IInv, RecordRelease, At
<1>2. PICK in \in Inputs : in = run.in /\ Running(in)
  BY <1>1 DEF RunInv
<1> DEFINE new == [mode |-> "initial", manifest |-> Tail, prints |-> rec["ready"].prints]
<1>3. /\ Under(in) /\ in.op = "deploy" /\ Has("ready") /\ Ours("ready", in.of) /\ Ours("marker", in.of)
      /\ UNCHANGED <<rec, schema, job, apps, faults>> /\ Goto("done")
      /\ \/ Successes = {in.of} /\ release' = release
         \/ Successes = {} /\ Open /\ release' = [release EXCEPT ![in.of] = new]
  BY <1>2, ReleaseWritten
<1>4. new \in Releases /\ new # None
  <2>1. Tail \in Manifests
    <3>1. in.manifest \in Manifests /\ in.manifest = Tail
      BY <1>3 DEF Inputs, Under
    <3> QED BY <3>1
  <2>2. rec["ready"].prints \in Schemas
    BY <1>1, <1>3 DEF RecInv
  <2>3. new \in Releases
    BY <2>1, <2>2 DEF Releases
  <2> QED BY <2>3, NoneIsNone
<1>5. new.mode = "initial" /\ new.manifest = Tail /\ new.prints = rec["ready"].prints
  OBVIOUS
<1> HIDE DEF new
<1>6. in.of \in Shas
  BY DEF Inputs
<1>7. Successes' = {in.of} /\ release' \in [Shas -> Releases \union {None}]
  <2>1. CASE Successes = {in.of} /\ release' = release
    BY <1>1, <2>1, ReleaseKept DEF TypeOK
  <2>2. CASE Successes = {} /\ release' = [release EXCEPT ![in.of] = new]
    BY <1>1, <1>4, <1>6, <2>2 DEF TypeOK, Successes
  <2> QED BY <1>3, <2>1, <2>2
<1>8. run' \in Locals /\ run'.at = "done" /\ run'.in = in
  BY <1>1, <1>2, <1>3, GotoEffect DEF Became, Places
<1>9. TypeOK'
  BY <1>1, <1>3, <1>7, <1>8 DEF TypeOK, Locals, Places
<1>10. RecInv' /\ Tail' = Tail /\ (Bound' <=> Bound) /\ (Under(in)' <=> Under(in))
       /\ \A n \in Names : Has(n)' <=> Has(n)
  BY <1>1, <1>3, RecKept
<1>11. ReleaseIsPromoted'
  <2>1. CASE release' = release
    BY <1>1, <1>3, <2>1, OpenKept
  <2>2. CASE release' = [release EXCEPT ![in.of] = new]
    <3>1. release'[in.of] = new
      BY <1>1, <1>6, <2>2 DEF TypeOK
    <3>2. Ours("marker", in.of)' /\ Ours("ready", in.of)' /\ Has("marker")' /\ Has("ready")'
      BY <1>3, <1>10 DEF Ours, Names, Under, Bound
    <3> QED BY <1>3, <1>5, <1>7, <1>10, <3>1, <3>2 DEF ReleaseIsPromoted
  <2> QED BY <1>3, <2>1, <2>2
<1>12. Open' => Open
  <2>1. CASE release' = release
    BY <1>3, <2>1, OpenKept
  <2> QED BY <1>3, <2>1
<1>13. SchemaInv'
  BY <1>1, <1>3, <1>7, <1>10, <1>12 DEF SchemaInv, Names
<1>14. Running(in)'
  BY <1>3, <1>7, <1>8, <1>10 DEF Running, At, Names
<1> QED BY <1>8, <1>9, <1>10, <1>11, <1>13, <1>14 DEF IInv, RunInv, RerunInv, At

LEMMA SucceedStep == IInv /\ Succeed => IInv'
<1> SUFFICES ASSUME IInv, Succeed PROVE IInv'
  OBVIOUS
<1>1. TypeOK /\ RecInv /\ ReleaseIsPromoted /\ SchemaInv
  BY DEF IInv
<1>2. UNCHANGED <<rec, release, schema, job, apps, faults>> /\ run' = Idle("idle")
  BY DEF Succeed, End
<1>3. run' \in Locals /\ run'.at = "idle"
  BY <1>1, <1>2, IdleEffect DEF Became, Places
<1>4. TypeOK'
  BY <1>1, <1>2, <1>3 DEF TypeOK, Locals, Places
<1>5. RecInv' /\ ReleaseIsPromoted' /\ SchemaInv'
  BY <1>1, <1>2, RecKept, ReleaseKept, OpenKept DEF SchemaInv, Names
<1> QED BY <1>3, <1>4, <1>5 DEF IInv, RunInv, RerunInv, At

\* A Job that ends, with its migrations or part of them.
LEMMA JobStep ==
  ASSUME IInv, NEW d \in Dbs, job[d] = "active", NEW end \in {"complete", "failed"},
         job' = [job EXCEPT ![d] = end],
         schema' \in {schema, [schema EXCEPT ![d] = @ \union {rec["marker"].of}]},
         UNCHANGED <<rec, release, apps, run>>, faults' \in 0 .. MaxFaults
  PROVE  IInv'
<1>1. TypeOK /\ RecInv /\ ReleaseIsPromoted /\ SchemaInv /\ RunInv /\ RerunInv
  BY DEF IInv
<1>2. Bound /\ ~ Has("ready") /\ Has("marker")
  BY <1>1 DEF SchemaInv, Bound
<1>3. rec["marker"].of \in Shas
  BY <1>1, <1>2, RecordType DEF Names
<1>4. /\ job' \in [Dbs -> {"none", "active", "complete", "failed"}]
      /\ job'[d] # "active" /\ \A e \in Dbs \ {d} : job'[e] = job[e]
  BY <1>1 DEF TypeOK
<1>5. /\ schema' \in Schemas
      /\ \A e \in Dbs : schema'[e] = schema[e] \/ schema'[e] = schema[e] \union {rec["marker"].of}
  BY <1>1, <1>3 DEF TypeOK, Schemas
<1>6. TypeOK'
  BY <1>1, <1>4, <1>5 DEF TypeOK
<1>7. RecInv' /\ ReleaseIsPromoted'
  BY <1>1, RecKept, OpenKept
<1>8. SchemaInv'
  BY <1>1, <1>2, <1>4, <1>5, RecKept, ReleaseKept, OpenKept DEF SchemaInv, Names
<1>9. RunInv'
  <2> SUFFICES ASSUME run.at \notin {"idle", "failed"}
               PROVE  \E in \in Inputs : in = run.in /\ Running(in)'
    BY DEF RunInv
  <2>1. PICK in \in Inputs : in = run.in /\ Running(in)
    BY <1>1 DEF RunInv
  <2>2. run.at \in Places
    BY <1>1, RunType DEF Locals
  <2>3. run.at \in {"repair", "start_job", "await_job"}
    <3>1. run.at \notin {"check_empty", "bind", "fingerprint", "rollout", "ready"}
      BY <1>2, <2>1 DEF Running
    <3>2. run.at \notin {"record", "done"}
      BY <1>2, <2>1 DEF Running, At, Inputs
    <3> QED BY <2>2, <3>1, <3>2 DEF Places
  <2>4. CASE At("repair")
    <3>1. Accepts(in) /\ run.pending = Pending(in) /\ (run.fresh <=> ~ Has("marker")) /\ run.i = 1
      BY <2>1, <2>4 DEF Running, At
    <3>2. Accepts(in)'
      BY <1>2, <3>1, AcceptsKept
    <3>3. Pending(in)' = Pending(in)
      BY DEF Pending, Has, Expected, Mailed, Probed, Link
    <3> QED BY <2>1, <2>4, <3>1, <3>2, <3>3, RecKept DEF Running, At, Names
  <2>5. CASE run.at \in {"start_job", "await_job"}
    <3>1. /\ Under(in) /\ in.op = "bootstrap" /\ Successes = {}
          /\ \A e \in Dbs : e < run.i => job[e] = "complete"
      BY <2>1, <2>5 DEF Running, At
    <3>2. \A e \in Dbs : e < run.i => job'[e] = "complete"
      BY <1>4, <3>1
    <3> QED BY <1>2, <2>1, <2>5, <3>1, <3>2, RecKept, ReleaseKept DEF Running, At, Names
  <2> QED BY <2>3, <2>4, <2>5 DEF At
<1>10. RerunInv'
  <2> SUFFICES ASSUME At("failed"), Open PROVE \E in \in Inputs : in = run.in /\ Repeatable(in)'
    BY OpenKept DEF RerunInv, At
  <2>1. PICK in \in Inputs : in = run.in /\ Repeatable(in)
    BY <1>1 DEF RerunInv
  <2>2. Accepts(in) => Accepts(in)'
    BY <1>2, AcceptsKept
  <2>3. Released' <=> Released
    BY ReleaseKept
  <2> QED BY <1>2, <2>1, <2>2, <2>3 DEF Repeatable
<1> QED BY <1>6, <1>7, <1>8, <1>9, <1>10 DEF IInv

LEMMA MigrationStep == ASSUME IInv, NEW d \in Dbs, MigrationSucceeds(d) \/ MigrationFails(d) PROVE IInv'
<1>1. faults' \in 0 .. MaxFaults
  BY SizeAssumption DEF IInv, TypeOK, MigrationSucceeds, MigrationFails
<1>2. UNCHANGED <<rec, release, apps, run>> /\ job[d] = "active"
  BY DEF MigrationSucceeds, MigrationFails
<1>3. schema' \in {schema, [schema EXCEPT ![d] = @ \union {rec["marker"].of}]}
  BY DEF MigrationSucceeds, MigrationFails
<1>4. job' = [job EXCEPT ![d] = "complete"] \/ job' = [job EXCEPT ![d] = "failed"]
  BY DEF MigrationSucceeds, MigrationFails
<1> QED BY <1>1, <1>2, <1>3, <1>4, JobStep

LEMMA OrdinaryBootstrapStep == ASSUME IInv, NEW s \in Shas, OrdinaryBootstrap(s) PROVE IInv'
<1> DEFINE marker == [contract |-> FALSE, of |-> s, manifest |-> {}, original |-> {}, prints |-> None]
<1>1. TypeOK /\ RecInv /\ SchemaInv
  BY DEF IInv
<1>2. /\ run.at \in {"idle", "failed"} /\ Successes = {} /\ rec["marker"] \in {None, marker}
      /\ rec' = [rec EXCEPT !["marker"] = marker] /\ apps' \in {apps, s}
      /\ UNCHANGED <<release, job, run, faults>>
      /\ \E done \in SUBSET Dbs : schema' = [d \in Dbs |-> IF d \in done THEN schema[d] \union {s} ELSE schema[d]]
  BY DEF OrdinaryBootstrap
<1>3. marker \in Records /\ marker.contract = FALSE
  BY DEF Records, Manifests
<1>4. marker # None
  BY <1>3, NoneIsNone
<1> HIDE DEF marker
<1>5. ~ Bound /\ \A n \in Names \ {"marker"} : ~ Has(n)
  BY <1>1, <1>2, <1>3 DEF Bound, Has, RecInv
<1>6. /\ rec'["marker"] = marker /\ \A n \in Names \ {"marker"} : rec'[n] = rec[n]
      /\ rec' \in [Names -> Records \union {None}]
  BY <1>1, <1>2, <1>3 DEF TypeOK, Names
<1>7. ~ Bound' /\ \A n \in Names \ {"marker"} : ~ Has(n)'
  BY <1>3, <1>5, <1>6 DEF Bound, Has
<1>8. schema' \in Schemas
  BY <1>1, <1>2 DEF TypeOK, Schemas
<1>9. TypeOK'
  BY <1>1, <1>2, <1>6, <1>8 DEF TypeOK
<1>10. RecInv'
  BY <1>7 DEF RecInv, Names
<1>11. ReleaseIsPromoted'
  BY <1>2, ReleaseKept DEF ReleaseIsPromoted
<1>12. SchemaInv' /\ ~ Open'
  BY <1>1, <1>2, <1>5, <1>7 DEF SchemaInv, Open
<1> QED BY <1>2, <1>9, <1>10, <1>11, <1>12 DEF IInv, RunInv, RerunInv

LEMMA OrdinaryDeployStep == ASSUME IInv, NEW s \in Shas, OrdinaryDeploy(s) PROVE IInv'
<1> DEFINE new == [mode |-> "other", manifest |-> Changes, prints |-> schema']
<1>1. TypeOK /\ RecInv /\ ReleaseIsPromoted /\ SchemaInv
  BY DEF IInv
<1>2. /\ run.at \in {"idle", "failed"} /\ release[s] = None /\ UNCHANGED <<rec, job, run, faults>>
      /\ \E done \in SUBSET Dbs : schema' = [d \in Dbs |-> IF d \in done THEN schema[d] \union {s} ELSE schema[d]]
  BY DEF OrdinaryDeploy
<1>3. schema' \in Schemas
  BY <1>1, <1>2 DEF TypeOK, Schemas
<1>4. RecInv' /\ (Bound' <=> Bound) /\ Tail' = Tail /\ \A n \in Names : Has(n)' <=> Has(n)
  BY <1>1, <1>2, RecKept
<1>5. CASE apps' = s /\ release' = [release EXCEPT ![s] = new]
  <2>1. new \in Releases /\ new.mode = "other"
    BY <1>3 DEF Releases, Manifests
  <2>2. new # None
    BY <2>1, NoneIsNone
  <2> HIDE DEF new
  <2>3. /\ release' \in [Shas -> Releases \union {None}] /\ release'[s] = new
        /\ \A r \in Shas \ {s} : release'[r] = release[r]
    BY <1>1, <1>5, <2>1 DEF TypeOK
  <2>4. s \in Successes' /\ Successes' = Successes \union {s} /\ s \notin Successes
    BY <1>2, <2>2, <2>3 DEF Successes
  <2>5. ~ Open' /\ Successes' # {}
    BY <2>1, <2>3, <2>4 DEF Open
  <2>6. TypeOK'
    BY <1>1, <1>2, <1>3, <1>5, <2>3 DEF TypeOK
  <2>7. ReleaseIsPromoted'
    <3> SUFFICES ASSUME NEW r \in Successes', release'[r].mode = "initial"
                 PROVE  /\ Has("marker")' /\ Ours("marker", r)' /\ Has("ready")' /\ Ours("ready", r)'
                        /\ release'[r].manifest = Tail' /\ release'[r].prints = rec'["ready"].prints
      BY DEF ReleaseIsPromoted
    <3>1. r \in Successes /\ r # s /\ release'[r] = release[r]
      BY <2>1, <2>3, <2>4 DEF Successes
    <3> QED BY <1>1, <1>2, <1>4, <3>1 DEF ReleaseIsPromoted, Ours, Names
  <2>8. SchemaInv'
    BY <1>1, <1>2, <1>4, <2>5 DEF SchemaInv, Names
  <2> QED BY <1>2, <1>4, <2>5, <2>6, <2>7, <2>8 DEF IInv, RunInv, RerunInv
<1>6. CASE ~ Has("marker") /\ apps' \in {apps, s} /\ release' = release
  <2>1. ~ Bound' /\ ~ Open'
    BY <1>4, <1>6 DEF Bound, Open
  <2>2. TypeOK'
    BY <1>1, <1>2, <1>3, <1>6 DEF TypeOK
  <2>3. ReleaseIsPromoted'
    BY <1>1, <1>2, <1>6, OpenKept
  <2>4. SchemaInv'
    BY <1>1, <1>2, <1>4, <2>1 DEF SchemaInv, Names
  <2> QED BY <1>2, <1>4, <2>1, <2>2, <2>3, <2>4 DEF IInv, RunInv, RerunInv
<1> QED BY <1>5, <1>6 DEF OrdinaryDeploy

-----------------------------------------------------------------------------
LEMMA InitInv == Init => IInv
<1> SUFFICES ASSUME Init PROVE IInv
  OBVIOUS
<1>1. run = [at |-> "idle", in |-> None, fresh |-> FALSE, pending |-> None, i |-> 1, current |-> None]
  BY DEF Init
<1>2. run.at = "idle" /\ run \in Locals
  BY <1>1, FirstDb DEF Locals, Places
<1>3. /\ \A n \in Names : rec[n] = None
      /\ \A s \in Shas : release[s] = None
      /\ \A d \in Dbs : job[d] = "none"
  BY DEF Init
<1>4. TypeOK
  BY <1>2, SizeAssumption DEF Init, TypeOK, Schemas, Locals, Places
<1>5. (\A n \in Names : ~ Has(n)) /\ ~ Bound /\ Successes = {} /\ ~ Open
  BY <1>3 DEF Has, Bound, Successes, Open, Names
<1>6. RecInv
  BY <1>5 DEF RecInv, Names
<1>7. ReleaseIsPromoted /\ SchemaInv
  BY <1>3, <1>5 DEF ReleaseIsPromoted, SchemaInv
<1> QED BY <1>2, <1>4, <1>5, <1>6, <1>7 DEF IInv, RunInv, RerunInv

LEMMA StutterStep == IInv /\ UNCHANGED vars => IInv'
<1> SUFFICES ASSUME IInv, UNCHANGED vars PROVE IInv'
  OBVIOUS
<1>1. UNCHANGED <<rec, release, schema, job, apps, run, faults>>
  BY DEF vars
<1>2. TypeOK /\ RecInv /\ ReleaseIsPromoted /\ SchemaInv /\ RunInv /\ RerunInv
  BY DEF IInv
<1>3. TypeOK' /\ RecInv' /\ ReleaseIsPromoted' /\ SchemaInv'
  BY <1>1, <1>2, RecKept, ReleaseKept, OpenKept DEF SchemaInv, TypeOK, Names
<1>4. \A in \in Inputs : Accepts(in) => Accepts(in)'
  BY <1>1, AcceptsKept
<1>5. \A in \in Inputs : Pending(in)' = Pending(in)
  BY <1>1 DEF Pending, Has, Expected, Mailed, Probed, Link
<1>6. \A in \in Inputs : Running(in) => Running(in)'
  BY <1>1, <1>4, <1>5, RecKept, ReleaseKept DEF Running, At, Names
<1>7. \A in \in Inputs : Repeatable(in) => Repeatable(in)'
  BY <1>1, <1>4, RecKept, ReleaseKept DEF Repeatable, Names
<1>8. RunInv' /\ RerunInv'
  BY <1>1, <1>2, <1>6, <1>7, OpenKept DEF RunInv, RerunInv, At
<1> QED BY <1>3, <1>8 DEF IInv

LEMMA NextStep == IInv /\ [Next]_vars => IInv'
<1> SUFFICES ASSUME IInv, [Next]_vars PROVE IInv'
  OBVIOUS
<1>1. CASE \E in \in Inputs : Invoke(in)
  BY <1>1, InvokeStep
<1>2. CASE Refuse
  BY <1>2, StutterStep DEF Refuse
<1>3. CASE Step
  BY <1>3, WriteRepairStep, CheckEmptyStep, BindStep, StartJobStep, AwaitJobStep, FingerprintStep, RolloutStep,
     MarkReadyStep, RecordReleaseStep, SucceedStep DEF Step
<1>4. CASE Fail
  BY <1>4, FailStep
<1>5. CASE \E d \in Dbs : MigrationSucceeds(d) \/ MigrationFails(d)
  BY <1>5, MigrationStep
<1>6. CASE \E s \in Shas : OrdinaryBootstrap(s) \/ OrdinaryDeploy(s)
  BY <1>6, OrdinaryBootstrapStep, OrdinaryDeployStep
<1>7. CASE UNCHANGED vars
  BY <1>7, StutterStep
<1> QED BY <1>1, <1>2, <1>3, <1>4, <1>5, <1>6, <1>7 DEF Next

\* The records, the releases, the schemas and what a run knows of them agree in every state.
THEOREM Invariance == Spec => []IInv
BY InitInv, NextStep, PTL DEF Spec

-----------------------------------------------------------------------------
(* The properties that the runs check.                                     *)
\* A change that is not yet on the manifest may be asked for where it is due.
LEMMA RepairAccepted ==
  ASSUME TypeOK, RecInv, SchemaInv, Open, Successes = {},
         NEW in \in Inputs, in.of = rec["marker"].of, in.repair \notin Tail, in.manifest = Tail \union {in.repair},
         \/ in.repair = "oauth" /\ Has("ready")
         \/ in.repair = "mail" /\ ~ Has("ready")
         \/ in.repair = "probe" /\ ~ Has("ready") /\ ~ Has("mail")
  PROVE  Accepts(in)
<1>1. Has("marker") /\ rec["marker"].contract /\ rec["marker"].of = in.of
  BY DEF Open, Bound
<1>2. /\ in.repair = "oauth" <=> in.op = "deploy"
      /\ in.op = "deploy" <=> Has("ready")
      /\ StageHolds(in)
  BY <1>1 DEF Inputs, StageHolds
<1>3. ~ Has("oauth") /\ Tail = OnMail
  <2>1. Has("oauth") => Has("ready") /\ "oauth" \in Tail
    BY TailForm DEF RecInv, Reviewed
  <2> QED BY <2>1, TailForm
<1>4. (in.repair = "mail" => ~ Has("mail")) /\ (in.repair = "probe" => ~ Has("probe"))
  BY <1>3 DEF RecInv, Reviewed, OnMail, OnProbe
<1>5. Wired(in) <=> in.repair = "oauth"
  BY <1>3 DEF Wired
<1>6. /\ in.repair # "probe" => Probed(in) = OnProbe
      /\ in.repair = "probe" => Probed(in) = in.manifest
      /\ in.repair = "oauth" => Mailed(in) = OnMail
      /\ in.repair # "oauth" => Mailed(in) = in.manifest
  BY <1>4 DEF Probed, Mailed, Link, OnMail, OnProbe
<1>7. Reviewed(in.repair, Tail, in.manifest)
  BY DEF Reviewed
<1>8. Wired(in) => WiringHolds(in)
  BY <1>1, <1>2, <1>3, <1>5, <1>6, <1>7 DEF WiringHolds, RecInv
<1>9. ChainHolds(in)
  <2>1. LinkHolds("probe", rec["marker"].manifest, in)
    <3>1. CASE Has("probe")
      BY <1>1, <3>1 DEF RecInv, LinkHolds, Ours, Names
    <3>2. CASE ~ Has("probe")
      BY <1>3, <1>7, <3>2 DEF LinkHolds, OnMail, OnProbe
    <3> QED BY <3>1, <3>2
  <2>2. LinkHolds("mail", Probed(in), in)
    <3>1. CASE Has("mail")
      BY <1>1, <1>6, <3>1 DEF RecInv, LinkHolds, Ours, Names
    <3>2. CASE ~ Has("mail")
      BY <1>3, <1>6, <1>7, <3>2 DEF LinkHolds, OnMail
    <3> QED BY <3>1, <3>2
  <2> QED BY <2>1, <2>2 DEF ChainHolds
<1>10. \A n \in {"marker", "ready"} : Has(n) => Ours(n, in.of)
  BY <1>1 DEF RecInv, Ours, Names
<1>11. Has("ready") => rec["ready"].manifest = ReadyManifest(in)
  BY <1>2, <1>5, <1>6 DEF RecInv, ReadyManifest
<1>12. apps # None => apps = in.of
  BY <1>1 DEF SchemaInv
<1>13. Has("ready") => schema = rec["ready"].prints
  BY DEF SchemaInv
<1>14. release[in.of] = None
  BY DEF Successes, Inputs
<1>15. in.repair \in {"probe", "mail"} => ~ Has("ready")
  OBVIOUS
<1>16. ~ Wired(in) => Mailed(in) = in.manifest
  BY <1>5, <1>6
<1> QED BY <1>1, <1>2, <1>8, <1>9, <1>10, <1>11, <1>12, <1>13, <1>14, <1>15, <1>16 DEF Accepts

LEMMA SafetyHolds == IInv => Safety
<1> SUFFICES ASSUME IInv PROVE Safety
  OBVIOUS
<1>1. TypeOK /\ RecInv /\ ReleaseIsPromoted /\ SchemaInv /\ RerunInv
  BY DEF IInv
<1>2. Open => Has("marker") /\ rec["marker"].of \in Shas /\ Tail \in Manifests
  <2>1. Open => Has("marker")
    BY DEF Open, Bound
  <2>2. Open => rec["marker"].of \in Shas
    BY <1>1, <2>1, RecordType DEF Names
  <2>3. Open => Tail \in Manifests
    <3>1. \A n \in {"marker", "probe", "mail", "oauth"} : Has(n) => rec[n].manifest \in Manifests
      BY <1>1, RecordType DEF Names
    <3> QED BY <2>1, <3>1 DEF Tail
  <2> QED BY <2>1, <2>2, <2>3
<1>3. ResumeAccepted
  <2> SUFFICES ASSUME run.at \in {"idle", "failed"}, Open PROVE Accepts(NextInput)
    BY DEF ResumeAccepted
  <2> DEFINE op == IF Has("ready") THEN "deploy" ELSE "bootstrap"
  <2>1. /\ NextInput.op = op /\ NextInput.repair = "none" /\ NextInput.of = rec["marker"].of
        /\ NextInput.manifest = Tail
    BY DEF NextInput
  <2>2. NextInput \in Inputs
    <3>1. op \in {"bootstrap", "deploy"}
      OBVIOUS
    <3> HIDE DEF op
    <3> QED BY <1>2, <3>1 DEF NextInput, Inputs, op
  <2>3. Under(NextInput) /\ StageHolds(NextInput)
    BY <1>2, <2>1 DEF Under, StageHolds, Open
  <2>4. Successes = {} \/ NextInput.op = "deploy"
    BY <1>1, <2>1 DEF Open, ReleaseIsPromoted
  <2> QED BY <1>1, <2>1, <2>2, <2>3, <2>4, Acceptance
<1>4. RerunAccepted
  BY <1>1 DEF RerunAccepted, RerunInv, Repeatable
<1>5. RepairsAvailable
  <2> SUFFICES ASSUME Open, ~ Released,
                      NEW op \in {"bootstrap", "deploy"}, NEW repair \in {"probe", "mail", "oauth"},
                      \/ op = "deploy" /\ repair = "oauth" /\ Has("ready")
                      \/ op = "bootstrap" /\ repair = "mail" /\ ~ Has("ready")
                      \/ op = "bootstrap" /\ repair = "probe" /\ ~ Has("ready") /\ ~ Has("mail"),
                      repair \notin Tail
               PROVE  Accepts([op |-> op, repair |-> repair, of |-> rec["marker"].of,
                               manifest |-> Tail \union {repair}])
    BY DEF RepairsAvailable
  <2> DEFINE in == [op |-> op, repair |-> repair, of |-> rec["marker"].of, manifest |-> Tail \union {repair}]
  <2>1. Successes = {}
    BY DEF Open, Released
  <2>2. Tail \union {repair} \in Manifests
    BY <1>2, ChangesAssumption DEF Manifests
  <2>3. in \in Inputs
    BY <1>2, <2>2 DEF Inputs
  <2>4. in.repair = repair /\ in.of = rec["marker"].of /\ in.manifest = Tail \union {repair}
    OBVIOUS
  <2> HIDE DEF in
  <2>5. Accepts(in)
    BY <1>1, <2>1, <2>3, <2>4, RepairAccepted
  <2> QED BY <2>5 DEF in
<1> QED BY <1>1, <1>3, <1>4, <1>5 DEF Safety

\* Whatever failed half done, what is on record can be gone on with, the run that failed can be
\* repeated and the repairs that are due are accepted.
THEOREM InstallIsResumable == Spec => []Safety
BY Invariance, SafetyHolds, PTL

\* The release that an initial deploy records is what was bootstrapped and found ready.
THEOREM PromotesWhatWasReady == Spec => []ReleaseIsPromoted
<1>1. IInv => ReleaseIsPromoted
  BY DEF IInv
<1> QED BY <1>1, Invariance, PTL

\* A run only migrates databases that had nothing but this release's migrations, before it is ready.
THEOREM MigratesItsOwn == Spec => MigratesOwnDatabases
<1>1. IInv /\ StartJob => schema[run.i] \subseteq {run.in.of} /\ ~ Has("ready") /\ Successes = {}
  <2> SUFFICES ASSUME IInv, StartJob
               PROVE  schema[run.i] \subseteq {run.in.of} /\ ~ Has("ready") /\ Successes = {}
    OBVIOUS
  <2>1. TypeOK /\ SchemaInv /\ RunInv /\ run.at = "start_job"
    BY DEF IInv, StartJob, At
  <2>2. PICK in \in Inputs : in = run.in /\ Running(in)
    BY <2>1 DEF RunInv
  <2>3. Under(in) /\ in.op = "bootstrap" /\ Successes = {} /\ ~ Has("ready")
    BY <2>1, <2>2 DEF Running, At
  <2>4. run.i \in Dbs
    BY <2>1, RunType DEF Locals
  <2> QED BY <2>1, <2>2, <2>3, <2>4 DEF SchemaInv, Under
<1>2. IInv => [StartJob => /\ schema[run.i] \subseteq {run.in.of}
                           /\ ~ Has("ready") /\ Successes = {}]_vars
  BY <1>1
<1> QED BY <1>2, Invariance, PTL DEF MigratesOwnDatabases

-----------------------------------------------------------------------------
(* The ConfigMaps implement Installation.                                  *)
Of == IF Bound THEN rec["marker"].of ELSE None
Manifest == IF Bound THEN Tail ELSE {}
Mapped == <<Stage, Of, Manifest>>

LEMMA MappedKept ==
  ASSUME rec' = rec, Released' <=> Released
  PROVE  UNCHANGED Mapped
BY RecKept DEF Mapped, Stage, Of, Manifest, Names

LEMMA NotBoundKept ==
  ASSUME ~ Bound, ~ Bound'
  PROVE  UNCHANGED Mapped
BY DEF Mapped, Stage, Of, Manifest

LEMMA BindImplements == IInv /\ Bind => Promise!Bind
<1> SUFFICES ASSUME IInv, Bind PROVE Promise!Bind
  OBVIOUS
<1>1. RunInv /\ run.at = "bind" /\ release' = release
  BY DEF IInv, Bind, At
<1>2. PICK in \in Inputs : in = run.in /\ Running(in)
  BY <1>1 DEF RunInv
<1>3. /\ Successes = {} /\ ~ Bound /\ Bound' /\ rec'["marker"].of = in.of /\ Tail' = in.manifest
      /\ ~ Has("ready")'
  BY <1>2, BindWritten DEF Names
<1>4. ~ Released'
  BY <1>1, <1>3, ReleaseKept DEF Released
<1>5. in.of \in Shas /\ in.manifest \in Manifests
  BY DEF Inputs
<1> QED BY <1>3, <1>4, <1>5 DEF Promise!Bind, Stage

LEMMA RepairImplements ==
  IInv /\ WriteRepair => Promise!Repair("probe") \/ Promise!Repair("mail") \/ Promise!Wire \/ UNCHANGED Mapped
<1> SUFFICES ASSUME IInv, WriteRepair
             PROVE  Promise!Repair("probe") \/ Promise!Repair("mail") \/ Promise!Wire \/ UNCHANGED Mapped
  OBVIOUS
<1>1. TypeOK /\ RecInv /\ RunInv /\ run.at = "repair" /\ release' = release
  BY DEF IInv, WriteRepair, At
<1>2. PICK in \in Inputs : in = run.in /\ Running(in)
  BY <1>1 DEF RunInv
<1>3. Accepts(in) /\ run.pending = Pending(in)
  BY <1>1, <1>2 DEF Running, At
<1>4. Released' <=> Released
  BY <1>1, ReleaseKept
<1>5. CASE run.pending = None
  <2>1. rec' = rec
    BY <1>5 DEF WriteRepair
  <2> QED BY <1>4, <2>1, MappedKept
<1>6. CASE run.pending # None
  <2>1. Has("marker") /\ rec[Pending(in).name] = None
    BY <1>3, <1>6, FreshInput, PendingName
  <2>2. rec' = [rec EXCEPT ![Pending(in).name] = Pending(in).data]
    BY <1>3, <1>6, <2>1 DEF WriteRepair, Put
  <2>3. /\ in.repair \notin Tail /\ Tail' = Tail \union {in.repair}
        /\ in.repair \in {"probe", "mail", "oauth"} /\ (in.repair = "oauth" <=> Has("ready"))
        /\ rec'["marker"] = rec["marker"] /\ rec'["ready"] = rec["ready"] /\ Successes = {}
    BY <1>1, <1>3, <1>6, <2>1, <2>2, RepairWritten
  <2>4. Bound /\ Bound' /\ (Has("ready")' <=> Has("ready"))
    BY <1>1, <1>3, <2>1, <2>3, FoundBound DEF Bound, Has
  <2>5. ~ Released /\ ~ Released'
    BY <1>4, <2>3 DEF Released
  <2>6. Stage = (IF Has("ready") THEN "ready" ELSE "bound") /\ Stage' = Stage
    BY <2>4, <2>5 DEF Stage
  <2>7. CASE in.repair = "oauth"
    BY <2>3, <2>4, <2>6, <2>7 DEF Promise!Wire
  <2>8. CASE in.repair = "probe"
    BY <2>3, <2>4, <2>6, <2>8 DEF Promise!Repair
  <2>9. CASE in.repair = "mail"
    BY <2>3, <2>4, <2>6, <2>9 DEF Promise!Repair
  <2> QED BY <2>3, <2>7, <2>8, <2>9
<1> QED BY <1>5, <1>6

LEMMA ReadyImplements == IInv /\ MarkReady => Promise!Finish
<1> SUFFICES ASSUME IInv, MarkReady PROVE Promise!Finish
  OBVIOUS
<1>1. TypeOK /\ RunInv /\ run.at = "ready" /\ release' = release
  BY DEF IInv, MarkReady, At
<1>2. PICK in \in Inputs : in = run.in /\ Running(in)
  BY <1>1 DEF RunInv
<1> DEFINE data == Expected(in, {}, schema)
<1>3. /\ Under(in) /\ Successes = {} /\ rec["ready"] = None /\ Tail = OnMail /\ ~ Has("oauth")
      /\ data # None /\ rec' = [rec EXCEPT !["ready"] = data]
  BY <1>2, ReadyWritten
<1> HIDE DEF data
<1>4. rec'["ready"] = data /\ \A n \in Names \ {"ready"} : rec'[n] = rec[n]
  BY <1>1, <1>3 DEF TypeOK, Names
<1>5. Has("ready")' /\ ~ Has("ready") /\ \A n \in Names \ {"ready"} : Has(n)' <=> Has(n)
  BY <1>3, <1>4 DEF Has
<1>6. Bound /\ Bound' /\ Tail' = Tail /\ rec'["marker"] = rec["marker"]
  <2>1. Bound /\ (Bound' <=> Bound) /\ rec'["marker"] = rec["marker"] /\ ~ Has("oauth")'
    BY <1>3, <1>4, <1>5 DEF Under, Bound, Names
  <2>2. OnProbe' = OnProbe /\ OnMail' = OnMail
    BY <1>4, <1>5 DEF OnProbe, OnMail, Names
  <2> QED BY <1>3, <2>1, <2>2, TailFormNext
<1>7. ~ Released /\ ~ Released'
  BY <1>1, <1>3, ReleaseKept DEF Released
<1> QED BY <1>5, <1>6, <1>7 DEF Promise!Finish, Stage

LEMMA ReleaseImplements == IInv /\ RecordRelease => Promise!Release \/ UNCHANGED Mapped
<1> SUFFICES ASSUME IInv, RecordRelease PROVE Promise!Release \/ UNCHANGED Mapped
  OBVIOUS
<1>1. TypeOK /\ RunInv /\ run.at = "record"
  BY DEF IInv, RecordRelease, At
<1>2. PICK in \in Inputs : in = run.in /\ Running(in)
  BY <1>1 DEF RunInv
<1> DEFINE new == [mode |-> "initial", manifest |-> Tail, prints |-> rec["ready"].prints]
<1>3. /\ Under(in) /\ Has("ready") /\ rec' = rec
      /\ \/ Successes = {in.of} /\ release' = release
         \/ Successes = {} /\ Open /\ release' = [release EXCEPT ![in.of] = new]
  BY <1>2, ReleaseWritten
<1>4. CASE release' = release
  BY <1>3, <1>4, ReleaseKept, MappedKept
<1>5. CASE Successes = {} /\ release' = [release EXCEPT ![in.of] = new]
  <2>1. in.of \in Shas
    BY DEF Inputs
  <2>2. release'[in.of] = new
    BY <1>1, <1>5, <2>1 DEF TypeOK
  <2>3. ~ Released
    BY <1>5 DEF Released
  <2>4. new.mode = "initial"
    OBVIOUS
  <2>5. new # None
    <3>1. in.manifest \in Manifests /\ in.manifest = Tail
      BY <1>3 DEF Inputs, Under
    <3>2. rec["ready"].prints \in Schemas
      BY <1>3 DEF IInv, RecInv
    <3>3. new \in Releases
      BY <3>1, <3>2 DEF Releases
    <3> HIDE DEF new
    <3> QED BY <3>3, NoneIsNone
  <2> HIDE DEF new
  <2>6. Released'
    BY <2>1, <2>2, <2>4, <2>5 DEF Released, Successes
  <2>7. Bound /\ Bound' /\ Tail' = Tail /\ Has("ready") /\ Has("ready")'
    BY <1>3, RecKept DEF Under, Names
  <2> QED BY <1>3, <2>3, <2>6, <2>7 DEF Promise!Release, Stage
<1> QED BY <1>3, <1>4, <1>5

LEMMA OrdinaryStutters ==
  ASSUME IInv, NEW s \in Shas, OrdinaryBootstrap(s) \/ OrdinaryDeploy(s)
  PROVE  UNCHANGED Mapped
<1>1. TypeOK
  BY DEF IInv
<1>2. CASE OrdinaryBootstrap(s)
  <2> DEFINE marker == [contract |-> FALSE, of |-> s, manifest |-> {}, original |-> {}, prints |-> None]
  <2>1. rec["marker"] \in {None, marker} /\ rec' = [rec EXCEPT !["marker"] = marker]
    BY <1>2 DEF OrdinaryBootstrap
  <2>2. ~ marker.contract
    OBVIOUS
  <2> HIDE DEF marker
  <2>3. rec'["marker"] = marker
    BY <1>1, <2>1 DEF TypeOK, Names
  <2>4. ~ Bound /\ ~ Bound'
    BY <2>1, <2>2, <2>3 DEF Bound, Has
  <2> QED BY <2>4, NotBoundKept
<1>3. CASE OrdinaryDeploy(s)
  <2> DEFINE new == [mode |-> "other", manifest |-> Changes, prints |-> schema']
  <2>1. rec' = rec /\ release[s] = None
    BY <1>3 DEF OrdinaryDeploy
  <2>2. CASE release' = release
    BY <2>1, <2>2, ReleaseKept, MappedKept
  <2>3. CASE release' = [release EXCEPT ![s] = new]
    <3>1. new.mode # "initial"
      OBVIOUS
    <3> HIDE DEF new
    <3>2. release'[s] = new /\ \A r \in Shas \ {s} : release'[r] = release[r]
      BY <1>1, <2>3 DEF TypeOK
    <3>3. Released' <=> Released
      BY <2>1, <3>1, <3>2 DEF Released, Successes
    <3> QED BY <2>1, <3>3, MappedKept
  <2> QED BY <1>3, <2>2, <2>3 DEF OrdinaryDeploy
<1> QED BY <1>2, <1>3

LEMMA StepImplements == IInv /\ [Next]_vars => [Promise!Next]_Mapped
<1> SUFFICES ASSUME IInv, [Next]_vars PROVE Promise!Next \/ UNCHANGED Mapped
  OBVIOUS
<1>1. CASE Bind
  BY <1>1, BindImplements DEF Promise!Next
<1>2. CASE WriteRepair
  BY <1>2, RepairImplements DEF Promise!Next
<1>3. CASE MarkReady
  BY <1>3, ReadyImplements DEF Promise!Next
<1>4. CASE RecordRelease
  BY <1>4, ReleaseImplements DEF Promise!Next
<1>5. CASE \E s \in Shas : OrdinaryBootstrap(s) \/ OrdinaryDeploy(s)
  BY <1>5, OrdinaryStutters
<1>6. CASE rec' = rec /\ release' = release
  BY <1>6, ReleaseKept, MappedKept
<1>7. ASSUME \/ \E in \in Inputs : Invoke(in)
             \/ Refuse \/ CheckEmpty \/ StartJob \/ AwaitJob \/ Fingerprint \/ Rollout \/ Succeed \/ Fail
             \/ \E d \in Dbs : MigrationSucceeds(d) \/ MigrationFails(d)
             \/ UNCHANGED vars
      PROVE  rec' = rec /\ release' = release
  BY <1>7 DEF Invoke, Refuse, CheckEmpty, StartJob, AwaitJob, Fingerprint, Rollout, Succeed, Fail,
     MigrationSucceeds, MigrationFails, vars
<1> QED BY <1>1, <1>2, <1>3, <1>4, <1>5, <1>6, <1>7 DEF Next, Step

\* The ConfigMaps implement an installation that is bound once, changes by reviewed repairs only and
\* goes from bound to ready to released, whatever fails, is repeated or is deployed besides.
THEOREM InstallationIsImplemented == Spec => InstallsOnce
<1>1. Init => Promise!Init
  <2> SUFFICES ASSUME Init PROVE Promise!Init
    OBVIOUS
  <2>1. ~ Bound
    BY DEF Init, Bound, Has, Names
  <2> QED BY <2>1 DEF Promise!Init, Stage
<1>2. [Promise!Next]_Mapped
      => [Promise!Next]_<<Stage, IF Bound THEN rec["marker"].of ELSE None, IF Bound THEN Tail ELSE {}>>
  BY DEF Mapped, Of, Manifest
<1> QED BY <1>1, <1>2, StepImplements, Invariance, PTL DEF Spec, InstallsOnce, Promise!Spec
=============================================================================
