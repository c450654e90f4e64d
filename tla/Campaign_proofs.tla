--------------------------- MODULE Campaign_proofs ---------------------------
(***************************************************************************)
(* Proofs about the campaign, for any number of runner processes, builds,  *)
(* texts, rulings and edits: a ruling is spent once, a session is the one  *)
(* its rulings name, and, when no image is built in a runner's preamble, a *)
(* soak runs the image its calibrations measured.  And about the books a   *)
(* session is judged by: what an accepted log marks as audited is true,    *)
(* and a session that passes is whole.                                     *)
EXTENDS Campaign, Books, FiniteSetTheorems, WellFoundedInduction, TLAPS

Reports == [session : Sessions, image : Images, text : Texts, ran : Images]
Imports == {NoImport} \cup [version : Texts, hash : Texts, report : Reports]
Manifests == [text : Texts, chain : SUBSET Texts, image : Images,
              cal : [Calibrations -> Reports], imported : [Calibrations -> Imports]]
Rulings == [session : Sessions, manifest : Manifests]

\* What a runner holds from its preflight on, and from the load on.
Read == [session : Sessions, l6 : Nat, pk : Nat, manifest : Manifests, image : Images]
Loaded == [session : Sessions, l6 : Nat, pk : Nat, manifest : Manifests, image : Images, ran : Images]

FilesType == image \in Images /\ text \in Texts /\ manifest \in Manifests /\ reports \subseteq Reports
RulingsType == rulings \in Seq(Rulings) /\ starts \in [RulingFiles -> Nat]
RunnersType ==
  /\ at \in [Runners -> {"idle", "loaded"} \cup Preamble]
  /\ run \in [Runners -> {NoRun} \cup Read \cup Loaded]
  /\ \A p \in Runners : (at[p] \in Preamble => run[p] \in Read) /\ (at[p] = "loaded" => run[p] \in Loaded)
TypeOK == FilesType /\ RulingsType /\ RunnersType

Busy == {p \in Runners : at[p] # "idle"}

\* A start leaves its marker.
Marked == \A f \in RulingFiles : starts[f] <= 1 /\ (starts[f] = 1 => f \in consumed)

\* A runner past its preflight holds what both its rulings say.
Ruled == \A p \in Busy : \A i \in {run[p].l6, run[p].pk} :
  i \in DOMAIN rulings /\ rulings[i] = [session |-> run[p].session, manifest |-> run[p].manifest]

\* What preflight found of the calibrations is in the manifest it read.
CalibratedBy(m) == \A k \in Calibrations :
  /\ m.cal[k].session = k
  /\ m.cal[k].image = m.image
  /\ m.cal[k].text = m.text \/ (m.text = ImportText /\ m.cal[k].text \in m.chain)
Calibrated == \A p \in Busy :
  /\ run[p].image = run[p].manifest.image
  /\ run[p].session = "S" => CalibratedBy(run[p].manifest)

\* Without a build in a preamble: what is said to have run did run.
Pinned(m) == \A k \in Calibrations : m.cal[k] \in reports
Measured ==
  /\ BindingIsTrue
  /\ Pinned(manifest) /\ \A p \in Busy : Pinned(run[p].manifest)
  /\ \A p \in Runners : at[p] \in Preamble => run[p].image = image
  /\ \A p \in OnBoard : run[p].ran = run[p].image

Runner(p) == Preflight(p) \/ Claim(p) \/ Provision(p) \/ LoadApp(p) \/ Finish(p) \/ Fail(p)
Step == Edit \/ Issue \/ \E p \in Runners : Runner(p)

-----------------------------------------------------------------------------
(* Type correctness.                                                        *)

\* The campaign starts with files, rulings and runners of their kinds.
LEMMA InitType == Init => TypeOK
<1> SUFFICES ASSUME Init PROVE TypeOK
  OBVIOUS
<1> USE CampaignAssumption DEF CampaignAssumption
<1>1. \A k \in Calibrations : Report(k, FirstImage, FirstText, FirstImage) \in Reports
  BY DEF Report, Reports, Sessions
<1>2. FirstManifest \in Manifests
  BY <1>1 DEF FirstManifest, Manifests, Imports
<1>3. FilesType
  BY <1>1, <1>2 DEF Init, FilesType, FirstManifest
<1>4. RulingsType /\ RunnersType
  BY DEF Init, RulingsType, RunnersType, Preamble
<1> QED
  BY <1>3, <1>4 DEF TypeOK

\* An edit of the owner leaves files of the right kind.
LEMMA EditType == ASSUME TypeOK, Edit PROVE TypeOK'
<1> USE CampaignAssumption DEF CampaignAssumption
<1>1. FilesType'
  <2>1. CASE Build \/ EditText \/ Spoil
    BY <2>1 DEF Build, EditText, Spoil, TypeOK, FilesType
  <2>2. CASE Promote
    BY <2>2 DEF Promote, TypeOK, FilesType, Manifests
  <2>5. CASE Freeze
    <3>1. PICK t \in Texts :
             /\ text' = t
             /\ manifest' = [manifest EXCEPT !.text = t, !.chain = @ \cup {manifest.text}]
      BY <2>5 DEF Freeze
    <3>2. manifest.text \in Texts /\ manifest.chain \in SUBSET Texts
      BY DEF TypeOK, FilesType, Manifests
    <3>3. manifest.chain \cup {manifest.text} \in SUBSET Texts
      BY <3>2
    <3>4. manifest' \in Manifests
      BY <3>1, <3>3 DEF TypeOK, FilesType, Manifests
    <3> QED
      BY <2>5, <3>1, <3>4 DEF Freeze, TypeOK, FilesType
  <2>3. ASSUME NEW k \in Calibrations, Pin(k) PROVE FilesType'
    BY <2>3 DEF Pin, TypeOK, FilesType, Manifests
  <2>4. CASE Declare
    <3>1. PICK K \in {{"C1"}, Calibrations}, v \in Texts, h \in Texts :
             manifest' = [manifest EXCEPT !.imported = [k \in Calibrations |->
               IF k \in K THEN [version |-> v, hash |-> h, report |-> manifest.cal[k]] ELSE @[k]]]
      BY <2>4 DEF Declare
    <3>2. \A k \in Calibrations : manifest.imported[k] \in Imports /\ manifest.cal[k] \in Reports
      BY DEF TypeOK, FilesType, Manifests
    <3>3. \A k \in Calibrations : [version |-> v, hash |-> h, report |-> manifest.cal[k]] \in Imports
      BY <3>2 DEF Imports
    <3>4. manifest' \in Manifests
      BY <3>1, <3>2, <3>3 DEF TypeOK, FilesType, Manifests
    <3> QED
      BY <2>4, <3>4 DEF Declare, TypeOK, FilesType
  <2> QED
    BY <2>1, <2>2, <2>3, <2>4, <2>5 DEF Edit
<1>2. RulingsType' /\ RunnersType'
  BY DEF Edit, TypeOK, RulingsType, RunnersType
<1> QED
  BY <1>1, <1>2 DEF TypeOK

\* A runner's step keeps the types.
LEMMA RunnerType == ASSUME TypeOK, NEW p \in Runners, Runner(p) PROVE TypeOK'
<1> USE DEF TypeOK, RulingsType, RunnersType
<1>1. CASE Preflight(p)
  <2>1. PICK s \in Sessions, i \in DOMAIN rulings, j \in DOMAIN rulings :
           /\ at' = [at EXCEPT ![p] = "checked"]
           /\ run' = [run EXCEPT ![p] = [session |-> s, l6 |-> i, pk |-> j, manifest |-> manifest, image |-> image]]
    BY <1>1 DEF Preflight
  <2>2. run'[p] \in Read
    BY <2>1 DEF Read, FilesType
  <2> QED
    BY <1>1, <2>1, <2>2 DEF Preflight, FilesType, Preamble
<1>2. ASSUME NEW f, NEW next \in {"claimed", "provisioned"}, Take(f, p, next), at[p] \in Preamble
      PROVE  TypeOK'
  <2>1. CASE f \in consumed
    BY <1>2, <2>1 DEF Take, Leave, FilesType, Preamble
  <2>2. CASE f \notin consumed
    <3>1. starts' \in [RulingFiles -> Nat]
      BY <1>2, <2>2 DEF Take
    <3>2. RunnersType'
      BY <1>2, <2>2 DEF Take, Preamble
    <3> QED
      BY <1>2, <2>2, <3>1, <3>2 DEF Take, FilesType
  <2> QED
    BY <2>1, <2>2
<1>3. CASE Claim(p) \/ Provision(p)
  BY <1>2, <1>3 DEF Claim, Provision, Preamble
<1>4. CASE LoadApp(p)
  BY <1>4 DEF LoadApp, FilesType, Preamble, Read, Loaded
<1>5. CASE Finish(p)
  <2>1. Report(run[p].session, run[p].image, run[p].manifest.text, run[p].ran) \in Reports
    BY <1>5 DEF Finish, Report, Reports, Loaded, Manifests
  <2> QED
    BY <1>5, <2>1 DEF Finish, Leave, FilesType, Preamble
<1>6. CASE Fail(p)
  BY <1>6 DEF Fail, Leave, FilesType, Preamble
<1> QED
  BY <1>1, <1>3, <1>4, <1>5, <1>6 DEF Runner

\* Any step keeps the types.
LEMMA StepType == ASSUME TypeOK, [Next]_vars PROVE TypeOK'
<1>1. CASE Issue
  <2>1. \A s \in Sessions : [session |-> s, manifest |-> manifest] \in Rulings
    BY DEF TypeOK, FilesType, Rulings
  <2> QED
    BY <1>1, <2>1 DEF Issue, TypeOK, FilesType, RulingsType, RunnersType
<1>2. CASE UNCHANGED vars
  BY <1>2 DEF vars, TypeOK, FilesType, RulingsType, RunnersType
<1> QED
  BY <1>1, <1>2, EditType, RunnerType DEF Next, Runner

\* Every variable of the campaign holds a value of its kind.
THEOREM TypeCorrect == Spec => []TypeOK
BY InitType, StepType, PTL DEF Spec

-----------------------------------------------------------------------------
(* A ruling is spent once.                                                  *)

\* Taking a file that is free marks it; taking one that is taken does not.
LEMMA TakeMarks == ASSUME TypeOK, Marked, NEW p, NEW f, NEW next, Take(f, p, next) PROVE Marked'
<1>1. CASE f \in consumed
  BY <1>1 DEF Take, Marked
<1>2. CASE f \notin consumed
  <2> SUFFICES ASSUME NEW g \in RulingFiles PROVE starts'[g] <= 1 /\ (starts'[g] = 1 => g \in consumed')
    BY DEF Marked
  <2>1. CASE g = f
    <3>1. starts[f] \in Nat /\ starts[f] <= 1 /\ starts[f] # 1
      BY <1>2, <2>1 DEF Marked, TypeOK, RulingsType
    <3>2. starts'[f] = starts[f] + 1 /\ f \in consumed'
      BY <1>2, <2>1 DEF Take, TypeOK, RulingsType
    <3> QED
      BY <2>1, <3>1, <3>2
  <2>2. CASE g # f
    BY <1>2, <2>2 DEF Take, Marked, TypeOK, RulingsType
  <2> QED
    BY <2>1, <2>2
<1> QED
  BY <1>1, <1>2

\* A start is always marked, whichever step is taken.
LEMMA StepMarks == ASSUME TypeOK, Marked, [Next]_vars PROVE Marked'
<1>1. ASSUME NEW p \in Runners, Claim(p) \/ Provision(p) PROVE Marked'
  BY <1>1, TakeMarks DEF Claim, Provision
<1>2. CASE Edit \/ Issue
  BY <1>2 DEF Edit, Issue, Marked
<1>3. ASSUME NEW p \in Runners, Preflight(p) \/ LoadApp(p) \/ Finish(p) \/ Fail(p) PROVE Marked'
  BY <1>3 DEF Preflight, LoadApp, Finish, Fail, Marked
<1>4. CASE UNCHANGED vars
  BY <1>4 DEF vars, Marked
<1> QED
  BY <1>1, <1>2, <1>3, <1>4 DEF Next

\* host/l6_runner.py and scripts/pcap_probe_runner.py claim_ruling: however
\* many processes check and claim it in any order, a ruling file starts one
\* session.
THEOREM SpentOnce == Spec => []RulingSpentOnce
<1>1. Init => Marked
  BY DEF Init, Marked
<1>2. Marked => RulingSpentOnce
  BY DEF Marked, RulingSpentOnce
<1> QED
  BY <1>1, <1>2, TypeCorrect, StepMarks, PTL DEF Spec

-----------------------------------------------------------------------------
(* A session is the one its rulings name.                                   *)

\* No edit, issue or other runner changes what a busy runner's rulings say.
LEMMA StepRuled == ASSUME TypeOK, Ruled, [Next]_vars PROVE Ruled'
<1> USE DEF TypeOK, RulingsType, RunnersType
<1>1. CASE Edit
  BY <1>1 DEF Edit, Ruled, Busy
<1>2. CASE Issue
  <2>1. PICK s \in Sessions : rulings' = Append(rulings, [session |-> s, manifest |-> manifest])
    BY <1>2 DEF Issue
  <2>2. [session |-> s, manifest |-> manifest] \in Rulings
    BY DEF FilesType, Rulings
  <2>3. \A i \in DOMAIN rulings : i \in DOMAIN rulings' /\ rulings'[i] = rulings[i]
    BY <2>1, <2>2
  <2> QED
    BY <1>2, <2>3 DEF Issue, Ruled, Busy
<1>3. ASSUME NEW p \in Runners, Preflight(p) PROVE Ruled'
  BY <1>3 DEF Preflight, BindRuling, Ruled, Busy
<1>4. ASSUME NEW p \in Runners, NEW f, NEW next, Take(f, p, next), at[p] \in Preamble PROVE Ruled'
  <2>1. UNCHANGED rulings /\ p \in Busy
    BY <1>4 DEF Take, Busy, Preamble
  <2>2. \A q \in Busy' : q \in Busy /\ run'[q] = run[q]
    BY <1>4, <2>1 DEF Take, Leave, Busy
  <2> QED
    BY <2>1, <2>2 DEF Ruled
<1>5. ASSUME NEW p \in Runners, LoadApp(p) PROVE Ruled'
  BY <1>5 DEF LoadApp, Ruled, Busy, Preamble
<1>6. ASSUME NEW p \in Runners, Finish(p) \/ Fail(p) PROVE Ruled'
  BY <1>6 DEF Finish, Fail, Leave, Ruled, Busy
<1>7. CASE UNCHANGED vars
  BY <1>7 DEF vars, Ruled, Busy
<1> QED
  BY <1>1, <1>2, <1>3, <1>4, <1>5, <1>6, <1>7 DEF Next, Claim, Provision, Preamble

\* host/l6_runner.py bind_ruling: what is on the board is what both rulings
\* name, under the manifest they were issued for.
THEOREM AsRuled == Spec => []RunsAsRuled
<1>1. Init => Ruled
  BY DEF Init, Ruled, Busy
<1>2. Ruled => RunsAsRuled
  <2> SUFFICES ASSUME Ruled, NEW p \in OnBoard, NEW i \in {run[p].l6, run[p].pk}
               PROVE  rulings[i].session = run[p].session /\ rulings[i].manifest = run[p].manifest
    BY DEF RunsAsRuled
  <2>1. p \in Busy
    BY DEF OnBoard, Busy
  <2>2. rulings[i] = [session |-> run[p].session, manifest |-> run[p].manifest]
    BY <2>1 DEF Ruled
  <2> QED
    BY <2>2
<1> QED
  BY <1>1, <1>2, TypeCorrect, StepRuled, PTL DEF Spec

-----------------------------------------------------------------------------
(* What preflight found of the calibrations.                                *)

\* The report an import is about may be bound to a superseded text, and no
\* other report to any but the manifest's.
LEMMA HoldsCalibrates ==
  ASSUME \A k \in Calibrations : CalibrationHolds(k) PROVE CalibratedBy(manifest)
BY DEF CalibrationHolds, CalibratedBy, BoundText, ImportHolds

\* What preflight found stays in the manifest the runner read.
LEMMA StepCalibrated == ASSUME TypeOK, Calibrated, [Next]_vars PROVE Calibrated'
<1> USE DEF TypeOK, RunnersType
<1>1. CASE Edit \/ Issue
  BY <1>1 DEF Edit, Issue, Calibrated, CalibratedBy, Busy
<1>2. ASSUME NEW p \in Runners, Preflight(p) PROVE Calibrated'
  <2>1. PICK s \in Sessions, i \in DOMAIN rulings, j \in DOMAIN rulings :
           /\ image = manifest.image
           /\ s = "S" => CalibratedBy(manifest)
           /\ at' = [at EXCEPT ![p] = "checked"]
           /\ run' = [run EXCEPT ![p] = [session |-> s, l6 |-> i, pk |-> j, manifest |-> manifest, image |-> image]]
    BY <1>2, HoldsCalibrates DEF Preflight
  <2> QED
    BY <2>1 DEF Calibrated, CalibratedBy, Busy
<1>3. ASSUME NEW p \in Runners, NEW f, NEW next, Take(f, p, next), at[p] \in Preamble PROVE Calibrated'
  BY <1>3 DEF Take, Leave, Calibrated, CalibratedBy, Busy, Preamble
<1>4. ASSUME NEW p \in Runners, LoadApp(p) PROVE Calibrated'
  <2>1. p \in Busy /\ run[p] \in Read
    BY <1>4 DEF LoadApp, Busy, Preamble
  <2>2. run'[p].session = run[p].session /\ run'[p].image = run[p].image /\ run'[p].manifest = run[p].manifest
    BY <1>4, <2>1 DEF LoadApp
  <2>3. Busy' = Busy /\ \A q \in Runners \ {p} : run'[q] = run[q]
    BY <1>4 DEF LoadApp, Busy, Preamble
  <2> QED
    BY <2>1, <2>2, <2>3 DEF Calibrated, CalibratedBy, Busy
<1>5. ASSUME NEW p \in Runners, Finish(p) \/ Fail(p) PROVE Calibrated'
  BY <1>5 DEF Finish, Fail, Leave, Calibrated, CalibratedBy, Busy
<1>6. CASE UNCHANGED vars
  BY <1>6 DEF vars, Calibrated, CalibratedBy, Busy
<1> QED
  BY <1>1, <1>2, <1>3, <1>4, <1>5, <1>6 DEF Next, Claim, Provision, Preamble

\* host/l6_runner.py calibration_checks: an import is honoured where its
\* version rules it and nowhere else; this needs no assumption on builds.
THEOREM ImportsRuled == Spec => []ImportsStayWhereRuled
<1>1. Init => Calibrated
  BY DEF Init, Calibrated, Busy
<1>2. TypeOK /\ Calibrated => ImportsStayWhereRuled
  BY DEF Calibrated, CalibratedBy, Busy, ImportsStayWhereRuled, Soaking, OnBoard
<1> QED
  BY <1>1, <1>2, TypeCorrect, StepCalibrated, PTL DEF Spec

-----------------------------------------------------------------------------
(* What ran is what was measured.                                           *)

\* An edit forges no report and builds no image under a runner in its preamble.
LEMMA EditMeasured == ASSUME Quiet, TypeOK, Measured, Edit PROVE Measured'
<1> USE DEF TypeOK, RunnersType
<1>1. /\ reports' = reports /\ at' = at /\ run' = run
  BY DEF Edit, Build, EditText, Freeze, Promote, Spoil, Declare, Pin
<1>2. Pinned(manifest')
  <2>1. ASSUME NEW k \in Calibrations, Pin(k) PROVE Pinned(manifest')
    BY <2>1 DEF Pin, Measured, Pinned, FilesType, Manifests
  <2>2. CASE Build \/ EditText \/ Spoil
    BY <2>2 DEF Build, EditText, Spoil, Measured, Pinned
  <2>3. CASE Freeze \/ Promote \/ Declare
    BY <2>3 DEF Freeze, Promote, Declare, Measured, Pinned, FilesType, Manifests
  <2> QED
    BY <2>1, <2>2, <2>3 DEF Edit
<1>3. (\E p \in Runners : at[p] \in Preamble) => image' = image
  BY DEF Edit, Build, EditText, Freeze, Promote, Spoil, Declare, Pin
<1> QED
  BY <1>1, <1>2, <1>3 DEF Measured, BindingIsTrue, Pinned, Busy, OnBoard

\* Without a build in a preamble, what runs is what was read.
LEMMA StepMeasured == ASSUME Quiet, TypeOK, Measured, [Next]_vars PROVE Measured'
<1> USE DEF TypeOK, RunnersType
<1>1. CASE Issue
  BY <1>1 DEF Issue, Measured, BindingIsTrue, Pinned, Busy, OnBoard
<1>2. ASSUME NEW p \in Runners, Preflight(p) PROVE Measured'
  BY <1>2 DEF Preflight, Measured, BindingIsTrue, Pinned, Busy, OnBoard, Preamble
<1>3. ASSUME NEW p \in Runners, NEW f, NEW next \in Preamble, Take(f, p, next), at[p] \in Preamble PROVE Measured'
  BY <1>3 DEF Take, Leave, Measured, BindingIsTrue, Pinned, Busy, OnBoard, Preamble
<1>4. ASSUME NEW p \in Runners, LoadApp(p) PROVE Measured'
  BY <1>4 DEF LoadApp, Measured, BindingIsTrue, Pinned, Busy, OnBoard, Preamble
<1>5. ASSUME NEW p \in Runners, Finish(p) PROVE Measured'
  <2>1. p \in OnBoard /\ at[p] = "loaded" /\ run[p].ran = run[p].image
    BY <1>5 DEF Finish, Measured, OnBoard
  <2>2. BindingIsTrue'
    BY <1>5, <2>1 DEF Finish, Report, Measured, BindingIsTrue
  <2>3. Pinned(manifest)' /\ \A q \in Busy' : Pinned(run[q].manifest)'
    BY <1>5 DEF Finish, Leave, Measured, Pinned, Busy
  <2>4. \A q \in Runners : at'[q] \in Preamble => run'[q].image = image'
    BY <1>5 DEF Finish, Leave, Measured, Preamble
  <2>5. \A q \in OnBoard' : run'[q].ran = run'[q].image
    BY <1>5 DEF Finish, Leave, Measured, OnBoard
  <2> QED
    BY <2>2, <2>3, <2>4, <2>5 DEF Measured
<1>6. ASSUME NEW p \in Runners, Fail(p) PROVE Measured'
  BY <1>6 DEF Fail, Leave, Measured, BindingIsTrue, Pinned, Busy, OnBoard, Preamble
<1>7. CASE UNCHANGED vars
  BY <1>7 DEF vars, Measured, BindingIsTrue, Pinned, Busy, OnBoard
<1> QED
  BY <1>1, <1>2, <1>3, <1>4, <1>5, <1>6, <1>7, EditMeasured DEF Next, Claim, Provision, Preamble

\* host/l6_runner.py preflight and load: when no image is built in a preamble,
\* every report names the image its board ran.
THEOREM BindingTrue == ASSUME Quiet PROVE Spec => []BindingIsTrue
<1>1. Init => Measured
  BY DEF Init, Measured, BindingIsTrue, Pinned, Busy, OnBoard, FirstManifest, Report, Preamble
<1>2. Measured => BindingIsTrue
  BY DEF Measured
<1> QED
  BY <1>1, <1>2, TypeCorrect, StepMeasured, PTL DEF Spec

\* host/l6_runner.py preflight and plan_session: when no image is built in a
\* preamble, a soak's rates were measured on the image it runs, under a text
\* that allows them.
THEOREM SoakCalibrated == ASSUME Quiet PROVE Spec => []SoakIsCalibrated
<1>1. Init => Measured
  BY DEF Init, Measured, BindingIsTrue, Pinned, Busy, OnBoard, FirstManifest, Report, Preamble
<1>2. TypeOK /\ Measured /\ Calibrated => SoakOnMeasuredImage
  BY DEF Measured, BindingIsTrue, Pinned, Calibrated, CalibratedBy, Busy, SoakOnMeasuredImage, Soaking, OnBoard
<1>3. Init => Calibrated
  BY DEF Init, Calibrated, Busy
<1>4. Spec => []SoakOnMeasuredImage
  BY <1>1, <1>2, <1>3, TypeCorrect, StepMeasured, StepCalibrated, PTL DEF Spec
<1>5. SoakOnMeasuredImage /\ ImportsStayWhereRuled => SoakIsCalibrated
  BY DEF SoakIsCalibrated
<1> QED
  BY <1>4, <1>5, ImportsRuled, PTL

-----------------------------------------------------------------------------
(* What a session of the campaign is judged by: its books.  Any number of   *)
(* candidates, plans, faults of the board and damages to the books.         *)

\* The kinds of what the books hold.
Contents == {"random_safe", "map_guided", "blank", "other"}
WordKinds == Contents \cup {"junk"}
Parts == {"refusal", "stop", "reply", "oracle", "arm", "score", "auditStop"}
Outcomes == Unsigned \cup ArmOutcomes \cup {"STOP_AUDIT", "STOP_AXI", "STOP_LINK2", "STOP_LINK3"}
BookRecords ==
  [seq : Nat, outcome : Outcomes, audited : BOOLEAN, arm : {"random_safe", "map_guided", "none"}, genome : Contents,
   parts : SUBSET Parts, commit : Contents, staged : Contents, read : Contents, nb : Nat, na : Nat,
   settled : BOOLEAN, fault : Nat, hw : Contents, tables : Contents, scores : {"pinned", "other"}]
Truths == [staged : WordKinds, read : Contents]
BookChunks == [seq : Nat \ {0}, span : {"streams", "full"}, k : {0, 1}, words : WordKinds]

LogFields == {"ident", "records", "entries", "chunks", "asked", "signs", "recs", "missed", "retried", "control",
              "by", "kind", "closing", "audited", "total", "dropped"}

\* A record of candidate s that ended in o, damaged or not.
Of(r, s, o) == r \in BookRecords /\ r.seq = s /\ r.outcome = o /\ r.commit = Genome(s) /\ r.genome = Genome(s)

\* What a chunk of a candidate's audit really was.
Told(c) == IF c.k = 0 THEN truth[c.seq].staged ELSE truth[c.seq].read

\* A log, damaged or not: its records are those of the candidates in their
\* order, and its chunks are what was staged and read or were spoiled.
LogHolds(l) ==
  /\ DOMAIN l = LogFields
  /\ l.records \in Seq(BookRecords) /\ l.chunks \subseteq BookChunks
  /\ Len(l.records) <= Len(truth)
  /\ \A i \in 1 .. Len(l.records) : Of(l.records[i], i, l.records[i].outcome)
  /\ \A c \in l.chunks : c.seq <= Len(truth) => c.words \in {"junk", Told(c)}

Open == {"run", "control", "unconfirmed", "stopped"}
Going == {"SCORED", "REFUSED_BY_GATE"}
Closed == {"restore", "baseline", "control"}

\* A session that was closed ran all its candidates before, and its control
\* names the nonce that the unsigned ARM found.
EndHolds ==
  /\ pc \in Open => log.closing = {} /\ log.control = << >>
  /\ pc \in {"run", "control"} \/ log.closing = Closed =>
       \A i \in 1 .. Len(log.records) : log.records[i].outcome \in Going
  /\ pc = "control" \/ log.closing = Closed => Len(truth) = LastSeq
  /\ log.closing = Closed /\ log.control # << >> => log.control[1].nb + 1 = silicon

BooksInv ==
  /\ plan \in Plans /\ silicon \in Nat /\ truth \in Seq(Truths) /\ pc \in Open \cup {"ended", "judged"}
  /\ LogHolds(log)
  /\ pc \in Open => Len(log.records) = Len(truth) /\ \A c \in log.chunks : c.seq <= Len(truth)
  /\ EndHolds
  /\ AuditedIsTrue /\ PassMeansWhole

\* Rules of which none is broken all hold.
LEMMA FirstOk ==
  ASSUME NEW n \in Nat, NEW v, DOMAIN v = 1 .. n, First(v) = "ok"
  PROVE  \A i \in 1 .. n : v[i] = "ok"
<1> DEFINE broken == {i \in DOMAIN v : v[i] # "ok"}
<1>1. ASSUME broken # {} PROVE FALSE
  <2>1. broken \subseteq Nat
    OBVIOUS
  <2>2. \E x \in broken : \A y \in broken : ~(<<y, x>> \in OpToRel(<, Nat))
    BY <1>1, <2>1, WFMin, NatLessThanWellFounded
  <2>3. \A x, y \in Nat : ~(<<y, x>> \in OpToRel(<, Nat)) => x <= y
    BY DEF OpToRel
  <2>4. \E x \in broken : \A y \in broken : x <= y
    BY <2>1, <2>2, <2>3
  <2>5. (CHOOSE i \in broken : \A j \in broken : i <= j) \in broken
    BY <2>4
  <2>6. First(v) = v[CHOOSE i \in broken : \A j \in broken : i <= j]
    BY <1>1 DEF First
  <2> QED
    BY <2>5, <2>6
<1> QED
  BY <1>1

\* A chunk that is there is found, and says what was staged or read.
LEMMA WordsFound ==
  ASSUME truth \in Seq(Truths), NEW l, LogHolds(l), Assembled(l.chunks), NEW s \in 1 .. Len(truth), s \in Served(l)
  PROVE  /\ Words(l, s, 0) \in {"junk", truth[s].staged}
         /\ Span(l, s) = "full" => Words(l, s, 1) \in {"junk", truth[s].read}
<1>1. \E c \in l.chunks : c.seq = s
  BY DEF Served
<1> DEFINE c0 == CHOOSE c \in l.chunks : c.seq = s
<1>2. c0 \in l.chunks /\ c0.seq = s /\ Span(l, s) = c0.span
  BY <1>1 DEF Span
<1> HIDE DEF c0
<1>3. {d.k : d \in {e \in l.chunks : e.seq = s}} = Whole(c0.span)
  BY <1>2 DEF Assembled
<1>4. ASSUME NEW k \in Whole(c0.span), k \in {0, 1}
      PROVE  Words(l, s, k) \in {"junk", IF k = 0 THEN truth[s].staged ELSE truth[s].read}
  <2>1. \E d \in l.chunks : d.seq = s /\ d.k = k
    BY <1>3, <1>4
  <2> DEFINE d == CHOOSE c \in l.chunks : c.seq = s /\ c.k = k
  <2>2. d \in l.chunks /\ d.seq = s /\ d.k = k /\ Words(l, s, k) = d.words
    BY <2>1 DEF Words
  <2> HIDE DEF d
  <2>3. d.words \in {"junk", Told(d)}
    BY <2>2 DEF LogHolds
  <2> QED
    BY <2>2, <2>3 DEF Told
<1>5. 0 \in Whole(c0.span) /\ (c0.span = "full" => 1 \in Whole(c0.span))
  BY DEF Whole
<1> QED
  BY <1>2, <1>4, <1>5

\* What the rules of an accepted log say of it.
Marks(l) == \A i \in DOMAIN l.records : l.records[i].audited = HostMark(l, l.records[i])
LEMMA Accepted ==
  ASSUME NEW l, Len(l.records) \in Nat, Validated(l) = "ok"
  PROVE  /\ SummaryVerdict(l) = "ok" /\ Verify(l) = "ok" /\ Marks(l) /\ Control(l) = "ok"
         /\ \A i \in 1 .. Len(l.records) : RecordVerdict(l.records[i]) = "ok"
<1> DEFINE e == [i \in 1 .. Len(l.records) |-> RecordVerdict(l.records[i])]
           marks == Rule(Marks(l), "error")
<1>1. PICK a5, a6, a8 :
        Validated(l) = First(<<SummaryVerdict(l), First(e), Verify(l), marks, a5, a6, Control(l), a8>>)
  BY DEF Validated, Each, Marks
<1> DEFINE v == <<SummaryVerdict(l), First(e), Verify(l), marks, a5, a6, Control(l), a8>>
<1>2. /\ DOMAIN v = 1 .. 8 /\ v[1] = SummaryVerdict(l) /\ v[2] = First(e) /\ v[3] = Verify(l) /\ v[4] = marks
      /\ v[7] = Control(l)
  OBVIOUS
<1>3. First(v) = "ok"
  BY <1>1
<1>4. marks = "ok" => Marks(l)
  BY DEF Rule
<1>5. DOMAIN e = 1 .. Len(l.records) /\ \A i \in 1 .. Len(l.records) : e[i] = RecordVerdict(l.records[i])
  OBVIOUS
<1> HIDE DEF v, e, marks
<1>6. \A i \in 1 .. 8 : v[i] = "ok"
  BY <1>2, <1>3, FirstOk
<1>7. First(e) = "ok" /\ marks = "ok" /\ SummaryVerdict(l) = "ok" /\ Verify(l) = "ok" /\ Control(l) = "ok"
  BY <1>2, <1>6
<1>8. \A i \in 1 .. Len(l.records) : e[i] = "ok"
  BY <1>5, <1>7, FirstOk
<1> QED
  BY <1>4, <1>5, <1>7, <1>8

\* In a log that is accepted, what is marked audited is so.
LEMMA AcceptedIsTrue ==
  ASSUME truth \in Seq(Truths), NEW l, LogHolds(l), Validated(l) = "ok", NEW s \in DOMAIN l.records, l.records[s].audited
  PROVE  IF l.records[s].outcome = "STOP_LINK2" THEN truth[s].staged # l.records[s].commit
         ELSE truth[s] = [staged |-> l.records[s].staged, read |-> l.records[s].read]
<1> DEFINE r == l.records[s]
<1>1. s \in 1 .. Len(l.records) /\ s \in 1 .. Len(truth) /\ r.seq = s /\ r \in BookRecords /\ Len(l.records) \in Nat
  BY DEF LogHolds, Of
<1>2. Verify(l) = "ok" /\ Marks(l)
  BY <1>1, Accepted
<1> HIDE DEF r
<1>3. s \in Served(l) /\ (r.outcome = "STOP_LINK2" \/ Span(l, s) = "full")
  BY <1>1, <1>2 DEF r, Marks, HostMark
<1>4. Assembled(l.chunks) /\ WordsVerdict(l, r) = "ok"
  <2> DEFINE e == [i \in 1 .. Len(l.records) |->
                     IF l.records[i].seq \in Served(l) /\ Assembled(l.chunks)
                       THEN WordsVerdict(l, l.records[i]) ELSE "ok"]
             a == Rule(Assembled(l.chunks), "error")
             b == Rule(Served(l) \subseteq Recorded(l), "error")
             v == <<a, b, First(e)>>
  <2>1. First(v) = "ok"
    BY <1>2 DEF Verify, Each
  <2>2. DOMAIN v = 1 .. 3 /\ v[1] = a /\ v[3] = First(e)
    OBVIOUS
  <2>3. DOMAIN e = 1 .. Len(l.records) /\ e[s] = IF r.seq \in Served(l) /\ Assembled(l.chunks)
                                                   THEN WordsVerdict(l, r) ELSE "ok"
    BY <1>1 DEF r
  <2>4. a = "ok" => Assembled(l.chunks)
    BY DEF Rule
  <2> HIDE DEF e, a, v
  <2>7. \A i \in 1 .. 3 : v[i] = "ok"
    BY <2>1, <2>2, FirstOk
  <2>5. a = "ok" /\ First(e) = "ok"
    BY <2>2, <2>7
  <2>6. e[s] = "ok"
    BY <1>1, <2>3, <2>5, FirstOk
  <2> QED
    BY <1>1, <1>3, <2>3, <2>4, <2>5, <2>6
<1>5. /\ Words(l, s, 0) # "junk"
      /\ r.outcome = "STOP_LINK2" => Words(l, s, 0) # r.commit
      /\ r.outcome # "STOP_LINK2" => Words(l, s, 0) = r.staged
      /\ r.outcome # "STOP_LINK2" /\ Span(l, s) = "full" => Words(l, s, 1) = r.read
  <2> DEFINE w == Words(l, s, 0)
             link2 == r.outcome = "STOP_LINK2"
             a1 == Rule(self_report_class(r) # "none", "error")
             a2 == Rule(w # "junk", "false")
             a3 == Rule(link2 => w # r.commit, "false")
             a4 == Rule(~link2 => w = r.staged, "false")
             a5 == Rule(~link2 /\ Span(l, s) = "full" => Words(l, s, 1) = r.read, "false")
             v == <<a1, a2, a3, a4, a5>>
  <2>1. First(v) = "ok"
    BY <1>1, <1>4 DEF WordsVerdict, r
  <2>2. DOMAIN v = 1 .. 5 /\ v[2] = a2 /\ v[3] = a3 /\ v[4] = a4 /\ v[5] = a5
    OBVIOUS
  <2>3. /\ a2 = "ok" => w # "junk"
        /\ a3 = "ok" => (link2 => w # r.commit)
        /\ a4 = "ok" => (~link2 => w = r.staged)
        /\ a5 = "ok" => (~link2 /\ Span(l, s) = "full" => Words(l, s, 1) = r.read)
    BY DEF Rule
  <2> HIDE DEF v, a2, a3, a4, a5
  <2>4. \A i \in 1 .. 5 : v[i] = "ok"
    BY <2>1, <2>2, FirstOk
  <2> QED
    BY <2>2, <2>3, <2>4
<1>6. /\ Words(l, s, 0) \in {"junk", truth[s].staged}
      /\ Span(l, s) = "full" => Words(l, s, 1) \in {"junk", truth[s].read}
  BY <1>1, <1>3, <1>4, WordsFound
<1>7. truth[s] \in Truths /\ r.read # "junk"
  BY <1>1 DEF BookRecords, Contents
<1>8. truth[s] = [staged |-> truth[s].staged, read |-> truth[s].read]
  BY <1>7 DEF Truths
<1>9. CASE r.outcome = "STOP_LINK2"
  BY <1>5, <1>6, <1>9 DEF r
<1>10. CASE r.outcome # "STOP_LINK2"
  <2>1. truth[s].staged = r.staged /\ truth[s].read = r.read
    BY <1>3, <1>5, <1>6, <1>7, <1>10
  <2> QED
    BY <1>8, <1>10, <2>1 DEF r
<1> QED
  BY <1>9, <1>10

-----------------------------------------------------------------------------
(* The session that leaves the books.                                       *)

\* The candidates of a session, their genomes and labels.
LEMMA Candidates ==
  ASSUME plan \in Plans, NEW s \in Nat \ {0}, s <= LastSeq
  PROVE  /\ Genome(s) \in Contents /\ Label(s) \in {"random_safe", "map_guided", "none"}
         /\ Real(s) \in Truths
<1>1. N \in Nat \ {0} /\ plan.mode \in Modes
  BY BooksAssumption
<1>2. \A a \in Arms : OtherArm(a) \in Arms
  BY DEF Arms, OtherArm
<1>3. ASSUME NEW i \in 2 .. N + 1 PROVE Arm(i) \in Arms
  <2>1. \A x : arm_abba(x) \in Arms
    BY DEF arm_abba, Arms
  <2> QED
    BY <1>1, <1>3, <2>1 DEF Arm, schedule, Modes, Arms
<1>4. ~Blank(s) => s \in 2 .. N + 1
  BY <1>1 DEF Blank, LastSeq
<1>5. N + 1 \in 2 .. N + 1
  BY <1>1
<1>6. Genome(s) \in Contents
  BY <1>2, <1>3, <1>4 DEF Genome, Contents, Arms
<1>7. Label(s) \in {"random_safe", "map_guided", "none"}
  BY <1>2, <1>3, <1>4, <1>5 DEF Label, Arms
<1>8. Real(s) \in Truths
  BY <1>6 DEF Real, Truths, WordKinds, Contents
<1> QED
  BY <1>6, <1>7, <1>8

\* A record of a candidate.
LEMMA RecordTyped ==
  ASSUME plan \in Plans, silicon \in Nat, NEW s \in Nat \ {0}, s <= LastSeq,
         NEW o \in Outcomes, NEW parts \in SUBSET Parts
  PROVE  Of(Record(s, o, parts), s, o)
<1>1. Genome(s) \in Contents /\ Label(s) \in {"random_safe", "map_guided", "none"}
  BY Candidates
<1> QED
  BY <1>1 DEF Record, BookRecords, Of

\* What may be changed of a record.
LEMMA RecordChanged ==
  ASSUME NEW s, NEW o, NEW r, Of(r, s, o)
  PROVE  /\ \A b \in BOOLEAN : Of([r EXCEPT !.audited = b], s, o)
         /\ \A n \in Nat : Of([r EXCEPT !.na = n], s, o)
         /\ \A b \in BOOLEAN : Of([r EXCEPT !.settled = b], s, o)
         /\ \A n \in Nat : Of([r EXCEPT !.fault = n], s, o)
         /\ \A w \in Contents : Of([r EXCEPT !.staged = w], s, o)
         /\ \A w \in Contents : Of([r EXCEPT !.read = w], s, o)
         /\ \A w \in Contents : Of([r EXCEPT !.hw = w], s, o)
         /\ \A w \in Contents : Of([r EXCEPT !.tables = w], s, o)
         /\ \A w \in {"pinned", "other"} : Of([r EXCEPT !.scores = w], s, o)
         /\ \A p : Of([r EXCEPT !.parts = @ \ {p}], s, o)
BY DEF BookRecords, Of

\* A log is judged by the plan, the fault and what was really there.
LEMMA LogMoves ==
  ASSUME NEW l, LogHolds(l), l = log', UNCHANGED <<plan, fault, truth>>
  PROVE  LogHolds(log)'
<1>1. \A i : Genome(i)' = Genome(i)
  BY DEF Genome, Blank, LastSeq, Early, Bites, Arm
<1>2. \A r, i, o : Of(r, i, o) => Of(r, i, o)'
  BY <1>1 DEF Of
<1>3. \A c : Told(c)' = Told(c)
  BY DEF Told
<1>4. /\ DOMAIN log' = LogFields /\ log'.records \in Seq(BookRecords) /\ log'.chunks \subseteq BookChunks
      /\ Len(log'.records) <= Len(truth')
      /\ \A i \in 1 .. Len(log'.records) : Of(log'.records[i], i, log'.records[i].outcome)
      /\ \A c \in log'.chunks : c.seq <= Len(truth') => c.words \in {"junk", Told(c)}
  BY DEF LogHolds
<1>5. /\ \A i \in 1 .. Len(log'.records) : Of(log.records[i], i, log.records[i].outcome)'
      /\ \A c \in log'.chunks : c.seq <= Len(truth') => c.words \in {"junk", Told(c)'}
  BY <1>2, <1>3, <1>4
<1> QED
  BY <1>4, <1>5 DEF LogHolds

\* Nothing but the log's other books changes.
LEMMA LogKept ==
  ASSUME NEW l, LogHolds(l), NEW m, DOMAIN m = DOMAIN l, m.records = l.records, m.chunks = l.chunks
  PROVE  LogHolds(m)
BY DEF LogHolds

\* A candidate's record is filed, with chunks of what was really there.
LEMMA FileStep ==
  ASSUME BooksInv, pc = "run", NEW r, NEW o, Of(r, NextSeq, o), UNCHANGED <<plan, fault>>, NEW entries, NEW chunks, NEW t \in Truths,
         NEW span \in {"streams", "full"}, chunks \subseteq Chunks(r.seq, span, t, {0, 1}),
         File(r, entries, chunks, t)
  PROVE  /\ truth' \in Seq(Truths) /\ LogHolds(log)' /\ Len(log'.records) = Len(truth')
         /\ \A c \in log'.chunks : c.seq <= Len(truth')
         /\ log'.closing = log.closing /\ log'.control = log.control /\ Len(log'.records) = Len(log.records) + 1
         /\ log'.records[Len(log.records) + 1] = r
         /\ \A i \in 1 .. Len(log.records) : log'.records[i] = log.records[i]
<1>1. /\ DOMAIN log = LogFields /\ log.records \in Seq(BookRecords) /\ log.chunks \subseteq BookChunks
      /\ Len(log.records) = Len(truth) /\ Len(truth) \in Nat /\ truth \in Seq(Truths)
      /\ \A i \in 1 .. Len(log.records) : Of(log.records[i], i, log.records[i].outcome)
      /\ \A c \in log.chunks : c.seq <= Len(truth) /\ c.words \in {"junk", Told(c)}
  BY DEF BooksInv, LogHolds, Open
<1>2. /\ {"records", "entries", "chunks", "asked", "signs", "recs", "missed"} \subseteq DOMAIN log
  BY <1>1 DEF LogFields
<1>3. /\ DOMAIN log' = DOMAIN log /\ log'.records = Append(log.records, r) /\ log'.chunks = log.chunks \cup chunks
      /\ truth' = Append(truth, t) /\ log'.closing = log.closing /\ log'.control = log.control
  BY <1>2 DEF File
<1>4. Of(r, Len(truth) + 1, o) /\ r.seq = Len(truth) + 1 /\ r.outcome = o /\ r \in BookRecords
  BY <1>1 DEF NextSeq, Of
<1>5. /\ truth' \in Seq(Truths) /\ Len(truth') = Len(truth) + 1 /\ truth'[Len(truth) + 1] = t
      /\ \A i \in 1 .. Len(truth) : truth'[i] = truth[i]
  BY <1>1, <1>3
<1>6. /\ log'.records \in Seq(BookRecords) /\ Len(log'.records) = Len(truth) + 1
      /\ log'.records[Len(truth) + 1] = r /\ \A i \in 1 .. Len(truth) : log'.records[i] = log.records[i]
  BY <1>1, <1>3, <1>4
<1>7. ASSUME NEW c \in chunks
      PROVE  c \in BookChunks /\ c.seq = Len(truth) + 1 /\ c.words = IF c.k = 0 THEN t.staged ELSE t.read
  BY <1>4, <1>1 DEF Chunks, BookChunks, Truths, WordKinds
<1>8. ASSUME NEW c \in log'.chunks
      PROVE  c \in BookChunks /\ c.seq <= Len(truth') /\ c.words \in {"junk", Told(c)'}
  <2>1. CASE c \in log.chunks
    <3>1. c.seq \in 1 .. Len(truth) /\ c \in BookChunks /\ c.words \in {"junk", Told(c)}
      BY <1>1, <2>1 DEF BookChunks
    <3> QED
      BY <1>1, <1>5, <3>1 DEF Told
  <2>2. CASE c \in chunks
    BY <1>1, <1>5, <1>7, <2>2 DEF Told
  <2> QED
    BY <1>3, <2>1, <2>2
<1>9. LogHolds(log)'
  <2>1. DOMAIN log' = LogFields /\ log'.chunks \subseteq BookChunks /\ Len(log'.records) <= Len(truth')
    BY <1>1, <1>3, <1>5, <1>6, <1>8
  <2>2. \A i \in 1 .. Len(log'.records) : Of(log.records[i], i, log.records[i].outcome)'
    <3>1. \A i \in 1 .. Len(truth) + 1 : Of(log'.records[i], i, log'.records[i].outcome)
      BY <1>1, <1>4, <1>6
    <3>2. \A i : Genome(i)' = Genome(i)
      BY DEF Genome, Blank, LastSeq, Early, Bites, Arm
    <3> QED
      BY <1>6, <3>1, <3>2 DEF Of
  <2>3. \A c \in log'.chunks : c.words \in {"junk", IF c.k = 0 THEN truth'[c.seq].staged ELSE truth'[c.seq].read}
    BY <1>8 DEF Told
  <2> QED
    BY <1>6, <2>1, <2>2, <2>3 DEF LogHolds, Told
<1> QED
  BY <1>1, <1>3, <1>5, <1>6, <1>8, <1>9

\* A candidate filed leaves the books open.
LEMMA Filed ==
  ASSUME BooksInv, NEW s, Filing(s), NEW r, NEW o, Of(r, s, o), NEW entries, NEW chunks, NEW t \in Truths,
         NEW span \in {"streams", "full"}, chunks \subseteq Chunks(s, span, t, {0, 1}),
         File(r, entries, chunks, t), Steady, silicon' \in Nat, pc' \in Open,
         pc' \in {"run", "control"} => o \in Going, pc' = "control" => s = LastSeq
  PROVE  BooksInv'
<1>1. /\ pc = "run" /\ s = NextSeq /\ plan' = plan /\ fault' = fault /\ pc' # "judged" /\ pc \in Open
      /\ Len(log.records) = Len(truth)
  BY DEF Filing, Steady, Open, BooksInv
<1>2. r.seq = s
  BY DEF Of
<1>3. /\ truth' \in Seq(Truths) /\ LogHolds(log)' /\ Len(log'.records) = Len(truth')
      /\ \A c \in log'.chunks : c.seq <= Len(truth')
      /\ log'.closing = log.closing /\ log'.control = log.control /\ Len(log'.records) = Len(log.records) + 1
      /\ log'.records[Len(log.records) + 1] = r
      /\ \A i \in 1 .. Len(log.records) : log'.records[i] = log.records[i]
  BY <1>1, <1>2, FileStep
<1>4. EndHolds'
  <2>1. log'.closing = {} /\ log'.control = << >>
    BY <1>1, <1>3 DEF BooksInv, EndHolds
  <2>2. pc' \in {"run", "control"} => \A i \in 1 .. Len(log'.records) : log'.records[i].outcome \in Going
    <3>1. \A i \in 1 .. Len(log.records) : log.records[i].outcome \in Going
      BY <1>1 DEF BooksInv, EndHolds
    <3>2. Len(log.records) \in Nat /\ r.outcome = o
      BY DEF BooksInv, LogHolds, Of
    <3>3. ASSUME pc' \in {"run", "control"}, NEW i \in 1 .. Len(log'.records) PROVE log'.records[i].outcome \in Going
      <4>1. i \in 1 .. Len(log.records) \/ i = Len(log.records) + 1
        BY <1>3, <3>2
      <4>2. CASE i \in 1 .. Len(log.records)
        BY <1>3, <3>1, <4>2
      <4>3. CASE i = Len(log.records) + 1
        BY <1>3, <3>2, <3>3, <4>3
      <4> QED
        BY <4>1, <4>2, <4>3
    <3> QED
      BY <3>3
  <2>3. pc' = "control" => Len(truth') = LastSeq'
    <3>1. LastSeq' = LastSeq
      BY <1>1 DEF LastSeq, Early
    <3> QED
      BY <1>1, <1>3, <3>1 DEF NextSeq
  <2> QED
    BY <2>1, <2>2, <2>3 DEF EndHolds, Closed
<1> QED
  BY <1>1, <1>3, <1>4 DEF BooksInv, AuditedIsTrue, PassMeansWhole, Judged

\* The candidate that is next is one of the session's.
LEMMA NextIsOne ==
  ASSUME BooksInv, NEW s, Filing(s)
  PROVE  s \in Nat \ {0} /\ s <= LastSeq /\ plan \in Plans /\ silicon \in Nat /\ Real(s) \in Truths
<1>1. s = Len(log.records) + 1 /\ s <= LastSeq /\ plan \in Plans /\ silicon \in Nat /\ log.records \in Seq(BookRecords)
  BY DEF Filing, NextSeq, BooksInv, LogHolds
<1>2. s \in Nat \ {0}
  BY <1>1
<1> QED
  BY <1>1, <1>2, Candidates

\* What a filed record says of its candidate, and what was really there.
ScoredAs(r, s) ==
  /\ r.parts = {"reply", "oracle", "arm", "score"} /\ r.audited = MarkOf(s)
  /\ r.staged = (IF Bites("link2", s) THEN "other" ELSE Genome(s)) /\ r.read = Genome(s)
  /\ r.na = (IF Bites("nonce", s) THEN r.nb + 2 ELSE r.nb + 1)
  /\ r.settled = TRUE /\ r.fault = 0
  /\ r.hw = (IF Bites("hw", s) THEN "other" ELSE Genome(s))
  /\ r.tables = (IF Bites("tables", s) THEN "other" ELSE Genome(s))
  /\ r.scores = (IF Bites("scores", s) THEN "other" ELSE "pinned")
RefusedAs(r, s) == r.parts = {"refusal"} /\ r.audited = FALSE /\ ~Blank(s)

StoppedAs(r, s, t) ==
  /\ r.outcome = "REFUSED_BY_PL" => r.na = r.nb + 1
  /\ r.outcome = "STOP_SETTLE" => r.na \in {r.nb, r.nb + 1}
  /\ r.outcome = "STOP_LINK2" => t.staged = "other"
  /\ r.outcome # "STOP_LINK2" => r.staged = Genome(s) /\ t.staged = Real(s).staged
  /\ r.outcome = "STOP_LINK3" => t.read = r.read
  /\ r.outcome # "STOP_LINK3" => r.read = Genome(s) /\ t.read = Real(s).read

\* A record that differs from another in one field.
RecordFields == {"seq", "outcome", "audited", "arm", "genome", "parts", "commit", "staged", "read", "nb", "na", "settled",
                 "fault", "hw", "tables", "scores"}
Only(q, r, f, x) == q[f] = x /\ \A g \in RecordFields \ {f} : q[g] = r[g]
LEMMA RecordSet ==
  ASSUME NEW s, NEW o, NEW r, Of(r, s, o)
  PROVE  /\ \A x : Only([r EXCEPT !.audited = x], r, "audited", x)
         /\ \A x : Only([r EXCEPT !.na = x], r, "na", x)
         /\ \A x : Only([r EXCEPT !.settled = x], r, "settled", x)
         /\ \A x : Only([r EXCEPT !.fault = x], r, "fault", x)
         /\ \A x : Only([r EXCEPT !.staged = x], r, "staged", x)
         /\ \A x : Only([r EXCEPT !.read = x], r, "read", x)
         /\ \A x : Only([r EXCEPT !.hw = x], r, "hw", x)
         /\ \A x : Only([r EXCEPT !.tables = x], r, "tables", x)
         /\ \A x : Only([r EXCEPT !.scores = x], r, "scores", x)
         /\ \A x : Only([r EXCEPT !.parts = x], r, "parts", x)
<1>1. DOMAIN r = RecordFields
  BY DEF Of, BookRecords, RecordFields
<1> QED
  BY <1>1 DEF Only, RecordFields

\* A scored candidate files the record of one.
LEMMA ScoreFiles ==
  ASSUME BooksInv, NEW s, Score(s)
  PROVE  \E r : /\ Of(r, s, "SCORED") /\ r.nb = silicon /\ r.arm = Label(s) /\ ScoredAs(r, s) /\ silicon' = r.na
                /\ File(r, {Entry(s, "reply")}, AuditOf(s, Real(s)), Real(s))
<1>1. Filing(s)
  BY DEF Score
<1>2. s \in Nat \ {0} /\ s <= LastSeq /\ plan \in Plans /\ silicon \in Nat
  BY <1>1, NextIsOne
<1> DEFINE after == IF Bites("nonce", s) THEN silicon + 2 ELSE silicon + 1
           r0 == Record(s, "SCORED", {"reply", "oracle", "arm", "score"})
           staged == IF Bites("link2", s) THEN "other" ELSE r0.staged
           hw == IF Bites("hw", s) THEN "other" ELSE r0.hw
           tables == IF Bites("tables", s) THEN "other" ELSE r0.tables
           scores == IF Bites("scores", s) THEN "other" ELSE r0.scores
           r1 == [r0 EXCEPT !.audited = MarkOf(s)]
           r2 == [r1 EXCEPT !.na = after]
           r3 == [r2 EXCEPT !.staged = staged]
           r4 == [r3 EXCEPT !.hw = hw]
           r5 == [r4 EXCEPT !.tables = tables]
           r6 == [r5 EXCEPT !.scores = scores]
<1>3. File(r6, {Entry(s, "reply")}, AuditOf(s, Real(s)), Real(s)) /\ silicon' = after
  BY DEF Score
<1>4. "SCORED" \in Outcomes /\ {"reply", "oracle", "arm", "score"} \in SUBSET Parts
  BY DEF Outcomes, Parts, ArmOutcomes
<1>5. Of(r0, s, "SCORED")
  BY <1>2, <1>4, RecordTyped
<1>6. MarkOf(s) \in BOOLEAN
  BY DEF MarkOf
<1>7. after \in Nat /\ staged \in Contents /\ hw \in Contents /\ tables \in Contents /\ scores \in {"pinned", "other"}
  <2>1. r0.staged \in Contents /\ r0.hw \in Contents /\ r0.tables \in Contents /\ r0.scores \in {"pinned", "other"}
    BY <1>5 DEF BookRecords, Of
  <2>2. "other" \in Contents
    BY DEF Contents
  <2> HIDE DEF r0
  <2> QED
    BY <1>2, <2>1, <2>2
<1>8. /\ r0.arm = Label(s) /\ r0.parts = {"reply", "oracle", "arm", "score"} /\ r0.nb = silicon /\ r0.read = Genome(s)
      /\ r0.settled = TRUE /\ r0.fault = 0
      /\ r0.staged = Genome(s) /\ r0.hw = Genome(s) /\ r0.tables = Genome(s) /\ r0.scores = "pinned"
  BY DEF Record
<1> HIDE DEF r0, after, staged, hw, tables, scores
<1>9. Of(r1, s, "SCORED") /\ Only(r1, r0, "audited", MarkOf(s))
  BY <1>5, <1>6, RecordChanged, RecordSet
<1> HIDE DEF r1
<1>10. Of(r2, s, "SCORED") /\ Only(r2, r1, "na", after)
  BY <1>7, <1>9, RecordChanged, RecordSet
<1> HIDE DEF r2
<1>11. Of(r3, s, "SCORED") /\ Only(r3, r2, "staged", staged)
  BY <1>7, <1>10, RecordChanged, RecordSet
<1> HIDE DEF r3
<1>12. Of(r4, s, "SCORED") /\ Only(r4, r3, "hw", hw)
  BY <1>7, <1>11, RecordChanged, RecordSet
<1> HIDE DEF r4
<1>13. Of(r5, s, "SCORED") /\ Only(r5, r4, "tables", tables)
  BY <1>7, <1>12, RecordChanged, RecordSet
<1> HIDE DEF r5
<1>14. Of(r6, s, "SCORED") /\ Only(r6, r5, "scores", scores)
  BY <1>7, <1>13, RecordChanged, RecordSet
<1> HIDE DEF r6
<1>15. /\ r6.audited = MarkOf(s) /\ r6.na = after /\ r6.staged = staged /\ r6.hw = hw /\ r6.tables = tables /\ r6.scores = scores
  BY <1>9, <1>10, <1>11, <1>12, <1>13, <1>14 DEF Only, RecordFields
<1>16. /\ r6.arm = r0.arm /\ r6.parts = r0.parts /\ r6.nb = r0.nb /\ r6.read = r0.read
       /\ r6.settled = r0.settled /\ r6.fault = r0.fault
  BY <1>9, <1>10, <1>11, <1>12, <1>13, <1>14 DEF Only, RecordFields
<1>17. ScoredAs(r6, s)
  BY <1>8, <1>15, <1>16 DEF ScoredAs, after, staged, hw, tables, scores
<1> QED
  BY <1>3, <1>8, <1>14, <1>15, <1>16, <1>17

\* A refused candidate files the record of one.
LEMMA RefusedFiles ==
  ASSUME BooksInv, NEW s, RefuseAtGate(s)
  PROVE  \E r : /\ Of(r, s, "REFUSED_BY_GATE") /\ r.nb = silicon /\ r.arm = Label(s) /\ RefusedAs(r, s)
                /\ r.staged = Genome(s) /\ r.read = Genome(s)
                /\ File(r, {Entry(s, "refusal")}, {}, Real(s))
<1> DEFINE r0 == Record(s, "REFUSED_BY_GATE", {"refusal"})
           r == [r0 EXCEPT !.audited = FALSE]
<1>1. Filing(s) /\ ~Blank(s) /\ File(r, {Entry(s, "refusal")}, {}, Real(s))
  BY DEF RefuseAtGate
<1>2. s \in Nat \ {0} /\ s <= LastSeq /\ plan \in Plans /\ silicon \in Nat
  BY <1>1, NextIsOne
<1>3. "REFUSED_BY_GATE" \in Outcomes /\ {"refusal"} \in SUBSET Parts
  BY DEF Outcomes, Parts, Unsigned
<1>4. Of(r0, s, "REFUSED_BY_GATE")
  BY <1>2, <1>3, RecordTyped
<1>5. r0.nb = silicon /\ r0.arm = Label(s) /\ r0.parts = {"refusal"} /\ r0.staged = Genome(s) /\ r0.read = Genome(s)
  BY DEF Record
<1> HIDE DEF r0
<1>6. Of(r, s, "REFUSED_BY_GATE") /\ Only(r, r0, "audited", FALSE)
  BY <1>4, RecordChanged, RecordSet
<1> HIDE DEF r
<1>7. r.audited = FALSE /\ r.nb = r0.nb /\ r.arm = r0.arm /\ r.parts = r0.parts /\ r.staged = r0.staged /\ r.read = r0.read
  BY <1>6 DEF Only, RecordFields
<1> QED
  BY <1>1, <1>5, <1>6, <1>7 DEF RefusedAs

\* The record of a candidate that ended the epoch, and what it is filed with.
StopFiled(s) ==
  /\ Steady /\ pc' = "stopped" /\ silicon' \in Nat
  /\ \E r, entries, chunks : \E t \in Truths, span \in {"streams", "full"} :
       /\ Of(r, s, r.outcome) /\ r.outcome \notin Going /\ r.nb = silicon /\ StoppedAs(r, s, t)
       /\ chunks \subseteq Chunks(s, span, t, {0, 1}) /\ \A e \in entries : e.seq = s /\ e.nonce = silicon
       /\ File(r, entries, chunks, t)

\* A candidate that ends the epoch, with the audit it may have served.
LEMMA Stopping ==
  ASSUME NEW s, NEW r, Of(r, s, r.outcome), r.outcome \notin Going, r.nb = silicon,
         NEW entries, \A e \in entries : e.seq = s /\ e.nonce = silicon,
         NEW t \in Truths, StoppedAs(r, s, t), NEW span \in {"streams", "full"}, NEW pull \in Pulls(s, span, t),
         Stop(r, entries, pull, t), silicon' \in Nat
  PROVE  StopFiled(s)
<1>1. pull.audited \in BOOLEAN /\ pull.chunks \subseteq Chunks(s, span, t, {0, 1})
  <2> DEFINE C(ks) == Chunks(s, span, t, ks)
  <2>1. \A ks \in SUBSET {0, 1} : C(ks) \subseteq C({0, 1})
    BY DEF Chunks
  <2>2. Whole(span) \in SUBSET {0, 1} /\ {0} \in SUBSET {0, 1}
    BY DEF Whole
  <2>3. pull.audited \in BOOLEAN /\ pull.chunks \in {{}, C(Whole(span)), C({0})}
    <3>1. \/ pull = [chunks |-> {}, audited |-> FALSE]
          \/ \E b \in BOOLEAN : pull = [chunks |-> C(Whole(span)), audited |-> b]
          \/ pull = [chunks |-> C({0}), audited |-> FALSE]
      BY DEF Pulls
    <3> DEFINE none == {}
               all == C(Whole(span))
               some == C({0})
    <3> HIDE DEF C, none, all, some
    <3>2. \E c \in {none, all, some}, b \in BOOLEAN : pull = [chunks |-> c, audited |-> b]
      BY <3>1 DEF none, all, some
    <3>3. pull.audited \in BOOLEAN /\ pull.chunks \in {none, all, some}
      BY <3>2
    <3> QED
      BY <3>3 DEF none, all, some
  <2> HIDE DEF C
  <2>4. pull.chunks \subseteq C({0, 1})
    BY <2>1, <2>2, <2>3
  <2> QED
    BY <2>3, <2>4 DEF C
<1> DEFINE q == [r EXCEPT !.audited = pull.audited]
<1>2. Of(q, s, r.outcome) /\ Only(q, r, "audited", pull.audited)
  BY <1>1, RecordChanged, RecordSet
<1>3. File(q, entries, pull.chunks, t) /\ pc' = "stopped" /\ Steady
  BY DEF Stop
<1> HIDE DEF q
<1>4. q.outcome = r.outcome /\ q.nb = r.nb /\ q.na = r.na /\ q.staged = r.staged /\ q.read = r.read
  BY <1>2 DEF Only, RecordFields
<1>5. StoppedAs(q, s, t)
  BY <1>4 DEF StoppedAs
<1> QED
  BY <1>1, <1>2, <1>3, <1>4, <1>5 DEF StopFiled

\* Every stop of the epoch over a candidate files a record.
LEMMA StopFiles ==
  ASSUME BooksInv, NEW s,
         StopSign(s) \/ StopLink2(s) \/ StopLink3(s) \/ StopAxi(s) \/ StopAudit(s) \/ StopAtArm(s)
  PROVE  Filing(s) /\ StopFiled(s)
<1>1. Filing(s)
  BY DEF StopSign, StopLink2, StopLink3, StopAxi, StopAudit, StopAtArm
<1>2. s \in Nat \ {0} /\ s <= LastSeq /\ plan \in Plans /\ silicon \in Nat /\ Real(s) \in Truths
  BY <1>1, NextIsOne
<1>3. ASSUME NEW o \in Outcomes, NEW parts \in SUBSET Parts
      PROVE  Of(Record(s, o, parts), s, o)
  BY <1>2, RecordTyped
<1>4. /\ {"STOP_SIGN", "STOP_LINK2", "STOP_LINK3", "STOP_AXI", "STOP_AUDIT"} \cup ArmOutcomes \subseteq Outcomes
      /\ {{"stop"}, {"reply"}, {"reply", "oracle"}, {"reply", "oracle", "auditStop"}, {"reply", "oracle", "arm"}}
           \subseteq SUBSET Parts
      /\ "other" \in Contents
  BY DEF Outcomes, Parts, ArmOutcomes, Unsigned, Contents
<1>5. \A o, parts : LET r == Record(s, o, parts) IN
        r.outcome = o /\ r.nb = silicon /\ r.na = silicon /\ r.staged = Genome(s) /\ r.read = Genome(s)
  BY DEF Record
<1>6. \A a : LET e == Entry(s, a) IN e.seq = s /\ e.nonce = silicon
  BY DEF Entry
<1> DEFINE t == Real(s)
           nothing == [chunks |-> {}, audited |-> FALSE]
           reply == {Entry(s, "reply")}
<1>7. \A e \in reply : e.seq = s /\ e.nonce = silicon
  BY <1>6
<1>8. CASE StopSign(s)
  <2> DEFINE r == Record(s, "STOP_SIGN", {"stop"})
  <2>1. PICK entries \in {{}, reply, {Entry(s, "refusal")}} : Stop(r, entries, nothing, t) /\ silicon' = silicon
    BY <1>8 DEF StopSign
  <2>2. Of(r, s, "STOP_SIGN")
    BY <1>3, <1>4
  <2>3. nothing \in Pulls(s, "full", t)
    BY DEF Pulls
  <2>4. \A e \in entries : e.seq = s /\ e.nonce = silicon
    BY <1>6, <1>7
  <2>5. r.outcome = "STOP_SIGN" /\ r.nb = silicon /\ r.staged = Genome(s) /\ r.read = Genome(s)
    BY <1>5
  <2> HIDE DEF r, nothing
  <2>6. StoppedAs(r, s, t)
    BY <2>5 DEF StoppedAs
  <2> HIDE DEF t
  <2>7. t \in Truths
    BY <1>2 DEF t
  <2> QED
    BY <1>1, <1>2, <2>1, <2>2, <2>3, <2>4, <2>5, <2>6, <2>7, Stopping DEF Going
<1>9. CASE StopLink2(s)
  <2> DEFINE u == [t EXCEPT !.staged = "other"]
             r0 == Record(s, "STOP_LINK2", {"reply"})
             r == [r0 EXCEPT !.staged = "other"]
  <2>1. PICK pull \in Pulls(s, "streams", u) : Stop(r, reply, pull, u) /\ silicon' = silicon
    BY <1>9 DEF StopLink2
  <2>2. Of(r0, s, "STOP_LINK2") /\ r0.nb = silicon /\ r0.read = Genome(s)
    BY <1>3, <1>4, <1>5
  <2>3. u.staged = "other" /\ u.read = t.read /\ u \in Truths
    BY <1>2 DEF Truths, WordKinds, Contents
  <2> HIDE DEF r0, u
  <2>4. Of(r, s, "STOP_LINK2") /\ Only(r, r0, "staged", "other")
    BY <1>4, <2>2, RecordChanged, RecordSet
  <2> HIDE DEF r
  <2>5. r.nb = silicon /\ r.read = Genome(s) /\ r.outcome = "STOP_LINK2"
    BY <2>2, <2>4 DEF Only, RecordFields, Of
  <2>6. StoppedAs(r, s, u)
    BY <2>3, <2>5 DEF StoppedAs
  <2> HIDE DEF t, reply
  <2> QED
    BY <1>1, <1>2, <1>7, <2>1, <2>3, <2>4, <2>5, <2>6, Stopping DEF Going
<1>10. CASE StopLink3(s)
  <2> DEFINE u == [t EXCEPT !.read = "other"]
             r0 == Record(s, "STOP_LINK3", {"reply", "oracle"})
             r == [r0 EXCEPT !.read = "other"]
  <2>1. PICK pull \in Pulls(s, "full", u) : Stop(r, reply, pull, u) /\ silicon' = silicon
    BY <1>10 DEF StopLink3
  <2>2. Of(r0, s, "STOP_LINK3") /\ r0.nb = silicon /\ r0.staged = Genome(s)
    BY <1>3, <1>4, <1>5
  <2>3. u.staged = t.staged /\ u.read = "other" /\ u \in Truths
    BY <1>2 DEF Truths, WordKinds, Contents
  <2> HIDE DEF r0, u
  <2>4. Of(r, s, "STOP_LINK3") /\ Only(r, r0, "read", "other")
    BY <1>4, <2>2, RecordChanged, RecordSet
  <2> HIDE DEF r
  <2>5. r.nb = silicon /\ r.staged = Genome(s) /\ r.read = "other" /\ r.outcome = "STOP_LINK3"
    BY <2>2, <2>4 DEF Only, RecordFields, Of
  <2>6. StoppedAs(r, s, u)
    BY <2>3, <2>5 DEF StoppedAs
  <2> HIDE DEF t, reply
  <2> QED
    BY <1>1, <1>2, <1>7, <2>1, <2>3, <2>4, <2>5, <2>6, Stopping DEF Going
<1>11. CASE StopAxi(s) \/ StopAudit(s)
  <2> DEFINE ra == Record(s, "STOP_AXI", {"reply", "oracle"})
             rb == Record(s, "STOP_AUDIT", {"reply", "oracle", "auditStop"})
  <2>1. PICK r \in {ra, rb} : \E pull \in Pulls(s, "full", t) : Stop(r, reply, pull, t) /\ silicon' = silicon
    BY <1>11 DEF StopAxi, StopAudit
  <2>2. Of(ra, s, "STOP_AXI") /\ Of(rb, s, "STOP_AUDIT")
    BY <1>3, <1>4
  <2>3. /\ r.outcome \in {"STOP_AXI", "STOP_AUDIT"} /\ Of(r, s, r.outcome)
        /\ r.nb = silicon /\ r.staged = Genome(s) /\ r.read = Genome(s)
    BY <1>5, <2>1, <2>2
  <2> HIDE DEF ra, rb
  <2>4. StoppedAs(r, s, t)
    BY <2>3 DEF StoppedAs
  <2> HIDE DEF t, reply
  <2>5. t \in Truths
    BY <1>2 DEF t
  <2> QED
    BY <1>1, <1>2, <1>7, <2>1, <2>3, <2>4, <2>5, Stopping DEF Going
<1>12. CASE StopAtArm(s)
  <2> DEFINE R(o, step) == [Record(s, o, {"reply", "oracle", "arm"}) EXCEPT
                              !.na = silicon + step, !.settled = o # "STOP_SETTLE",
                              !.fault = IF o = "REFUSED_BY_PL" THEN F_ARM_AUTH ELSE 0]
  <2>1. PICK o \in ArmOutcomes \ {"SCORED"}, step \in 0 .. 1, late \in 0 .. 1, pull \in Pulls(s, "full", t) :
          Stop(R(o, step), reply, pull, t) /\ silicon' = silicon + step + late /\ (o = "REFUSED_BY_PL" => step = 1)
    BY <1>12 DEF StopAtArm
  <2> DEFINE f == IF o = "REFUSED_BY_PL" THEN F_ARM_AUTH ELSE 0
             n == silicon + step
             r0 == Record(s, o, {"reply", "oracle", "arm"})
             r1 == [r0 EXCEPT !.na = n]
             r2 == [r1 EXCEPT !.settled = o # "STOP_SETTLE"]
             r3 == [r2 EXCEPT !.fault = f]
  <2>2. f \in Nat /\ n \in Nat /\ silicon' \in Nat /\ (o # "STOP_SETTLE") \in BOOLEAN
    BY <1>2, <2>1 DEF F_ARM_AUTH
  <2>3. Of(r0, s, o) /\ r0.nb = silicon /\ r0.staged = Genome(s) /\ r0.read = Genome(s)
    BY <1>3, <1>4, <1>5
  <2>4. Stop(r3, reply, pull, t)
    BY <2>1
  <2>5. (o = "REFUSED_BY_PL" => n = silicon + 1) /\ n \in {silicon, silicon + 1}
    BY <1>2, <2>1
  <2> HIDE DEF r0, n, f, R
  <2>6. Of(r1, s, o) /\ Only(r1, r0, "na", n)
    BY <2>2, <2>3, RecordChanged, RecordSet
  <2> HIDE DEF r1
  <2>7. Of(r2, s, o) /\ Only(r2, r1, "settled", o # "STOP_SETTLE")
    BY <2>2, <2>6, RecordChanged, RecordSet
  <2> HIDE DEF r2
  <2>8. Of(r3, s, o) /\ Only(r3, r2, "fault", f)
    BY <2>2, <2>7, RecordChanged, RecordSet
  <2> HIDE DEF r3
  <2>9. r3.outcome = o /\ r3.nb = silicon /\ r3.na = n /\ r3.staged = Genome(s) /\ r3.read = Genome(s)
    BY <2>3, <2>6, <2>7, <2>8 DEF Only, RecordFields, Of
  <2>10. StoppedAs(r3, s, t)
    BY <2>1, <2>5, <2>9 DEF StoppedAs, ArmOutcomes
  <2>11. r3.outcome \notin Going
    BY <2>1, <2>9 DEF ArmOutcomes, Going
  <2> HIDE DEF t, reply
  <2>12. t \in Truths
    BY <1>2 DEF t
  <2> QED
    BY <1>1, <1>7, <2>2, <2>4, <2>8, <2>9, <2>10, <2>11, <2>12, Stopping
<1> QED
  BY <1>1, <1>8, <1>9, <1>10, <1>11, <1>12

\* What a candidate's step does, and what it leaves.
LEMMA CandidateFiles ==
  ASSUME BooksInv, NEW s, Candidate(s)
  PROVE  Score(s) \/ RefuseAtGate(s) \/ (Filing(s) /\ StopFiled(s)) \/ StopUnrecorded(s)
BY StopFiles DEF Candidate

\* It leaves what was chosen before it.
LEMMA CandidateSteady ==
  ASSUME NEW s, Candidate(s)
  PROVE  Steady
BY DEF Candidate, Score, RefuseAtGate, StopSign, StopLink2, StopLink3, StopAxi, StopAudit, StopAtArm, Stop, StopUnrecorded

\* A scored candidate keeps what is true of the books.
LEMMA ScoreStep ==
  ASSUME BooksInv, NEW s, Score(s)
  PROVE  BooksInv'
<1>1. Filing(s) /\ Steady /\ pc' \in Open /\ (pc' = "control" => s = LastSeq)
  BY DEF Score, Open
<1>2. Real(s) \in Truths /\ "SCORED" \in Going
  BY <1>1, NextIsOne DEF Going
<1>3. PICK r : /\ Of(r, s, "SCORED") /\ silicon' = r.na
               /\ File(r, {Entry(s, "reply")}, AuditOf(s, Real(s)), Real(s))
  BY ScoreFiles
<1>4. \E span \in {"streams", "full"} : AuditOf(s, Real(s)) \subseteq Chunks(s, span, Real(s), {0, 1})
  BY DEF AuditOf, Chunks
<1>5. silicon' \in Nat
  BY <1>3 DEF Of, BookRecords
<1> QED
  BY <1>1, <1>2, <1>3, <1>4, <1>5, Filed

\* A refused candidate.
LEMMA RefusedStep ==
  ASSUME BooksInv, NEW s, RefuseAtGate(s)
  PROVE  BooksInv'
<1>1. Filing(s) /\ Steady /\ pc' \in Open /\ silicon' = silicon /\ pc' # "control"
  BY DEF RefuseAtGate, Open
<1>2. silicon \in Nat /\ Real(s) \in Truths
  BY <1>1, NextIsOne
<1>3. PICK r : Of(r, s, "REFUSED_BY_GATE") /\ File(r, {Entry(s, "refusal")}, {}, Real(s))
  BY RefusedFiles
<1>4. {} \subseteq Chunks(s, "full", Real(s), {0, 1}) /\ "REFUSED_BY_GATE" \in Going
  BY DEF Going
<1> QED
  BY <1>1, <1>2, <1>3, <1>4, Filed

\* A candidate that ends the epoch.
LEMMA StopStep ==
  ASSUME BooksInv, NEW s, Filing(s), StopFiled(s)
  PROVE  BooksInv'
<1>1. Steady /\ pc' = "stopped" /\ silicon' \in Nat
  BY DEF StopFiled
<1>2. PICK r, entries, chunks : \E t \in Truths, span \in {"streams", "full"} :
         /\ Of(r, s, r.outcome) /\ chunks \subseteq Chunks(s, span, t, {0, 1}) /\ File(r, entries, chunks, t)
  BY DEF StopFiled
<1>3. PICK t \in Truths, span \in {"streams", "full"} :
         /\ Of(r, s, r.outcome) /\ chunks \subseteq Chunks(s, span, t, {0, 1}) /\ File(r, entries, chunks, t)
  BY <1>2
<1>4. pc' \in Open
  BY <1>1 DEF Open
<1> QED
  BY <1>1, <1>3, <1>4, Filed

\* A step that leaves the records and the chunks.
LEMMA BooksKept ==
  ASSUME BooksInv, UNCHANGED <<plan, fault, truth>>, silicon' \in Nat, pc' \in Open \cup {"ended"}, pc' \in Open => pc \in Open,
         DOMAIN log' = DOMAIN log, log'.records = log.records, log'.chunks = log.chunks, EndHolds'
  PROVE  BooksInv'
<1>1. LogHolds(log')
  BY LogKept DEF BooksInv
<1>2. LogHolds(log)'
  BY <1>1, LogMoves
<1>3. AuditedIsTrue' /\ PassMeansWhole'
  BY DEF AuditedIsTrue, PassMeansWhole, Judged, Open
<1> QED
  BY <1>2, <1>3 DEF BooksInv

\* A session that ends unclosed promises nothing more.
LEMMA Unclosed ==
  ASSUME log'.closing # Closed, pc' \notin {"run", "control"}, pc' \in Open => log'.closing = {} /\ log'.control = << >>
  PROVE  EndHolds'
BY DEF EndHolds

\* The end of the session, and what is summed up.
LEMMA EndStep ==
  ASSUME BooksInv, NEW s, StopUnrecorded(s) \/ CloseSession \/ EndStopped
  PROVE  BooksInv'
<1>1. DOMAIN log = LogFields /\ silicon \in Nat
  BY DEF BooksInv, LogHolds
<1>2. \A k, c : LET m == Summary(log, k, c) IN
        DOMAIN m = DOMAIN log /\ m.records = log.records /\ m.chunks = log.chunks /\ m.closing = c /\ m.control = log.control
  BY <1>1 DEF Summary, LogFields
<1>3. CASE StopUnrecorded(s)
  <2>1. /\ UNCHANGED <<plan, fault, truth, silicon>> /\ pc = "run" /\ pc' = "stopped"
        /\ DOMAIN log' = DOMAIN log /\ log'.records = log.records /\ log'.chunks = log.chunks
        /\ log'.closing = log.closing /\ log'.control = log.control
    BY <1>1, <1>3 DEF StopUnrecorded, Steady, Filing, LogFields
  <2>2. log.closing = {} /\ log.control = << >>
    BY <2>1 DEF BooksInv, EndHolds, Open
  <2>3. EndHolds'
    BY <2>1, <2>2, Unclosed DEF Closed
  <2> QED
    BY <1>1, <2>1, <2>3, BooksKept DEF Open
<1>4. CASE CloseSession
  <2>1. UNCHANGED <<plan, fault, truth>> /\ pc = "control" /\ pc' = "ended" /\ silicon' \in Nat
    BY <1>1, <1>4 DEF CloseSession, Steady
  <2> DEFINE done == Summary(log, "COMPLETED", Closed)
             kept == Summary(log, "STOPPED", {"restore"} \cup BaselineMark)
             Refused(f) == [done EXCEPT !.control = <<[fault |-> f, nb |-> silicon]>>]
  <2>2. (silicon' = silicon + 1 /\ \E f \in Nat : log' = Refused(f)) \/ log' = kept
    BY <1>4 DEF CloseSession, Closed, F_ARM_AUTH
  <2>3. CASE silicon' = silicon + 1 /\ \E f \in Nat : log' = Refused(f)
    <3>1. PICK f \in Nat : log' = Refused(f)
      BY <2>3
    <3>2. DOMAIN done = DOMAIN log /\ done.records = log.records /\ done.chunks = log.chunks /\ done.closing = Closed
      BY <1>2
    <3> HIDE DEF done
    <3>3. /\ DOMAIN log' = DOMAIN log /\ log'.records = log.records /\ log'.chunks = log.chunks /\ log'.closing = Closed
          /\ log'.control = <<[fault |-> f, nb |-> silicon]>>
      BY <1>1, <3>1, <3>2 DEF LogFields
    <3>4. log'.control[1].nb + 1 = silicon'
      BY <2>3, <3>3
    <3>5. (\A i \in 1 .. Len(log.records) : log.records[i].outcome \in Going) /\ Len(truth) = LastSeq
      BY <2>1 DEF BooksInv, EndHolds
    <3>6. LastSeq' = LastSeq
      BY <2>1 DEF LastSeq, Early
    <3>7. EndHolds'
      BY <2>1, <3>3, <3>4, <3>5, <3>6 DEF EndHolds, Open
    <3> QED
      BY <2>1, <3>3, <3>7, BooksKept DEF Open
  <2>4. CASE log' = kept
    <3>1. /\ DOMAIN log' = DOMAIN log /\ log'.records = log.records /\ log'.chunks = log.chunks
          /\ log'.closing = {"restore"} \cup BaselineMark
      BY <1>2, <2>4
    <3>2. "control" \notin {"restore"} \cup BaselineMark
      BY DEF BaselineMark
    <3>3. EndHolds'
      BY <2>1, <3>1, <3>2, Unclosed DEF Closed, Open
    <3> QED
      BY <2>1, <3>1, <3>3, BooksKept DEF Open
  <2> QED
    BY <2>2, <2>3, <2>4
<1>5. CASE EndStopped
  <2>1. UNCHANGED <<plan, fault, truth, silicon>> /\ pc' = "ended"
    BY <1>5 DEF EndStopped, Steady
  <2>2. \E k \in {"STOPPED", "PROTOCOL"}, c \in {BaselineMark, {"restore"} \cup BaselineMark} : log' = Summary(log, k, c)
    BY <1>5 DEF EndStopped
  <2>3. "control" \notin {"restore"} \cup BaselineMark
    BY DEF BaselineMark
  <2>4. /\ DOMAIN log' = DOMAIN log /\ log'.records = log.records /\ log'.chunks = log.chunks
        /\ log'.closing # Closed
    BY <1>2, <2>2, <2>3 DEF Closed
  <2>5. EndHolds'
    BY <2>1, <2>4, Unclosed DEF Open
  <2> QED
    BY <1>1, <2>1, <2>4, <2>5, BooksKept DEF Open
<1> QED
  BY <1>3, <1>4, <1>5

\* The application is gone: what the log gains is of the next candidate.
LEMMA CrashStep ==
  ASSUME BooksInv, Crash
  PROVE  BooksInv'
<1> DEFINE s == NextSeq
           t == Real(s)
           L(f) == [log EXCEPT !.entries = @ \cup (IF f = "nothing" THEN {} ELSE {Entry(s, "reply")}),
                               !.chunks = @ \cup (IF f = "audited" THEN Chunks(s, "full", t, {0, 1}) ELSE {}),
                               !.asked = @ \cup (IF f = "nothing" THEN {} ELSE {s})]
           M(f) == [L(f) EXCEPT !.by = "collector", !.kind = "CRASHED", !.audited = crash_audit_count(L(f)),
                                !.total = Len(L(f).records)]
<1>1. PICK f \in {"nothing", "signed", "audited"} : (f # "nothing" => pc = "run" /\ s <= LastSeq) /\ log' = M(f)
  BY DEF Crash
<1>2. UNCHANGED <<plan, fault, truth, silicon>> /\ pc' = "ended" /\ pc \in Open /\ log.closing = {}
  BY DEF Crash, Steady, BooksInv, EndHolds
<1>3. /\ DOMAIN log = LogFields /\ log.records \in Seq(BookRecords) /\ log.chunks \subseteq BookChunks
      /\ Len(log.records) = Len(truth) /\ truth \in Seq(Truths) /\ silicon \in Nat /\ plan \in Plans
      /\ \A c \in log.chunks : c.seq <= Len(truth)
  BY <1>2 DEF BooksInv, LogHolds
<1>4. s \in Nat \ {0} /\ s = Len(truth) + 1 /\ ~(s <= Len(truth))
  BY <1>3 DEF NextSeq
<1>5. CASE f # "audited"
  <2>1. DOMAIN log' = DOMAIN log /\ log'.records = log.records /\ log'.chunks = log.chunks /\ log'.closing = {}
    <3> DEFINE l == L(f)
    <3>1. DOMAIN l = DOMAIN log /\ l.records = log.records /\ l.chunks = log.chunks /\ l.closing = {}
      BY <1>2, <1>3, <1>5 DEF LogFields
    <3>2. log' = [l EXCEPT !.by = "collector", !.kind = "CRASHED", !.audited = crash_audit_count(l),
                           !.total = Len(l.records)]
      BY <1>1
    <3> HIDE DEF l
    <3> QED
      BY <3>1, <3>2
  <2>2. EndHolds'
    BY <1>2, <2>1, Unclosed DEF Closed, Open
  <2> QED
    BY <1>2, <1>3, <2>1, <2>2, BooksKept
<1>6. CASE f = "audited"
  <2> DEFINE l == L(f)
             new == Chunks(s, "full", t, {0, 1})
  <2>1. DOMAIN l = DOMAIN log /\ l.records = log.records /\ l.chunks = log.chunks \cup new /\ l.closing = {}
    BY <1>2, <1>3, <1>6 DEF LogFields
  <2>2. log' = [l EXCEPT !.by = "collector", !.kind = "CRASHED", !.audited = crash_audit_count(l),
                         !.total = Len(l.records)]
    BY <1>1
  <2> HIDE DEF l, new
  <2>3. DOMAIN log' = LogFields /\ log'.records = log.records /\ log'.chunks = log.chunks \cup new /\ log'.closing = {}
    BY <1>3, <2>1, <2>2
  <2>4. t \in Truths
    BY <1>1, <1>3, <1>4, <1>6, Candidates
  <2>5. \A c \in new : c \in BookChunks /\ c.seq = s
    BY <1>4, <2>4 DEF new, Chunks, BookChunks, Truths, WordKinds
  <2>6. \A c \in log.chunks : c.words \in {"junk", Told(c)}
    BY <1>3 DEF BooksInv, LogHolds
  <2>7. LogHolds(log)'
    <3>1. \A c \in log'.chunks : c.seq <= Len(truth) => c.words \in {"junk", Told(c)}
      BY <1>4, <2>3, <2>5, <2>6
    <3>2. \A i \in 1 .. Len(log'.records) : Of(log'.records[i], i, log'.records[i].outcome)
      BY <2>3 DEF BooksInv, LogHolds
    <3>3. LogHolds(log')
      BY <1>2, <1>3, <2>3, <2>5, <3>1, <3>2 DEF LogHolds
    <3> QED
      BY <1>2, <3>3, LogMoves
  <2>8. EndHolds'
    BY <1>2, <2>3, Unclosed DEF Closed, Open
  <2> QED
    BY <1>2, <1>3, <2>7, <2>8 DEF BooksInv, AuditedIsTrue, PassMeansWhole, Judged, Open
<1> QED
  BY <1>5, <1>6

\* Damage adds no record and no control, and turns no outcome into another.
Below(m, l) ==
  /\ m.closing = l.closing /\ m.control \in {l.control, << >>}
  /\ Len(m.records) <= Len(l.records)
  /\ \A i \in 1 .. Len(m.records) : m.records[i].outcome = l.records[i].outcome

\* A record that was damaged is still the record of its candidate.
LEMMA RecordDamaged ==
  ASSUME NEW l, LogHolds(l), NEW i \in DOMAIN l.records, NEW q, Of(q, i, l.records[i].outcome),
         NEW m, m = [l EXCEPT !.records[i] = q]
  PROVE  LogHolds(m) /\ Below(m, l)
<1>1. /\ DOMAIN l = LogFields /\ l.records \in Seq(BookRecords) /\ Len(l.records) \in Nat
      /\ DOMAIN l.records = 1 .. Len(l.records) /\ i \in 1 .. Len(l.records)
  BY DEF LogHolds
<1>2. /\ DOMAIN m = LogFields /\ m.records = [l.records EXCEPT ![i] = q] /\ m.chunks = l.chunks
      /\ m.closing = l.closing /\ m.control = l.control
  BY <1>1 DEF LogFields
<1>3. q \in BookRecords /\ q.outcome = l.records[i].outcome
  BY DEF Of
<1>4. m.records \in Seq(BookRecords) /\ Len(m.records) = Len(l.records)
  BY <1>1, <1>2, <1>3
<1>5. \A j \in 1 .. Len(m.records) : m.records[j] = IF j = i THEN q ELSE l.records[j]
  BY <1>1, <1>2, <1>4
<1>6. \A j \in 1 .. Len(m.records) : m.records[j].outcome = l.records[j].outcome
  BY <1>3, <1>5
<1>7. \A j \in 1 .. Len(m.records) : Of(m.records[j], j, m.records[j].outcome)
  <2>1. \A j \in 1 .. Len(l.records) : Of(l.records[j], j, l.records[j].outcome)
    BY DEF LogHolds
  <2> QED
    BY <1>4, <1>5, <1>6, <2>1
<1> QED
  BY <1>1, <1>2, <1>4, <1>6, <1>7 DEF LogHolds, Below

\* Damage on the way leaves a log of the same candidates.
LEMMA DamageHolds ==
  ASSUME truth \in Seq(Truths), NEW l, LogHolds(l), NEW m \in Damaged(l)
  PROVE  LogHolds(m) /\ Below(m, l)
<1>1. /\ DOMAIN l = LogFields /\ l.records \in Seq(BookRecords) /\ l.chunks \subseteq BookChunks
      /\ Len(l.records) \in Nat /\ DOMAIN l.records = 1 .. Len(l.records)
  BY DEF LogHolds
<1> DEFINE Chunk == \E c \in l.chunks : m = [l EXCEPT !.chunks = @ \ {c}]
           Junk == \E c \in l.chunks : m = [l EXCEPT !.chunks = @ \cup {[c EXCEPT !.words = "junk"]}]
           Other == \/ \E e : m = [l EXCEPT !.entries = e]
                    \/ \E n : m = [l EXCEPT !.audited = n]
                    \/ \E n : m = [l EXCEPT !.total = n]
                    \/ m = [l EXCEPT !.control = << >>]
                    \/ \E n : m = [l EXCEPT !.signs = n]
                    \/ \E n : m = [l EXCEPT !.recs = n]
                    \/ \E n : m = [l EXCEPT !.kind = n]
           Mark == \E i \in DOMAIN l.records : m = [l EXCEPT !.records[i].audited = ~@]
           Part == \E i \in DOMAIN l.records : \E p : m = [l EXCEPT !.records[i].parts = @ \ {p}]
           Last == 1 \in DOMAIN l.records /\ m = [l EXCEPT !.records = SubSeq(@, 1, Len(@) - 1)]
<1>2. Chunk \/ Junk \/ Other \/ Mark \/ Part \/ Last
  <2> DEFINE Parted(i) == {[l EXCEPT !.records[i].parts = @ \ {p}] : p \in l.records[i].parts}
  <2> DEFINE S1 == {[l EXCEPT !.chunks = @ \ {c}] : c \in l.chunks}
             S2 == {[l EXCEPT !.chunks = @ \cup {[c EXCEPT !.words = "junk"]}] : c \in l.chunks}
             S3 == {[l EXCEPT !.entries = @ \ {e}] : e \in l.entries}
             S4 == {[l EXCEPT !.records[i].audited = ~@] : i \in DOMAIN l.records}
             S5 == UNION {Parted(i) : i \in DOMAIN l.records}
             S6 == {[l EXCEPT !.records = SubSeq(@, 1, Len(@) - 1)] : i \in DOMAIN l.records \cap {1}}
             S7 == {[l EXCEPT !.audited = @ + 1], [l EXCEPT !.total = @ + 1], [l EXCEPT !.control = << >>]}
             S8 == {[l EXCEPT !.signs = @ \ {s}] : s \in l.signs}
             S9 == {[l EXCEPT !.recs = @ \ {s}] : s \in l.recs}
             S10 == {[l EXCEPT !.kind = k] : k \in {"COMPLETED", "STOPPED"}}
  <2>1. /\ m \in S1 => Chunk
        /\ m \in S2 => Junk
        /\ m \in S3 \cup S7 \cup S8 \cup S9 \cup S10 => Other
        /\ m \in S4 => Mark
        /\ m \in S6 => Last
    OBVIOUS
  <2>2. ASSUME m \in S5 PROVE Part
    <3>1. PICK i \in DOMAIN l.records : m \in Parted(i)
      BY <2>2
    <3> QED
      BY <3>1
  <2>3. Damaged(l) = S1 \cup S2 \cup S3 \cup S4 \cup S5 \cup S6 \cup S7 \cup S8 \cup S9 \cup S10
    BY DEF Damaged
  <2> HIDE DEF S1, S2, S3, S4, S5, S6, S7, S8, S9, S10, Chunk, Junk, Other, Mark, Part, Last
  <2> QED
    BY <2>1, <2>2, <2>3
<1>3. CASE Chunk
  <2>1. DOMAIN m = LogFields /\ m.records = l.records /\ m.chunks \subseteq l.chunks /\ m.closing = l.closing /\ m.control = l.control
    BY <1>1, <1>3 DEF LogFields
  <2> QED
    BY <1>1, <2>1 DEF LogHolds, Below
<1>4. CASE Junk
  <2>1. PICK c \in l.chunks : m = [l EXCEPT !.chunks = @ \cup {[c EXCEPT !.words = "junk"]}]
    BY <1>4
  <2> DEFINE d == [c EXCEPT !.words = "junk"]
  <2>2. DOMAIN m = LogFields /\ m.records = l.records /\ m.chunks = l.chunks \cup {d} /\ m.closing = l.closing /\ m.control = l.control
    BY <1>1, <2>1 DEF LogFields
  <2>3. d \in BookChunks /\ d.words = "junk"
    BY <1>1 DEF BookChunks, WordKinds
  <2> HIDE DEF d
  <2> QED
    BY <1>1, <2>2, <2>3 DEF LogHolds, Below
<1>5. CASE Other
  <2>1. /\ DOMAIN m = DOMAIN l /\ m.records = l.records /\ m.chunks = l.chunks
        /\ m.closing = l.closing /\ m.control \in {l.control, << >>}
    BY <1>1, <1>5 DEF LogFields
  <2> QED
    BY <1>1, <2>1, LogKept DEF Below
<1>6. CASE Mark
  <2>1. PICK i \in DOMAIN l.records : m = [l EXCEPT !.records[i].audited = ~@]
    BY <1>6
  <2> DEFINE r == l.records[i]
             q == [r EXCEPT !.audited = ~@]
  <2>2. Of(r, i, r.outcome)
    BY <1>1 DEF LogHolds
  <2> DEFINE b == ~r.audited
  <2>3. b \in BOOLEAN
    OBVIOUS
  <2> HIDE DEF b
  <2>4. [r EXCEPT !.audited = b] = q
    BY DEF b
  <2>5. Of(q, i, r.outcome)
    BY <2>2, <2>3, <2>4, RecordChanged
  <2>6. m = [l EXCEPT !.records[i] = q]
    BY <2>1
  <2> HIDE DEF q
  <2> QED
    BY <2>5, <2>6, RecordDamaged
<1>7. CASE Part
  <2>1. PICK i \in DOMAIN l.records : \E p : m = [l EXCEPT !.records[i].parts = @ \ {p}]
    BY <1>7
  <2>2. PICK p : m = [l EXCEPT !.records[i].parts = @ \ {p}]
    BY <2>1
  <2> DEFINE r == l.records[i]
             q == [r EXCEPT !.parts = @ \ {p}]
  <2>3. Of(r, i, r.outcome)
    BY <1>1 DEF LogHolds
  <2>4. Of(q, i, r.outcome)
    BY <2>3, RecordChanged
  <2>5. m = [l EXCEPT !.records[i] = q]
    BY <2>2
  <2> HIDE DEF q
  <2> QED
    BY <2>4, <2>5, RecordDamaged
<1>8. CASE Last
  <2> DEFINE n == Len(l.records) - 1
  <2>1. /\ DOMAIN m = LogFields /\ m.chunks = l.chunks /\ m.records = SubSeq(l.records, 1, n)
        /\ m.closing = l.closing /\ m.control = l.control
    BY <1>1, <1>8 DEF LogFields
  <2>2. n \in Nat /\ n <= Len(l.records)
    BY <1>1, <1>8
  <2>3. m.records \in Seq(BookRecords) /\ Len(m.records) = n /\ \A i \in 1 .. n : m.records[i] = l.records[i]
    <3>1. SubSeq(l.records, 1, n) \in Seq(BookRecords) /\ Len(SubSeq(l.records, 1, n)) = n
      BY <1>1, <2>2
    <3>2. \A i \in 1 .. n : SubSeq(l.records, 1, n)[i] = l.records[i]
      BY <1>1, <2>2
    <3> QED
      BY <2>1, <3>1, <3>2
  <2>4. n <= Len(truth)
    BY <1>1 DEF LogHolds
  <2>5. \A i \in 1 .. n : Of(m.records[i], i, m.records[i].outcome)
    <3>1. \A i \in 1 .. Len(l.records) : Of(l.records[i], i, l.records[i].outcome)
      BY DEF LogHolds
    <3>2. \A i \in 1 .. n : i \in 1 .. Len(l.records) /\ m.records[i] = l.records[i]
      BY <1>1, <2>2, <2>3
    <3> HIDE DEF n
    <3> QED
      BY <3>1, <3>2
  <2>6. LogHolds(m)
    <3>1. m.chunks \subseteq BookChunks /\ \A c \in m.chunks : c.seq <= Len(truth) => c.words \in {"junk", Told(c)}
      BY <2>1 DEF LogHolds
    <3> QED
      BY <2>1, <2>3, <2>4, <2>5, <3>1 DEF LogHolds
  <2>7. Below(m, l)
    BY <1>1, <2>1, <2>2, <2>3 DEF Below
  <2> QED
    BY <2>6, <2>7
<1> QED
  BY <1>2, <1>3, <1>4, <1>5, <1>6, <1>7, <1>8

\* What the rules of an accepted record say of it.
LEMMA RecordRules ==
  ASSUME NEW r, RecordVerdict(r) = "ok"
  PROVE  /\ Needs(r.outcome) \subseteq r.parts /\ Forbids(r.outcome) \cap r.parts = {}
         /\ r.outcome \notin {"STOP_LINK2"} \cup Unsigned /\ "oracle" \in r.parts => r.staged = r.commit
         /\ r.outcome \in ArmOutcomes => r.read = r.commit /\ "arm" \in r.parts
<1> DEFINE o == r.outcome
           P1 == Needs(o) \subseteq r.parts /\ Forbids(o) \cap r.parts = {}
           P3 == o \notin {"STOP_LINK2"} \cup Unsigned /\ "oracle" \in r.parts => r.staged = r.commit
           A1 == r.read = r.commit /\ "arm" \in r.parts
           v1 == Rule(P1, "error")
           v3 == Rule(P3, "false")
           a1 == Rule(A1, "error")
           armed == IF o \in ArmOutcomes THEN ArmVerdict(r) ELSE "ok"
<1>1. (v1 = "ok" => P1) /\ (v3 = "ok" => P3) /\ (a1 = "ok" => A1)
  BY DEF Rule
<1>2. PICK x2, x4, x5 : RecordVerdict(r) = First(<<v1, x2, v3, x4, x5, armed>>)
  BY DEF RecordVerdict
<1>3. PICK w : ArmVerdict(r) = First(w) /\ DOMAIN w = 1 .. 9 /\ w[1] = a1
  BY DEF ArmVerdict
<1> DEFINE v == <<v1, x2, v3, x4, x5, armed>>
<1>4. DOMAIN v = 1 .. 6 /\ v[1] = v1 /\ v[3] = v3 /\ v[6] = armed
  OBVIOUS
<1>5. First(v) = "ok"
  BY <1>2
<1> HIDE DEF v, v1, v3, a1
<1>6. \A i \in 1 .. 6 : v[i] = "ok"
  BY <1>4, <1>5, FirstOk
<1>7. ASSUME o \in ArmOutcomes PROVE a1 = "ok"
  <2>1. First(w) = "ok"
    BY <1>3, <1>4, <1>6, <1>7
  <2>2. \A i \in 1 .. 9 : w[i] = "ok"
    BY <1>3, <2>1, FirstOk
  <2> QED
    BY <1>3, <2>2
<1> QED
  BY <1>1, <1>4, <1>6, <1>7

\* What the rules of an accepted, completed log say of its control.
LEMMA ControlRules ==
  ASSUME NEW l, l.kind = "COMPLETED", Control(l) = "ok"
  PROVE  /\ l.control # << >> /\ l.control[1].fault = F_ARM_AUTH /\ l.control[1].nb = Chain(l, Len(l.records))
         /\ Scored(l) # {} /\ LastScored(l).commit = "blank"
<1> DEFINE P1 == l.control # << >>
           P2 == l.control = << >> \/ l.control[1].fault = F_ARM_AUTH
           P3 == l.control = << >> \/ l.control[1].nb = Chain(l, Len(l.records))
           P4 == Scored(l) # {} /\ FirstScored(l).commit = "blank" /\ LastScored(l).commit = "blank"
           v1 == Rule(P1, "error")
           v2 == Rule(P2, "false")
           v3 == Rule(P3, "false")
           v4 == Rule(P4, "error")
           v == <<v1, v2, v3, v4>>
<1>1. (v1 = "ok" => P1) /\ (v2 = "ok" => P2) /\ (v3 = "ok" => P3) /\ (v4 = "ok" => P4)
  BY DEF Rule
<1>2. First(v) = "ok"
  BY DEF Control
<1>3. DOMAIN v = 1 .. 4 /\ v[1] = v1 /\ v[2] = v2 /\ v[3] = v3 /\ v[4] = v4
  OBVIOUS
<1> HIDE DEF v, v1, v2, v3, v4
<1>4. \A i \in 1 .. 4 : v[i] = "ok"
  BY <1>2, <1>3, FirstOk
<1> QED
  BY <1>1, <1>3, <1>4

\* A completed log that is accepted was closed.
LEMMA ClosedRule ==
  ASSUME NEW l, l.kind = "COMPLETED", SummaryVerdict(l) = "ok"
  PROVE  l.closing = Closed
<1> DEFINE P1 == l.kind = "COMPLETED" => l.closing = Closed
           v1 == Rule(P1, "error")
<1>1. v1 = "ok" => P1
  BY DEF Rule
<1>2. PICK x2, x3, x4, x5 : SummaryVerdict(l) = First(<<v1, x2, x3, x4, x5>>)
  BY DEF SummaryVerdict, Closed
<1> DEFINE v == <<v1, x2, x3, x4, x5>>
<1>3. DOMAIN v = 1 .. 5 /\ v[1] = v1 /\ First(v) = "ok"
  BY <1>2
<1> HIDE DEF v, v1
<1>4. \A i \in 1 .. 5 : v[i] = "ok"
  BY <1>3, FirstOk
<1> QED
  BY <1>1, <1>3, <1>4

\* Of the scored records one is the last.
LEMMA LastOfScored ==
  ASSUME NEW n \in Nat, NEW S \in SUBSET (1 .. n), S # {}
  PROVE  /\ (CHOOSE i \in S : \A j \in S : i >= j) \in S
         /\ \A j \in S : (CHOOSE i \in S : \A k \in S : i >= k) >= j
<1> DEFINE D == {n - i : i \in S}
<1>1. D \subseteq Nat /\ D # {}
  <2>1. \A i \in S : i \in 1 .. n /\ n - i \in Nat
    OBVIOUS
  <2> QED
    BY <2>1
<1>2. \E x \in D : \A y \in D : ~(<<y, x>> \in OpToRel(<, Nat))
  BY <1>1, WFMin, NatLessThanWellFounded
<1>3. \A x, y \in Nat : ~(<<y, x>> \in OpToRel(<, Nat)) => x <= y
  BY DEF OpToRel
<1>4. PICK x \in D : \A y \in D : x <= y
  BY <1>1, <1>2, <1>3
<1>5. PICK i \in S : x = n - i
  BY <1>4
<1>6. \A j \in S : i >= j
  <2>1. ASSUME NEW j \in S PROVE i >= j
    <3>1. n - j \in D
      OBVIOUS
    <3>2. n - i <= n - j
      BY <1>4, <1>5, <3>1
    <3>3. i \in Nat /\ j \in Nat
      OBVIOUS
    <3> QED
      BY <3>2, <3>3
  <2> QED
    BY <2>1
<1> QED
  BY <1>6

\* A log that passes is of a whole session.
LEMMA PassIsWhole ==
  ASSUME BooksInv, Validated(log) = "ok", Outcome(log, "ok") = "PASS"
  PROVE  /\ Len(log.records) = N + 2 /\ log.kind = "COMPLETED"
         /\ \A s \in Seqs :
              LET r == log.records[s]
              IN  /\ r.genome = IF IsBracket(s) THEN "blank" ELSE Arm(s)
                  /\ r.outcome = "SCORED" /\ s \in Requested =>
                       r.audited /\ truth[s] = [staged |-> r.commit, read |-> r.commit]
         /\ silicon = Cardinality(Scored(log)) + 1
         /\ log.control[1].fault = F_ARM_AUTH
<1> DEFINE n == Len(log.records)
<1>1. /\ log.kind = "COMPLETED" /\ check_audit_policy(log) /\ check_arm_schedule(log) /\ baseline_findings(log)
  BY DEF Outcome, Contracts, NoFindings
<1>2. /\ log.records \in Seq(BookRecords) /\ n \in Nat /\ DOMAIN log.records = 1 .. n /\ n <= Len(truth)
      /\ \A i \in 1 .. n : Of(log.records[i], i, log.records[i].outcome)
      /\ LogHolds(log) /\ truth \in Seq(Truths) /\ N \in Nat \ {0} /\ silicon \in Nat
  BY BooksAssumption DEF BooksInv, LogHolds
<1>3. /\ SummaryVerdict(log) = "ok" /\ Verify(log) = "ok" /\ Marks(log) /\ Control(log) = "ok"
      /\ \A i \in 1 .. n : RecordVerdict(log.records[i]) = "ok"
  BY <1>2, Accepted
<1>4. log.closing = Closed
  BY <1>1, <1>3, ClosedRule
<1>5. /\ \A i \in 1 .. n : log.records[i].outcome \in Going
      /\ Len(truth) = LastSeq
      /\ log.control # << >> => log.control[1].nb + 1 = silicon
  BY <1>4 DEF BooksInv, EndHolds
<1>6. /\ log.control # << >> /\ log.control[1].fault = F_ARM_AUTH /\ log.control[1].nb = Chain(log, n)
      /\ Scored(log) # {} /\ LastScored(log).commit = "blank"
  BY <1>1, <1>3, ControlRules
<1>7. Scored(log) \in SUBSET (1 .. n)
  BY <1>2 DEF Scored
<1> DEFINE last == CHOOSE i \in Scored(log) : \A j \in Scored(log) : i >= j
<1>8. /\ last \in Scored(log) /\ \A j \in Scored(log) : last >= j
      /\ LastScored(log) = log.records[last]
  BY <1>2, <1>6, <1>7, LastOfScored DEF LastScored
<1> HIDE DEF last
<1>9. last \in 1 .. n /\ last # 1
  <2>1. ASSUME last = 1 PROVE FALSE
    <3>1. Scored(log) \subseteq {1}
      BY <1>2, <1>7, <1>8, <2>1
    <3>2. Cardinality({1}) = 1 /\ IsFiniteSet({1})
      BY FS_Singleton
    <3>3. Cardinality(Scored(log)) <= 1
      BY <3>1, <3>2, FS_Subset
    <3>4. Cardinality(Scored(log)) \in Nat
      BY <3>1, <3>2, FS_Subset, FS_CardinalityType
    <3>5. Cardinality(Scored(log)) >= 2
      BY <1>1 DEF baseline_findings
    <3> QED
      BY <3>3, <3>4, <3>5
  <2> QED
    BY <1>7, <1>8, <2>1
<1>10. \A i \in 1 .. n : log.records[i].seq = i /\ log.records[i].genome = Genome(i) /\ log.records[i].commit = Genome(i)
  BY <1>2 DEF Of
<1>11. ASSUME NEW i \in 1 .. n, ~IsBracket(i)
       PROVE  i \in 2 .. N + 1 /\ log.records[i].genome = Arm(i)
  BY <1>1, <1>2, <1>10, <1>11 DEF check_arm_schedule
<1>12. \A i \in 2 .. N + 1 : Arm(i) # "blank"
  <2>1. plan.mode \in Modes
    BY BooksAssumption DEF BooksInv
  <2>2. \A x : arm_abba(x) \in Arms
    BY DEF arm_abba, Arms
  <2> QED
    BY <1>2, <2>1, <2>2 DEF Arm, schedule, Modes, Arms
<1>13. IsBracket(last)
  BY <1>6, <1>8, <1>9, <1>10, <1>11, <1>12
<1>14. last = N + 2
  BY <1>9, <1>13 DEF IsBracket, baseline_seqs
<1>15. n = N + 2 /\ LastSeq = N + 2
  BY <1>2, <1>5, <1>9, <1>14 DEF LastSeq
<1>16. ASSUME NEW s \in Seqs
       PROVE  log.records[s].genome = IF IsBracket(s) THEN "blank" ELSE Arm(s)
  <2>1. s \in 1 .. n
    BY <1>15 DEF Seqs, all_seqs
  <2>2. IsBracket(s) => Genome(s) = "blank"
    BY <1>15 DEF IsBracket, baseline_seqs, Genome, Blank
  <2> QED
    BY <1>10, <1>11, <2>1, <2>2
<1>17. ASSUME NEW s \in Seqs, log.records[s].outcome = "SCORED", s \in Requested
       PROVE  /\ log.records[s].audited
              /\ truth[s] = [staged |-> log.records[s].commit, read |-> log.records[s].commit]
  <2> DEFINE r == log.records[s]
  <2>1. s \in 1 .. n
    BY <1>15 DEF Seqs, all_seqs
  <2>2. /\ Needs(r.outcome) \subseteq r.parts
        /\ r.outcome \notin {"STOP_LINK2"} \cup Unsigned /\ "oracle" \in r.parts => r.staged = r.commit
        /\ r.outcome \in ArmOutcomes => r.read = r.commit
    BY <1>3, <2>1, RecordRules
  <2>3. "oracle" \in r.parts
    BY <1>17, <2>2 DEF Needs
  <2>4. r.staged = r.commit /\ r.read = r.commit
    BY <1>17, <2>2, <2>3 DEF Unsigned, ArmOutcomes
  <2>5. self_report_class(r) = "scored"
    BY <1>17, <2>3 DEF self_report_class, Unsigned
  <2>6. r.audited
    BY <1>1, <1>2, <1>3, <1>10, <1>17, <2>1, <2>5 DEF check_audit_policy, Marks
  <2>7. truth[s] = [staged |-> r.staged, read |-> r.read]
    BY <1>2, <1>17, <2>1, <2>6, AcceptedIsTrue
  <2> QED
    BY <2>4, <2>6, <2>7
<1>18. Chain(log, n) = Cardinality(Scored(log))
  <2>1. ASSUME NEW j \in 1 .. n
        PROVE  Consumed(log.records[j]) <=> log.records[j].outcome = "SCORED"
    <3> DEFINE r == log.records[j]
    <3>1. Forbids(r.outcome) \cap r.parts = {} /\ (r.outcome \in ArmOutcomes => "arm" \in r.parts)
      BY <1>3, RecordRules
    <3>2. r.outcome \in Going
      BY <1>5
    <3>3. r.outcome = "REFUSED_BY_GATE" => "arm" \notin r.parts
      BY <3>1 DEF Forbids, Unsigned
    <3>4. r.outcome = "SCORED" => "arm" \in r.parts
      BY <3>1 DEF ArmOutcomes
    <3> QED
      BY <3>2, <3>3, <3>4 DEF Consumed, Going
  <2>2. {j \in 1 .. n : Consumed(log.records[j])} = Scored(log)
    BY <1>2, <2>1 DEF Scored
  <2> QED
    BY <2>2 DEF Chain
<1>19. silicon = Cardinality(Scored(log)) + 1
  BY <1>5, <1>6, <1>18
<1> QED
  BY <1>1, <1>6, <1>15, <1>16, <1>17, <1>19

\* Damage to the books, and what is concluded from them.
LEMMA JudgeStep ==
  ASSUME BooksInv, Damage \/ Adjudicate
  PROVE  BooksInv'
<1>1. CASE Damage
  <2>1. UNCHANGED <<plan, fault, silicon, truth, pc>> /\ pc = "ended" /\ log' \in Damaged(log)
    BY <1>1 DEF Damage
  <2>2. LogHolds(log') /\ Below(log', log)
    BY <2>1, DamageHolds DEF BooksInv
  <2>3. LogHolds(log)'
    BY <2>1, <2>2, LogMoves
  <2>4. LastSeq' = LastSeq
    BY <2>1 DEF LastSeq, Early
  <2>5. Len(log'.records) \in Nat /\ Len(log.records) \in Nat
    BY <2>2 DEF BooksInv, LogHolds
  <2>6. EndHolds'
    <3>1. log'.closing = Closed => log.closing = Closed
      BY <2>2 DEF Below
    <3>2. log'.closing = Closed => \A i \in 1 .. Len(log'.records) : log'.records[i].outcome \in Going
      <4>1. log.closing = Closed => \A i \in 1 .. Len(log.records) : log.records[i].outcome \in Going
        BY DEF BooksInv, EndHolds
      <4>2. \A i \in 1 .. Len(log'.records) : i \in 1 .. Len(log.records) /\ log'.records[i].outcome = log.records[i].outcome
        BY <2>2, <2>5 DEF Below
      <4> QED
        BY <3>1, <4>1, <4>2
    <3>3. log'.closing = Closed => Len(truth') = LastSeq'
      BY <2>1, <2>4, <3>1 DEF BooksInv, EndHolds
    <3>4. log'.closing = Closed /\ log'.control # << >> => log'.control[1].nb + 1 = silicon'
      <4>1. log'.control # << >> => log'.control = log.control
        BY <2>2 DEF Below
      <4> QED
        BY <2>1, <3>1, <4>1 DEF BooksInv, EndHolds
    <3> QED
      BY <2>1, <3>2, <3>3, <3>4 DEF EndHolds, Open
  <2> QED
    BY <2>1, <2>3, <2>6 DEF BooksInv, AuditedIsTrue, PassMeansWhole, Judged, Open
<1>2. CASE Adjudicate
  <2>1. /\ UNCHANGED <<plan, fault, silicon, truth, log>> /\ pc = "ended" /\ pc' = "judged"
        /\ verdict' = Validated(log) /\ outcome' = Outcome(log, verdict')
    BY <1>2 DEF Adjudicate
  <2>2. truth \in Seq(Truths) /\ LogHolds(log)
    BY DEF BooksInv
  <2>3. Validated(log) = "ok" => \A s \in DOMAIN log.records : log.records[s].audited =>
          IF log.records[s].outcome = "STOP_LINK2" THEN truth[s].staged # log.records[s].commit
          ELSE truth[s] = [staged |-> log.records[s].staged, read |-> log.records[s].read]
    BY <2>2, AcceptedIsTrue
  <2>4. AuditedIsTrue'
    BY <2>1, <2>3 DEF AuditedIsTrue, Judged
  <2>5. LogHolds(log)'
    BY <2>1, <2>2, LogMoves
  <2>6. LastSeq' = LastSeq
    BY <2>1 DEF LastSeq, Early
  <2>7. EndHolds'
    BY <2>1, <2>6 DEF BooksInv, EndHolds, Open
  <2>8. outcome' = "PASS" => Validated(log) = "ok" /\ Outcome(log, "ok") = "PASS"
    BY <2>1 DEF Outcome
  <2>9. PassMeansWhole'
    <3>1. /\ Seqs' = Seqs /\ Requested' = Requested /\ Scored(log)' = Scored(log)
          /\ \A s : IsBracket(s)' = IsBracket(s) /\ Arm(s)' = Arm(s)
      BY <2>1 DEF Seqs, Requested, Scored, IsBracket, Arm
    <3> QED
      BY <2>1, <2>8, <3>1, PassIsWhole DEF PassMeansWhole, Judged
  <2> QED
    BY <2>1, <2>4, <2>5, <2>7, <2>9 DEF BooksInv, Open
<1> QED
  BY <1>1, <1>2

\* The books before a session.
LEMMA InitBooks ==
  ASSUME BooksInit
  PROVE  BooksInv
<1>1. DOMAIN log = LogFields /\ log.records = << >> /\ log.chunks = {} /\ log.closing = {} /\ log.control = << >>
  BY DEF BooksInit, EmptyLog, LogFields
<1>2. plan \in Plans /\ silicon = 0 /\ truth = << >> /\ pc = "run"
  BY DEF BooksInit
<1>3. LogHolds(log)
  BY <1>1, <1>2 DEF LogHolds
<1>4. EndHolds
  BY <1>1, <1>2 DEF EndHolds, Open, Closed
<1> QED
  BY <1>1, <1>2, <1>3, <1>4 DEF BooksInv, AuditedIsTrue, PassMeansWhole, Judged, Open

\* Every step of a session, of the damage and of the judgement.
LEMMA BooksHold == BooksSpec => []BooksInv
<1>1. BooksInit => BooksInv
  BY InitBooks
<1>2. BooksInv /\ [BooksNext]_booksVars => BooksInv'
  <2> SUFFICES ASSUME BooksInv, [BooksNext]_booksVars PROVE BooksInv'
    OBVIOUS
  <2>1. ASSUME NEW s \in Seqs, Candidate(s) PROVE BooksInv'
    BY <2>1, CandidateFiles, ScoreStep, RefusedStep, StopStep, EndStep
  <2>2. CASE CloseSession \/ EndStopped
    BY <2>2, EndStep
  <2>3. CASE Crash
    BY <2>3, CrashStep
  <2>4. CASE Damage \/ Adjudicate
    BY <2>4, JudgeStep
  <2>5. CASE UNCHANGED booksVars
    <3>1. UNCHANGED <<plan, fault, silicon, truth, log, pc, verdict, outcome>>
      BY <2>5 DEF booksVars
    <3>2. LogHolds(log)'
      BY <3>1, LogMoves DEF BooksInv
    <3>3. EndHolds'
      <4>1. LastSeq' = LastSeq
        BY <3>1 DEF LastSeq, Early
      <4> QED
        BY <3>1, <4>1 DEF BooksInv, EndHolds
    <3>4. AuditedIsTrue'
      BY <3>1 DEF BooksInv, AuditedIsTrue, Judged
    <3>5. PassMeansWhole'
      <4>1. /\ Seqs' = Seqs /\ Requested' = Requested /\ Scored(log)' = Scored(log)
            /\ \A s : IsBracket(s)' = IsBracket(s) /\ Arm(s)' = Arm(s)
        BY <3>1 DEF Seqs, Requested, Scored, IsBracket, Arm
      <4> QED
        BY <3>1, <4>1 DEF BooksInv, PassMeansWhole, Judged
    <3> QED
      BY <3>1, <3>2, <3>3, <3>4, <3>5 DEF BooksInv
  <2> QED
    BY <2>1, <2>2, <2>3, <2>4, <2>5 DEF BooksNext
<1> QED
  BY <1>1, <1>2, PTL DEF BooksSpec

\* Whatever the board did wrong and however often the books were damaged on
\* their way, in a log the validators accept a record marked audited says
\* what was really staged and read back (validators/audit.py:390).
THEOREM AuditedHolds == BooksSpec => []AuditedIsTrue
<1>1. BooksInv => AuditedIsTrue
  BY DEF BooksInv
<1> QED
  BY <1>1, BooksHold, PTL

\* Whatever the board did wrong and however often the books were damaged on
\* their way, a PASS is a whole session of the scheduled candidates, whose
\* audits found what was signed, with every consumed ARM in the chain and the
\* unsigned one refused (host/l6_runner.py:449).
THEOREM PassHolds == BooksSpec => []PassMeansWhole
<1>1. BooksInv => PassMeansWhole
  BY DEF BooksInv
<1> QED
  BY <1>1, BooksHold, PTL

-----------------------------------------------------------------------------
(* What the verdicts are worth on the books of one session: no sound        *)
(* session is a KILL, and a session whose books are whole is judged by what *)
(* its board did.                                                           *)

\* A record that consumed an ARM, and how many did before a candidate.
Used(r) == r.outcome \in {"REFUSED_BY_PL", "SCORED"} \/ (r.outcome = "STOP_SETTLE" /\ r.na # r.nb)
Spent(l, i) == Cardinality({j \in 1 .. i : Used(l.records[j])})

\* A record a sound board can leave of a candidate with that truth.
Fits(r, t) ==
  /\ r.outcome \in {"REFUSED_BY_PL", "SCORED"} => r.na = r.nb + 1
  /\ r.outcome = "STOP_SETTLE" => r.na \in {r.nb, r.nb + 1}
  /\ r.outcome = "SCORED" => r.hw = r.commit /\ r.tables = r.commit
  /\ r.outcome \notin {"STOP_LINK2"} \cup Unsigned => r.staged = r.commit
  /\ t.staged # "junk"
  /\ IF r.outcome = "STOP_LINK2" THEN t.staged # r.commit ELSE t.staged = r.staged /\ t.read = r.read

\* The words pulled are the truth, and the signed nonce is the record's.
TrueWords(l) == \A c \in l.chunks : c.seq <= Len(truth) => c.words = Told(c)
Names(l, i) == \A e \in l.entries : e.seq = i => e.nonce = l.records[i].nb

\* Books that no rule can find false, and books with all of their words.
Harmless(l) ==
  /\ \A i \in 1 .. Len(l.records) :
       Fits(l.records[i], truth[i]) /\ l.records[i].nb = Spent(l, i - 1) /\ Names(l, i)
  /\ Assembled(l.chunks) => TrueWords(l)
  /\ l.control # << >> =>
       /\ l.control[1].fault = F_ARM_AUTH
       /\ l.control[1].nb = Spent(l, Len(l.records)) \/ (l.by = "app" /\ Orphans(l) # {})

Kept(l) ==
  /\ TrueWords(l) /\ Len(l.records) = Len(truth)
  /\ l.control # << >> =>
       /\ l.by = "app" /\ l.control[1].nb = Spent(l, Len(l.records))
       /\ \E e \in l.entries : e.seq = Len(l.records)

\* What is true of a session whose board does nothing that falsifies the
\* claim, until the second damage to its books.
SoundInv ==
  fault.kind \notin Falsifiers =>
    /\ damages \in Nat /\ (pc \in Open => damages = 0)
    /\ damages <= 1 => Harmless(log)
    /\ damages = 0 => Kept(log)
    /\ pc \in {"run", "control"} => silicon = Spent(log, Len(log.records))
    /\ pc = "run" => \A e \in log.entries : e.seq \in 1 .. Len(log.records)
    /\ pc = "control" => \E e \in log.entries : e.seq = Len(log.records)
    /\ damages <= 1 => KillNeedsAFalsifier

\* The record of a candidate, as a board with one fault files it.
Answer(r) == IF r.outcome = "SCORED" THEN "reply" ELSE "refusal"
Lost(s) == CASE Bites("beat", s) -> 1 [] Bites("beats", s) -> 2 [] OTHER -> 0
FiledAs(l, i) ==
  LET r == l.records[i]
  IN  /\ Of(r, i, r.outcome) /\ r.outcome \in Going /\ r.arm = Label(i)
      /\ r.outcome = "SCORED" => ScoredAs(r, i)
      /\ r.outcome # "SCORED" => RefusedAs(r, i)
      /\ [seq |-> i, answer |-> Answer(r), commit |-> Genome(i), nonce |-> r.nb] \in l.entries
      /\ fault.kind # "nonce" => r.nb = Spent(l, i - 1)
      /\ l.missed[i] = Lost(i)

\* The books of a session that has neither stopped nor been damaged.
Unspoilt(l) ==
  LET n == Len(l.records)
  IN  /\ n \in Nat /\ DOMAIN l.records = 1 .. n /\ n <= LastSeq
      /\ \A i \in 1 .. n : FiledAs(l, i)
      /\ \A c \in l.chunks : c.seq \in Scored(l) /\ c \in AuditOf(c.seq, Real(c.seq))
      /\ \A i \in Scored(l) : AuditOf(i, Real(i)) \subseteq l.chunks
      /\ \A e \in l.entries : e.seq \in 1 .. n
      /\ l.asked = 1 .. n /\ l.signs = 1 .. n /\ l.recs = 1 .. n

\* What the session was given, and what its end summed up.
Given(l) ==
  /\ l.ident = IF fault.kind = "ident" THEN [Page EXCEPT !.schedule_mode = "other"] ELSE Page
  /\ l.retried = (fault.kind # "control")
  /\ l.dropped = IF fault.kind = "drops" THEN DropBudget + 1 ELSE DropBudget
  /\ DOMAIN l.missed = 1 .. N + 3

Summed(l) ==
  /\ l.kind = "COMPLETED" /\ l.by = "app" /\ l.closing = Closed /\ Len(l.records) = LastSeq
  /\ l.audited = BoardAudited(l) + (IF fault.kind = "count" THEN 1 ELSE 0) /\ l.total = Len(l.records)
  /\ l.control # << >> /\ l.control[1].fault = (IF fault.kind = "refusal" THEN F_ARM_AUTH + 1 ELSE F_ARM_AUTH)
  /\ fault.kind # "nonce" => l.control[1].nb = Spent(l, Len(l.records))

\* What is true of a session whose books nothing damaged.
WholeInv ==
  /\ pc \in Open => damages = 0 /\ Given(log) /\ log.kind = "none"
  /\ pc \in {"run", "control"} =>
       Unspoilt(log) /\ (fault.kind # "nonce" => silicon = Spent(log, Len(log.records)))
  /\ pc \in {"ended", "judged"} /\ damages = 0 /\ log.kind = "COMPLETED" => Given(log) /\ Unspoilt(log) /\ Summed(log)
  /\ HonestIsJudgedByItsEnd /\ FalsifierIsKilled

\* The books of a session that ran to its end.
Finished(l) == plan \in Plans /\ Unspoilt(l) /\ Given(l) /\ Summed(l)

\* The first broken rule gives the verdict.
LEMMA FirstIs ==
  ASSUME NEW n \in Nat, NEW v, DOMAIN v = 1 .. n, NEW k \in 1 .. n, \A i \in 1 .. n : i < k => v[i] = "ok", v[k] # "ok"
  PROVE  First(v) = v[k]
<1> DEFINE broken == {i \in DOMAIN v : v[i] # "ok"}
           least == CHOOSE i \in broken : \A j \in broken : i <= j
<1>1. k \in broken /\ \A j \in broken : j \in 1 .. n /\ k <= j
  <2>1. \A j \in broken : j \in 1 .. n /\ ~(j < k)
    OBVIOUS
  <2> QED
    BY <2>1
<1>2. First(v) = v[least]
  BY <1>1 DEF First
<1>3. least \in broken /\ \A j \in broken : least <= j
  BY <1>1
<1> HIDE DEF broken, least
<1>4. least <= k /\ k <= least /\ least \in 1 .. n
  BY <1>1, <1>3
<1> QED
  BY <1>2, <1>4

\* Rules that all hold give no verdict.
LEMMA AllOk ==
  ASSUME NEW n \in Nat, NEW v, DOMAIN v = 1 .. n, \A i \in 1 .. n : v[i] = "ok"
  PROVE  First(v) = "ok"
BY DEF First

\* If no rule is broken as false before another is broken, the verdict is not false.
LEMMA FirstNotFalse ==
  ASSUME NEW n \in Nat, NEW v, DOMAIN v = 1 .. n,
         \A k \in 1 .. n : v[k] = "false" => \E i \in 1 .. k - 1 : v[i] # "ok"
  PROVE  First(v) # "false"
<1> DEFINE broken == {i \in DOMAIN v : v[i] # "ok"}
           least == CHOOSE i \in broken : \A j \in broken : i <= j
<1>1. CASE broken = {}
  BY <1>1 DEF First
<1>2. CASE broken # {}
  <2>1. broken \subseteq Nat
    OBVIOUS
  <2>2. \E x \in broken : \A y \in broken : ~(<<y, x>> \in OpToRel(<, Nat))
    BY <1>2, <2>1, WFMin, NatLessThanWellFounded
  <2>3. \A x, y \in Nat : ~(<<y, x>> \in OpToRel(<, Nat)) => x <= y
    BY DEF OpToRel
  <2>4. \E x \in broken : \A y \in broken : x <= y
    BY <2>1, <2>2, <2>3
  <2>5. least \in broken /\ \A j \in broken : least <= j
    BY <2>4
  <2>6. First(v) = v[least]
    BY <1>2 DEF First
  <2>7. \A i \in 1 .. n : v[i] # "ok" => i \in broken
    OBVIOUS
  <2>8. least \in 1 .. n
    BY <2>5
  <2> HIDE DEF broken, least
  <2>9. ASSUME v[least] = "false" PROVE FALSE
    <3>1. PICK i \in 1 .. least - 1 : v[i] # "ok"
      BY <2>8, <2>9
    <3>2. i \in 1 .. n
      BY <2>8
    <3>3. least <= i
      BY <2>5, <2>7, <3>1, <3>2
    <3> QED
      BY <2>8, <3>1, <3>3
  <2> QED
    BY <2>6, <2>9
<1> QED
  BY <1>1, <1>2

\* If that rule falsifies, so does the verdict.
LEMMA FirstFalse ==
  ASSUME NEW n \in Nat, NEW v, DOMAIN v = 1 .. n, NEW k \in 1 .. n, \A i \in 1 .. n : i < k => v[i] = "ok", v[k] = "false"
  PROVE  First(v) = "false"
BY FirstIs

\* What the rules of a record ask of its parts when they all hold.
LEMMA PartsRule ==
  ASSUME NEW r, RecordVerdict(r) = "ok", r.outcome \in Outcomes
  PROVE  Consumed(r) <=> Used(r)
<1> DEFINE o == r.outcome
           P1 == Needs(o) \subseteq r.parts /\ Forbids(o) \cap r.parts = {}
           P5 == o = "STOP_LINK3" => {"arm", "score"} \cap r.parts = {} /\ r.read # r.commit
           v1 == Rule(P1, "error")
           v5 == Rule(P5, "error")
           armed == IF o \in ArmOutcomes THEN ArmVerdict(r) ELSE "ok"
<1>1. v5 = "ok" => P5
  BY DEF Rule
<1>2. PICK x2, x3, x4 : RecordVerdict(r) = First(<<v1, x2, x3, x4, v5, armed>>)
  BY DEF RecordVerdict
<1> DEFINE v == <<v1, x2, x3, x4, v5, armed>>
<1>3. DOMAIN v = 1 .. 6 /\ v[5] = v5 /\ First(v) = "ok"
  BY <1>2
<1> HIDE DEF v, v1, v5
<1>4. \A i \in 1 .. 6 : v[i] = "ok"
  BY <1>3, FirstOk
<1>5. o = "STOP_LINK3" => "arm" \notin r.parts
  BY <1>1, <1>3, <1>4
<1>6. Forbids(o) \cap r.parts = {} /\ (o \in ArmOutcomes => "arm" \in r.parts)
  BY RecordRules
<1>7. o \notin ArmOutcomes => "arm" \notin r.parts
  BY <1>5, <1>6 DEF Forbids, Unsigned, Outcomes
<1> QED
  BY <1>6, <1>7 DEF Consumed, Used, ArmOutcomes

\* In a log whose records keep their rules the chain counts what was spent.
LEMMA ChainIsSpent ==
  ASSUME NEW l, NEW n \in Nat, \A i \in 1 .. n : RecordVerdict(l.records[i]) = "ok" /\ l.records[i].outcome \in Outcomes,
         NEW i \in 0 .. n
  PROVE  Chain(l, i) = Spent(l, i)
<1>1. \A j \in 1 .. i : Consumed(l.records[j]) <=> Used(l.records[j])
  BY PartsRule
<1>2. {j \in 1 .. i : Consumed(l.records[j])} = {j \in 1 .. i : Used(l.records[j])}
  BY <1>1
<1> QED
  BY <1>2 DEF Chain, Spent

\* A record that fits is not judged false.
LEMMA RecordNotFalse ==
  ASSUME NEW r, NEW t, Fits(r, t)
  PROVE  RecordVerdict(r) # "false"
<1> DEFINE o == r.outcome
           spends == o \in {"REFUSED_BY_PL", "SCORED"}
           P3 == o \notin {"STOP_LINK2"} \cup Unsigned /\ "oracle" \in r.parts => r.staged = r.commit
           A3 == o = "STOP_SETTLE" => r.na \in {r.nb, r.nb + 1}
           A6 == spends => r.na = r.nb + 1
           A9 == o = "SCORED" => r.hw = r.commit /\ r.tables = r.commit
           armed == IF o \in ArmOutcomes THEN ArmVerdict(r) ELSE "ok"
<1>1. P3 /\ A3 /\ A6 /\ A9
  BY DEF Fits
<1>2. \A p : Rule(p, "error") # "false"
  BY DEF Rule
<1>3. Rule(P3, "false") = "ok" /\ Rule(A3, "false") = "ok" /\ Rule(A6, "false") = "ok" /\ Rule(A9, "false") = "ok"
  BY <1>1 DEF Rule
<1>4. ArmVerdict(r) # "false"
  <2>1. PICK w : /\ ArmVerdict(r) = First(w) /\ DOMAIN w = 1 .. 9
                 /\ w[3] = Rule(A3, "false") /\ w[6] = Rule(A6, "false") /\ w[9] = Rule(A9, "false")
                 /\ \A i \in {1, 2, 4, 5, 7, 8} : \E p : w[i] = Rule(p, "error")
    BY DEF ArmVerdict
  <2>2. \A i \in 1 .. 9 : w[i] # "false"
    <3>1. \A i \in 1 .. 9 : i \in {3, 6, 9} \/ i \in {1, 2, 4, 5, 7, 8}
      OBVIOUS
    <3>2. w[3] # "false" /\ w[6] # "false" /\ w[9] # "false"
      BY <1>3, <2>1
    <3>3. \A i \in {1, 2, 4, 5, 7, 8} : w[i] # "false"
      BY <1>2, <2>1
    <3> HIDE DEF A3, A6, A9, P3, armed, spends, o
    <3> QED
      BY <3>1, <3>2, <3>3
  <2>3. DOMAIN w = 1 .. 9 /\ \A k \in 1 .. 9 : w[k] = "false" => \E i \in 1 .. k - 1 : w[i] # "ok"
    BY <2>1, <2>2
  <2>4. First(w) # "false"
    BY <2>3, FirstNotFalse
  <2> QED
    BY <2>1, <2>4
<1>5. armed # "false"
  BY <1>4
<1>6. PICK v : /\ RecordVerdict(r) = First(v) /\ DOMAIN v = 1 .. 6
               /\ v[3] = Rule(P3, "false") /\ v[6] = armed
               /\ \A i \in {1, 2, 4, 5} : \E p : v[i] = Rule(p, "error")
  BY DEF RecordVerdict
<1>7. \A i \in 1 .. 6 : v[i] # "false"
  <2>1. \A i \in 1 .. 6 : i \in {3, 6} \/ i \in {1, 2, 4, 5}
    OBVIOUS
  <2> HIDE DEF P3, armed
  <2> QED
    BY <1>2, <1>3, <1>5, <1>6, <2>1
<1> QED
  BY <1>6, <1>7, FirstNotFalse

\* A chunk that was served is found.
LEMMA ChunkFound ==
  ASSUME NEW l, Assembled(l.chunks), NEW s, s \in Served(l)
  PROVE  \A k \in {0, 1} : k = 0 \/ Span(l, s) = "full" =>
           \E c \in l.chunks : c.seq = s /\ c.k = k /\ Words(l, s, k) = c.words
<1>1. \E c \in l.chunks : c.seq = s
  BY DEF Served
<1> DEFINE c0 == CHOOSE c \in l.chunks : c.seq = s
<1>2. c0 \in l.chunks /\ c0.seq = s /\ Span(l, s) = c0.span
  BY <1>1 DEF Span
<1> HIDE DEF c0
<1>3. {d.k : d \in {e \in l.chunks : e.seq = s}} = Whole(c0.span)
  BY <1>2 DEF Assembled
<1>4. ASSUME NEW k \in Whole(c0.span)
      PROVE  \E c \in l.chunks : c.seq = s /\ c.k = k /\ Words(l, s, k) = c.words
  <2>1. \E d \in l.chunks : d.seq = s /\ d.k = k
    BY <1>3, <1>4
  <2> DEFINE d == CHOOSE c \in l.chunks : c.seq = s /\ c.k = k
  <2>2. d \in l.chunks /\ d.seq = s /\ d.k = k /\ Words(l, s, k) = d.words
    BY <2>1 DEF Words
  <2> HIDE DEF d
  <2> QED
    BY <2>2
<1>5. 0 \in Whole(c0.span) /\ (c0.span = "full" => 1 \in Whole(c0.span))
  BY DEF Whole
<1> QED
  BY <1>2, <1>4, <1>5

\* The words of a chunk that was not spoiled are what was staged and read.
LEMMA TrueFound ==
  ASSUME truth \in Seq(Truths), NEW l, TrueWords(l), Assembled(l.chunks), NEW s \in 1 .. Len(truth), s \in Served(l)
  PROVE  /\ Words(l, s, 0) = truth[s].staged
         /\ Span(l, s) = "full" => Words(l, s, 1) = truth[s].read
<1>1. \A k \in {0, 1} : k = 0 \/ Span(l, s) = "full" =>
        \E c \in l.chunks : c.seq = s /\ c.k = k /\ Words(l, s, k) = c.words
  BY ChunkFound
<1>2. \A c \in l.chunks : c.seq = s => c.words = Told(c)
  BY DEF TrueWords
<1> QED
  BY <1>1, <1>2 DEF Told

\* No audit of a log that fits is judged false.
LEMMA VerifyNotFalse ==
  ASSUME truth \in Seq(Truths), NEW l, LogHolds(l), Assembled(l.chunks) => TrueWords(l),
         \A i \in 1 .. Len(l.records) : Fits(l.records[i], truth[i])
  PROVE  Verify(l) # "false"
<1> DEFINE n == Len(l.records)
           e == [i \in 1 .. n |-> IF l.records[i].seq \in Served(l) /\ Assembled(l.chunks)
                                    THEN WordsVerdict(l, l.records[i]) ELSE "ok"]
<1>1. n \in Nat /\ n <= Len(truth) /\ \A i \in 1 .. n : l.records[i].seq = i
  BY DEF LogHolds, Of
<1>2. ASSUME NEW i \in 1 .. n, i \in Served(l), Assembled(l.chunks)
      PROVE  WordsVerdict(l, l.records[i]) # "false"
  <2> DEFINE r == l.records[i]
             link2 == r.outcome = "STOP_LINK2"
             P2 == Words(l, r.seq, 0) # "junk"
             P3 == link2 => Words(l, r.seq, 0) # r.commit
             P4 == ~link2 => Words(l, r.seq, 0) = r.staged
             P5 == ~link2 /\ Span(l, r.seq) = "full" => Words(l, r.seq, 1) = r.read
  <2>1. i \in 1 .. Len(truth)
    BY <1>1
  <2>2. Words(l, i, 0) = truth[i].staged /\ (Span(l, i) = "full" => Words(l, i, 1) = truth[i].read)
    BY <1>2, <2>1, TrueFound
  <2>3. r.seq = i /\ Fits(r, truth[i])
    BY <1>1
  <2>4. P2 /\ P3 /\ P4 /\ P5
    BY <2>2, <2>3 DEF Fits
  <2>5. PICK v, p : /\ WordsVerdict(l, r) = First(v) /\ DOMAIN v = 1 .. 5 /\ v[1] = Rule(p, "error")
                    /\ v[2] = Rule(P2, "false") /\ v[3] = Rule(P3, "false") /\ v[4] = Rule(P4, "false")
                    /\ v[5] = Rule(P5, "false")
    BY DEF WordsVerdict
  <2> HIDE DEF P2, P3, P4, P5, r
  <2>6. v[1] # "false" /\ v[2] = "ok" /\ v[3] = "ok" /\ v[4] = "ok" /\ v[5] = "ok"
    BY <2>4, <2>5 DEF Rule
  <2>7. \A k \in 1 .. 5 : v[k] # "false"
    <3>1. \A k \in 1 .. 5 : k = 1 \/ k = 2 \/ k = 3 \/ k = 4 \/ k = 5
      OBVIOUS
    <3> QED
      BY <2>6, <3>1
  <2> QED
    BY <2>5, <2>7, FirstNotFalse DEF r
<1>3. DOMAIN e = 1 .. n /\ \A i \in 1 .. n : e[i] # "false"
  BY <1>1, <1>2
<1>4. PICK p1, p2 : Verify(l) = First(<<Rule(p1, "error"), Rule(p2, "error"), First(e)>>)
  BY DEF Verify, Each
<1> HIDE DEF e
<1>5. First(e) # "false"
  BY <1>1, <1>3, FirstNotFalse
<1> DEFINE v == <<Rule(p1, "error"), Rule(p2, "error"), First(e)>>
<1>6. DOMAIN v = 1 .. 3 /\ v[1] # "false" /\ v[2] # "false" /\ v[3] # "false"
  BY <1>5 DEF Rule
<1>7. First(v) = Verify(l)
  BY <1>4
<1> HIDE DEF v
<1>8. \A k \in 1 .. 3 : v[k] # "false"
  <2>1. \A k \in 1 .. 3 : k = 1 \/ k = 2 \/ k = 3
    OBVIOUS
  <2> QED
    BY <1>6, <2>1
<1> QED
  BY <1>6, <1>7, <1>8, FirstNotFalse

\* No rule of the chain is broken as false in a log that fits.
LEMMA BoundNotFalse ==
  ASSUME NEW l, NEW n \in Nat, \A i \in 1 .. n : RecordVerdict(l.records[i]) = "ok" /\ l.records[i].outcome \in Outcomes,
         NEW i \in 1 .. n, l.records[i].seq = i, l.records[i].nb = Spent(l, i - 1), Names(l, i)
  PROVE  Bound(l, i) # "false"
<1> DEFINE r == l.records[i]
           o == r.outcome
           armed == o \notin Unsigned /\ "arm" \in r.parts
           P1 == o = "STOP_SIGN" => i = Len(l.records)
           P2 == o = "REFUSED_BY_GATE" => \E e \in l.entries : e.seq = r.seq /\ e.answer = "refusal"
           P3 == o \notin Unsigned => \E e \in l.entries : e.seq = r.seq /\ e.answer = "reply" /\ e.commit = r.commit
           P4 == armed => \E e \in l.entries : e.seq = r.seq /\ e.nonce = r.nb
           P5 == armed => r.nb = Chain(l, i - 1)
           v == <<Rule(P1, "error"), Rule(P2, "error"), Rule(P3, "error"), Rule(P4, "false"), Rule(P5, "false")>>
<1>1. P3 => P4
  BY DEF Names
<1>2. P5
  <2>1. i - 1 \in 0 .. n
    OBVIOUS
  <2> QED
    BY <2>1, ChainIsSpent
<1>3. Bound(l, i) = First(v)
  BY DEF Bound
<1> HIDE DEF P1, P2, P3, P4, P5
<1>6. /\ DOMAIN v = 1 .. 5 /\ v[1] = Rule(P1, "error") /\ v[2] = Rule(P2, "error") /\ v[3] = Rule(P3, "error")
      /\ v[4] = Rule(P4, "false") /\ v[5] = Rule(P5, "false")
  OBVIOUS
<1> HIDE DEF v
<1>4. v[1] # "false" /\ v[2] # "false" /\ v[3] # "false" /\ (v[4] = "false" => v[3] # "ok") /\ v[5] # "false"
  BY <1>1, <1>2, <1>6 DEF Rule
<1>5. \A k \in 1 .. 5 : v[k] = "false" => \E j \in 1 .. k - 1 : v[j] # "ok"
  <2>1. \A k \in 1 .. 5 : k = 1 \/ k = 2 \/ k = 3 \/ k = 4 \/ k = 5
    OBVIOUS
  <2>2. 3 \in 1 .. 4 - 1
    OBVIOUS
  <2> QED
    BY <1>4, <2>1, <2>2
<1> QED
  BY <1>3, <1>5, <1>6, FirstNotFalse

\* Nor is the control of one, unless a signature lacks its record.
LEMMA ControlNotFalse ==
  ASSUME NEW l, Len(l.records) \in Nat, LogHolds(l), Harmless(l), l.by = "app" => Orphans(l) = {},
         \A i \in 1 .. Len(l.records) : RecordVerdict(l.records[i]) = "ok"
  PROVE  Control(l) # "false"
<1> DEFINE n == Len(l.records)
           P2 == l.control = << >> \/ l.control[1].fault = F_ARM_AUTH
           P3 == l.control = << >> \/ l.control[1].nb = Chain(l, n)
<1>1. \A i \in 1 .. n : l.records[i].outcome \in Outcomes
  BY DEF LogHolds, Of, BookRecords
<1>2. Chain(l, n) = Spent(l, n)
  <2>1. n \in 0 .. n
    OBVIOUS
  <2> QED
    BY <1>1, <2>1, ChainIsSpent
<1>3. P2 /\ P3
  BY <1>2 DEF Harmless
<1>4. CASE l.kind = "COMPLETED"
  <2> DEFINE P1 == l.control # << >>
             P4 == Scored(l) # {} /\ FirstScored(l).commit = "blank" /\ LastScored(l).commit = "blank"
             v == <<Rule(P1, "error"), Rule(P2, "false"), Rule(P3, "false"), Rule(P4, "error")>>
  <2>1. Control(l) = First(v)
    BY <1>4 DEF Control
  <2> HIDE DEF P1, P2, P3, P4
  <2>4. DOMAIN v = 1 .. 4 /\ v[1] = Rule(P1, "error") /\ v[2] = Rule(P2, "false")
      /\ v[3] = Rule(P3, "false") /\ v[4] = Rule(P4, "error")
    OBVIOUS
  <2> HIDE DEF v
  <2>2. v[1] # "false" /\ v[2] # "false" /\ v[3] # "false" /\ v[4] # "false"
    BY <1>3, <2>4 DEF Rule
  <2>3. \A k \in 1 .. 4 : v[k] # "false"
    <3>1. \A k \in 1 .. 4 : k = 1 \/ k = 2 \/ k = 3 \/ k = 4
      OBVIOUS
    <3> QED
      BY <2>2, <3>1
  <2> QED
    BY <2>1, <2>3, <2>4, FirstNotFalse
<1>5. CASE l.kind # "COMPLETED"
  BY <1>5 DEF Control, Rule
<1> QED
  BY <1>4, <1>5

\* The summary is never judged false.
LEMMA SummaryNotFalse ==
  ASSUME NEW l
  PROVE  SummaryVerdict(l) # "false"
<1>1. PICK v : /\ SummaryVerdict(l) = First(v) /\ DOMAIN v = 1 .. 5
               /\ \A k \in 1 .. 5 : \E p : v[k] = Rule(p, "error")
  <2> DEFINE P1 == l.kind = "COMPLETED" => l.closing = {"restore", "baseline", "control"}
             P2 == l.kind \in {"STOPPED", "PROTOCOL"} => l.closing \subseteq {"restore"}
             P3 == l.kind = "CRASHED" => l.by = "collector" /\ l.closing = {}
             P4 == l.audited <= l.total
             P5 == l.dropped > DropBudget => l.kind \in {"PROTOCOL", "CRASHED"}
             v == <<Rule(P1, "error"), Rule(P2, "error"), Rule(P3, "error"), Rule(P4, "error"), Rule(P5, "error")>>
  <2>1. SummaryVerdict(l) = First(v)
    BY DEF SummaryVerdict
  <2> HIDE DEF P1, P2, P3, P4, P5
  <2>2. DOMAIN v = 1 .. 5 /\ \A k \in 1 .. 5 : v[k] \in {Rule(P1, "error"), Rule(P2, "error"), Rule(P3, "error"), Rule(P4, "error"), Rule(P5, "error")}
    OBVIOUS
  <2>3. \A k \in 1 .. 5 : \E p : v[k] = Rule(p, "error")
    <3> HIDE DEF v
    <3> QED
      BY <2>2
  <2> QED
    BY <2>1, <2>2, <2>3
<1>2. \A k \in 1 .. 5 : v[k] # "false"
  BY <1>1 DEF Rule
<1> QED
  BY <1>1, <1>2, FirstNotFalse

\* A log that fits is never judged false.
LEMMA NotFalse ==
  ASSUME truth \in Seq(Truths), NEW l, LogHolds(l), Harmless(l)
  PROVE  Validated(l) # "false"
<1> DEFINE n == Len(l.records)
           e1 == [i \in 1 .. n |-> RecordVerdict(l.records[i])]
           e2 == [i \in 1 .. n |-> Bound(l, i)]
           P6 == l.by = "app" => Orphans(l) = {}
<1>1. n \in Nat /\ \A i \in 1 .. n : l.records[i].seq = i /\ l.records[i].outcome \in Outcomes
  <2>1. n \in Nat /\ \A i \in 1 .. n : l.records[i] \in BookRecords /\ l.records[i].seq = i
    BY DEF LogHolds, Of
  <2> QED
    BY <2>1 DEF BookRecords
<1> DEFINE P4 == Marks(l)
           P8 == l.audited = HostAudited(l) /\ l.total = Len(l.records)
           v == <<SummaryVerdict(l), First(e1), Verify(l), Rule(P4, "error"), First(e2), Rule(P6, "error"), Control(l),
                  Rule(P8, "error")>>
<1>12. Validated(l) = First(v)
  BY DEF Validated, Each, Marks
<1> HIDE DEF P4, P8
<1>2. /\ DOMAIN v = 1 .. 8
      /\ v[1] = SummaryVerdict(l) /\ v[2] = First(e1) /\ v[3] = Verify(l) /\ v[4] = Rule(P4, "error")
      /\ v[5] = First(e2) /\ v[6] = Rule(P6, "error") /\ v[7] = Control(l) /\ v[8] = Rule(P8, "error")
  OBVIOUS
<1>3. \A i \in 1 .. n : e1[i] # "false"
  BY RecordNotFalse DEF Harmless
<1>4. DOMAIN e1 = 1 .. n /\ DOMAIN e2 = 1 .. n /\ (\A i \in 1 .. n : e1[i] = RecordVerdict(l.records[i]))
      /\ (\A i \in 1 .. n : e2[i] = Bound(l, i))
  OBVIOUS
<1> HIDE DEF e1, e2, P6, v
<1>5. v[1] # "false" /\ v[4] # "false" /\ v[6] # "false" /\ v[8] # "false"
  <2>1. SummaryVerdict(l) # "false" /\ \A p : Rule(p, "error") # "false"
    BY SummaryNotFalse DEF Rule
  <2> QED
    BY <1>2, <2>1
<1>6. v[2] # "false"
  <2>1. First(e1) # "false"
    BY <1>1, <1>3, <1>4, FirstNotFalse
  <2> QED
    BY <1>2, <2>1
<1>7. v[3] # "false"
  BY <1>2, VerifyNotFalse DEF Harmless
<1>8. ASSUME v[2] = "ok" PROVE \A i \in 1 .. n : RecordVerdict(l.records[i]) = "ok"
  <2>1. First(e1) = "ok"
    BY <1>2, <1>8
  <2>2. \A i \in 1 .. n : e1[i] = "ok"
    BY <1>1, <1>4, <2>1, FirstOk
  <2> QED
    BY <1>4, <2>2
<1>9. ASSUME v[5] = "false" PROVE v[2] # "ok"
  <2> SUFFICES ASSUME v[2] = "ok" PROVE FALSE
    OBVIOUS
  <2>1. \A i \in 1 .. n : l.records[i].nb = Spent(l, i - 1) /\ Names(l, i)
    BY DEF Harmless
  <2>2. \A i \in 1 .. n : RecordVerdict(l.records[i]) = "ok" /\ l.records[i].outcome \in Outcomes /\ l.records[i].seq = i
    BY <1>1, <1>8
  <2> HIDE DEF n
  <2>3. \A i \in 1 .. n : Bound(l, i) # "false"
    BY <1>1, <2>1, <2>2, BoundNotFalse
  <2>4. First(e2) # "false"
    BY <1>1, <1>4, <2>3, FirstNotFalse
  <2> QED
    BY <1>2, <1>9, <2>4
<1>10. ASSUME v[7] = "false" PROVE v[2] # "ok" \/ v[6] # "ok"
  <2> SUFFICES ASSUME v[2] = "ok", v[6] = "ok" PROVE FALSE
    OBVIOUS
  <2>1. P6
    BY <1>2 DEF Rule
  <2>2. Control(l) # "false"
    BY <1>1, <1>8, <2>1, ControlNotFalse DEF P6
  <2> QED
    BY <1>2, <1>10, <2>2
<1>11. \A k \in 1 .. 8 : v[k] = "false" => \E j \in 1 .. k - 1 : v[j] # "ok"
  <2>1. \A k \in 1 .. 8 : k \in {1, 2, 3, 4, 6, 8} \/ k = 5 \/ k = 7
    OBVIOUS
  <2>2. 2 \in 1 .. 5 - 1 /\ 2 \in 1 .. 7 - 1 /\ 6 \in 1 .. 7 - 1
    OBVIOUS
  <2> QED
    BY <1>5, <1>6, <1>7, <1>9, <1>10, <2>1, <2>2
<1> QED
  BY <1>2, <1>11, <1>12, FirstNotFalse

\* The genome of a candidate is blank or of one of the two arms.
LEMMA GenomeIsArm ==
  ASSUME plan \in Plans, NEW s \in Nat \ {0}, s <= LastSeq
  PROVE  /\ Genome(s) \in Arms \cup {"blank"}
         /\ \A i \in 2 .. N + 1 : Arm(i) \in Arms
<1>1. N \in Nat \ {0} /\ plan.mode \in Modes
  BY BooksAssumption
<1>2. \A a \in Arms : OtherArm(a) \in Arms
  BY DEF Arms, OtherArm
<1>3. ASSUME NEW i \in 2 .. N + 1 PROVE Arm(i) \in Arms
  <2>1. \A x : arm_abba(x) \in Arms
    BY DEF arm_abba, Arms
  <2> QED
    BY <1>1, <1>3, <2>1 DEF Arm, schedule, Modes, Arms
<1>4. ~Blank(s) => s \in 2 .. N + 1
  BY <1>1 DEF Blank, LastSeq
<1> QED
  BY <1>2, <1>3, <1>4 DEF Genome

\* What is spent is counted record by record.
LEMMA SpentNext ==
  ASSUME NEW l, NEW n \in Nat
  PROVE  Spent(l, n) \in Nat /\ Spent(l, n + 1) = Spent(l, n) + (IF Used(l.records[n + 1]) THEN 1 ELSE 0)
<1> DEFINE S == {j \in 1 .. n : Used(l.records[j])}
           T == {j \in 1 .. n + 1 : Used(l.records[j])}
<1>1. IsFiniteSet(S)
  <2>1. IsFiniteSet(1 .. n)
    BY FS_Interval
  <2> QED
    BY <2>1, FS_Subset
<1>2. n + 1 \notin S
  OBVIOUS
<1>3. T = IF Used(l.records[n + 1]) THEN S \cup {n + 1} ELSE S
  <2>1. \A j : j \in 1 .. n + 1 <=> j \in 1 .. n \/ j = n + 1
    OBVIOUS
  <2> QED
    BY <2>1
<1>4. Cardinality(S \cup {n + 1}) = Cardinality(S) + 1 /\ Cardinality(S) \in Nat
  BY <1>1, <1>2, FS_AddElement, FS_CardinalityType
<1> HIDE DEF S, T
<1>5. Spent(l, n) = Cardinality(S) /\ Spent(l, n + 1) = Cardinality(T)
  BY DEF Spent, S, T
<1> QED
  BY <1>3, <1>4, <1>5

\* It is the same wherever the records are used the same.
LEMMA SpentSame ==
  ASSUME NEW l, NEW m, NEW n \in Nat, \A i \in 1 .. n : Used(l.records[i]) <=> Used(m.records[i])
  PROVE  \A i \in 0 .. n : Spent(l, i) = Spent(m, i)
<1> SUFFICES ASSUME NEW i \in 0 .. n PROVE Spent(l, i) = Spent(m, i)
  OBVIOUS
<1>1. {j \in 1 .. i : Used(l.records[j])} = {j \in 1 .. i : Used(m.records[j])}
  OBVIOUS
<1> QED
  BY <1>1 DEF Spent

\* What the log of a session under way gains with a record.
LEMMA FileKeeps ==
  ASSUME BooksInv, pc = "run", NEW r, NEW entries, NEW chunks, NEW t, File(r, entries, chunks, t)
  PROVE  /\ log'.entries = log.entries \cup entries /\ log'.chunks = log.chunks \cup chunks /\ log'.control = << >>
         /\ log'.asked = log.asked \cup {r.seq} /\ log'.signs = log.signs \cup {r.seq} /\ log'.recs = log.recs \cup {r.seq}
         /\ log'.missed = [log.missed EXCEPT ![r.seq] = Lost(r.seq)]
         /\ log'.ident = log.ident /\ log'.retried = log.retried /\ log'.dropped = log.dropped /\ log'.kind = log.kind
         /\ truth' = Append(truth, t)
<1>1. DOMAIN log = LogFields /\ log.control = << >>
  BY DEF BooksInv, LogHolds, EndHolds, Open
<1> QED
  BY <1>1 DEF File, LogFields, Lost

\* A candidate's record that fits is filed.
LEMMA SoundFiled ==
  ASSUME BooksInv, SoundInv, fault.kind \notin Falsifiers, NEW s, Filing(s), NEW r, Of(r, s, r.outcome), r.nb = silicon,
         NEW entries, \A e \in entries : e.seq = s /\ e.nonce = silicon, NEW t \in Truths, Fits(r, t),
         NEW span \in {"streams", "full"}, NEW chunks, chunks \subseteq Chunks(s, span, t, {0, 1}),
         File(r, entries, chunks, t), Steady, pc' \in Open,
         pc' \in {"run", "control"} => silicon' = silicon + (IF Used(r) THEN 1 ELSE 0), pc' = "control" => entries # {}
  PROVE  SoundInv'
<1> DEFINE n == Len(log.records)
<1>1. pc = "run" /\ s = n + 1 /\ r.seq = s /\ UNCHANGED <<plan, fault, damages>> /\ NextSeq = s
  BY DEF Filing, Steady, NextSeq, Of
<1>2. /\ truth' \in Seq(Truths) /\ Len(log'.records) = Len(truth') /\ Len(log'.records) = n + 1
      /\ log'.records[n + 1] = r /\ \A i \in 1 .. n : log'.records[i] = log.records[i]
  BY <1>1, FileStep
<1>3. /\ log'.entries = log.entries \cup entries /\ log'.chunks = log.chunks \cup chunks /\ log'.control = << >>
      /\ truth' = Append(truth, t)
  BY <1>1, FileKeeps
<1>4. /\ n \in Nat /\ Len(truth) = n /\ truth \in Seq(Truths) /\ log.chunks \subseteq BookChunks /\ \A c \in log.chunks : c.seq <= n
  BY <1>1 DEF BooksInv, LogHolds, Open
<1>5. truth'[n + 1] = t /\ \A i \in 1 .. n : truth'[i] = truth[i]
  BY <1>3, <1>4
<1>6. /\ damages = 0 /\ Harmless(log) /\ Kept(log) /\ silicon = Spent(log, n)
      /\ \A e \in log.entries : e.seq \in 1 .. n
  BY <1>1 DEF SoundInv, Open
<1>7. \A i \in 0 .. n : Spent(log', i) = Spent(log, i)
  <2> DEFINE m == log'
  <2>1. \A i \in 1 .. n : Used(log.records[i]) <=> Used(m.records[i])
    BY <1>2
  <2> HIDE DEF m
  <2>2. \A i \in 0 .. n : Spent(log, i) = Spent(m, i)
    BY <1>4, <2>1, SpentSame
  <2> QED
    BY <2>2 DEF m
<1>8. ASSUME NEW i \in 1 .. n + 1
      PROVE  /\ Fits(log'.records[i], truth'[i]) /\ log'.records[i].nb = Spent(log', i - 1)
             /\ \A e \in log'.entries : e.seq = i => e.nonce = log'.records[i].nb
  <2>1. CASE i \in 1 .. n
    <3>1. Fits(log.records[i], truth[i]) /\ log.records[i].nb = Spent(log, i - 1) /\ Names(log, i)
      BY <1>6, <2>1 DEF Harmless
    <3>2. log'.records[i] = log.records[i] /\ truth'[i] = truth[i] /\ Spent(log', i - 1) = Spent(log, i - 1) /\ i # s
      BY <1>1, <1>2, <1>4, <1>5, <1>7, <2>1
    <3> QED
      BY <1>3, <3>1, <3>2 DEF Names
  <2>2. CASE i = n + 1
    <3>1. \A e \in log.entries : e.seq # i
      BY <1>4, <1>6, <2>2
    <3>2. Spent(log', i - 1) = Spent(log, n)
      BY <1>4, <1>7, <2>2
    <3> QED
      BY <1>1, <1>2, <1>3, <1>5, <1>6, <2>2, <3>1, <3>2
  <2> QED
    BY <1>4, <2>1, <2>2
<1>9. ASSUME NEW c \in log'.chunks
      PROVE  c.words = IF c.k = 0 THEN truth'[c.seq].staged ELSE truth'[c.seq].read
  <2>1. CASE c \in log.chunks
    <3>1. c.seq \in 1 .. n /\ c.words = Told(c)
      BY <1>4, <1>6, <2>1 DEF Kept, TrueWords, BookChunks
    <3> QED
      BY <1>5, <3>1 DEF Told
  <2>2. CASE c \in chunks
    <3>1. c.seq = s /\ c.words = IF c.k = 0 THEN t.staged ELSE t.read
      BY <2>2 DEF Chunks
    <3> QED
      BY <1>1, <1>5, <3>1
  <2> QED
    BY <1>3, <2>1, <2>2
<1>10. TrueWords(log)'
  BY <1>9 DEF TrueWords, Told
<1>11. Harmless(log)' /\ Kept(log)'
  BY <1>2, <1>3, <1>8, <1>10 DEF Harmless, Kept, Names
<1>12. pc' \in {"run", "control"} => silicon' = Spent(log', n + 1)
  <2> DEFINE m == log'
  <2>1. Spent(m, n + 1) = Spent(m, n) + (IF Used(m.records[n + 1]) THEN 1 ELSE 0)
    BY <1>4, SpentNext
  <2>2. Spent(m, n) = Spent(log, n)
    BY <1>4, <1>7
  <2> QED
    BY <1>2, <1>6, <2>1, <2>2
<1>13. \A e \in log'.entries : e.seq \in 1 .. n + 1
  BY <1>1, <1>3, <1>4, <1>6
<1>14. pc' = "control" => \E e \in log'.entries : e.seq = n + 1
  BY <1>1, <1>3
<1>15. KillNeedsAFalsifier'
  BY DEF KillNeedsAFalsifier, Judged, Open
<1> QED
  BY <1>1, <1>2, <1>6, <1>11, <1>12, <1>13, <1>14, <1>15 DEF SoundInv, Spent

\* Each step of a candidate files a record that fits.
LEMMA SoundCandidate ==
  ASSUME BooksInv, SoundInv, fault \in {NoFault} \cup Faults, fault.kind \notin Falsifiers, NEW s,
         Score(s) \/ RefuseAtGate(s) \/ (StopFiled(s) /\ Filing(s))
  PROVE  SoundInv'
<1>1. Filing(s)
  BY DEF Score, RefuseAtGate
<1>2. s \in Nat \ {0} /\ s <= LastSeq /\ plan \in Plans /\ silicon \in Nat /\ Real(s) \in Truths
  BY <1>1, NextIsOne
<1>3. \A k \in Falsifiers : ~Bites(k, s)
  BY DEF Bites
<1>4. Real(s).staged = Genome(s) /\ Real(s).read = Genome(s) /\ Genome(s) # "junk" /\ Genome(s) # "other"
  <2>1. Real(s).staged = Genome(s) /\ Real(s).read = Genome(s)
    BY <1>3 DEF Real, Falsifiers
  <2>2. Genome(s) \in Arms \cup {"blank"}
    BY <1>2, GenomeIsArm
  <2> QED
    BY <2>1, <2>2 DEF Arms
<1>5. CASE Score(s)
  <2>1. PICK r : /\ Of(r, s, "SCORED") /\ r.nb = silicon /\ ScoredAs(r, s) /\ silicon' = r.na
                 /\ File(r, {Entry(s, "reply")}, AuditOf(s, Real(s)), Real(s))
    BY <1>5, ScoreFiles
  <2>2. /\ r.na = r.nb + 1 /\ r.hw = Genome(s) /\ r.tables = Genome(s) /\ r.staged = Genome(s) /\ r.read = Genome(s)
        /\ r.commit = Genome(s) /\ r.outcome = "SCORED"
    BY <1>3, <2>1 DEF ScoredAs, Of, Falsifiers
  <2>3. Fits(r, Real(s)) /\ Used(r)
    BY <1>4, <2>2 DEF Fits, Used
  <2>4. Steady /\ pc' \in Open
    BY <1>5 DEF Score, Open
  <2>5. \E span \in {"streams", "full"} : AuditOf(s, Real(s)) \subseteq Chunks(s, span, Real(s), {0, 1})
    BY DEF AuditOf, Chunks
  <2>6. \A e \in {Entry(s, "reply")} : e.seq = s /\ e.nonce = silicon
    BY DEF Entry
  <2> QED
    BY <1>1, <1>2, <2>1, <2>2, <2>3, <2>4, <2>5, <2>6, SoundFiled
<1>6. CASE RefuseAtGate(s)
  <2>1. PICK r : /\ Of(r, s, "REFUSED_BY_GATE") /\ r.nb = silicon /\ r.staged = Genome(s) /\ r.read = Genome(s)
                 /\ File(r, {Entry(s, "refusal")}, {}, Real(s))
    BY <1>6, RefusedFiles
  <2>2. r.outcome = "REFUSED_BY_GATE"
    BY <2>1 DEF Of
  <2>3. Fits(r, Real(s)) /\ ~Used(r)
    BY <1>4, <2>1, <2>2 DEF Fits, Used, Unsigned
  <2>4. Steady /\ pc' \in Open /\ silicon' = silicon /\ pc' # "control"
    BY <1>6 DEF RefuseAtGate, Open
  <2>5. {} \subseteq Chunks(s, "full", Real(s), {0, 1})
    OBVIOUS
  <2>6. \A e \in {Entry(s, "refusal")} : e.seq = s /\ e.nonce = silicon
    BY DEF Entry
  <2> QED
    BY <1>1, <1>2, <2>1, <2>2, <2>3, <2>4, <2>5, <2>6, SoundFiled
<1>7. CASE StopFiled(s)
  <2>5. PICK r, entries, chunks : \E t \in Truths, span \in {"streams", "full"} :
          /\ Of(r, s, r.outcome) /\ r.outcome \notin Going /\ r.nb = silicon /\ StoppedAs(r, s, t)
          /\ chunks \subseteq Chunks(s, span, t, {0, 1}) /\ \A e \in entries : e.seq = s /\ e.nonce = silicon
          /\ File(r, entries, chunks, t)
    BY <1>7 DEF StopFiled
  <2>1. PICK t \in Truths, span \in {"streams", "full"} :
          /\ Of(r, s, r.outcome) /\ r.outcome \notin Going /\ r.nb = silicon /\ StoppedAs(r, s, t)
          /\ chunks \subseteq Chunks(s, span, t, {0, 1}) /\ \A e \in entries : e.seq = s /\ e.nonce = silicon
          /\ File(r, entries, chunks, t)
    BY <2>5
  <2>2. r.commit = Genome(s)
    BY <2>1 DEF Of
  <2>3. Fits(r, t)
    BY <1>4, <2>1, <2>2 DEF Fits, StoppedAs, Going
  <2>4. Steady /\ pc' = "stopped" /\ pc' \in Open
    BY <1>7 DEF StopFiled, Open
  <2> QED
    BY <1>1, <2>1, <2>3, <2>4, SoundFiled
<1> QED
  BY <1>5, <1>6, <1>7

\* A step that files no record, and what of the next candidate it may keep.
LEMMA SoundEnds ==
  ASSUME BooksInv, SoundInv, fault.kind \notin Falsifiers, pc \in Open, UNCHANGED <<plan, fault, truth, damages>>,
         pc' \in {"stopped", "ended"}, log'.records = log.records,
         \A e \in log'.entries : e \in log.entries \/ e.seq = NextSeq,
         \A c \in log'.chunks : c \in log.chunks \/ c.seq = NextSeq,
         log'.control # << >> =>
           /\ log'.control[1].fault = F_ARM_AUTH /\ log'.control[1].nb = Spent(log, Len(log.records)) /\ log'.by = "app"
           /\ \E e \in log'.entries : e.seq = Len(log.records)
  PROVE  SoundInv'
<1> DEFINE n == Len(log.records)
<1>1. n \in Nat /\ Len(truth) = n /\ NextSeq = n + 1
  BY DEF BooksInv, LogHolds, NextSeq
<1>2. damages = 0 /\ Harmless(log) /\ Kept(log)
  BY DEF SoundInv
<1>3. \A i : Spent(log', i) = Spent(log, i)
  BY DEF Spent
<1>4. ASSUME NEW i \in 1 .. n
      PROVE  /\ Fits(log'.records[i], truth'[i]) /\ log'.records[i].nb = Spent(log', i - 1)
             /\ \A e \in log'.entries : e.seq = i => e.nonce = log'.records[i].nb
  <2>1. i # NextSeq
    BY <1>1
  <2>2. Fits(log.records[i], truth[i]) /\ log.records[i].nb = Spent(log, i - 1) /\ Names(log, i)
    BY <1>2 DEF Harmless
  <2> QED
    BY <1>3, <2>1, <2>2 DEF Names
<1>5. TrueWords(log)'
  <2>1. \A c \in log'.chunks : c.seq <= n => c.words = IF c.k = 0 THEN truth'[c.seq].staged ELSE truth'[c.seq].read
    <3>1. ~(NextSeq <= n)
      BY <1>1
    <3>2. \A c \in log.chunks : c.seq <= n => c.words = IF c.k = 0 THEN truth[c.seq].staged ELSE truth[c.seq].read
      BY <1>1, <1>2 DEF Kept, TrueWords, Told
    <3> QED
      BY <3>1, <3>2
  <2> QED
    BY <1>1, <2>1 DEF TrueWords, Told
<1>6. Harmless(log)' /\ Kept(log)'
  BY <1>1, <1>3, <1>4, <1>5 DEF Harmless, Kept, Names
<1>7. KillNeedsAFalsifier'
  BY DEF KillNeedsAFalsifier, Judged
<1> QED
  BY <1>2, <1>6, <1>7 DEF SoundInv

\* The end of a session.
LEMMA SoundEnd ==
  ASSUME BooksInv, SoundInv, fault.kind \notin Falsifiers, NEW s, StopUnrecorded(s) \/ CloseSession \/ EndStopped \/ Crash
  PROVE  SoundInv'
<1> DEFINE n == Len(log.records)
<1>1. DOMAIN log = LogFields /\ (pc \in Open => log.control = << >>)
  BY DEF BooksInv, LogHolds, EndHolds
<1>2. \A k, c : LET m == Summary(log, k, c) IN
        /\ DOMAIN m = DOMAIN log /\ m.records = log.records /\ m.chunks = log.chunks /\ m.entries = log.entries
        /\ m.control = log.control /\ m.by = "app"
  BY <1>1 DEF Summary, LogFields
<1>3. UNCHANGED <<plan, fault, truth, damages>> /\ pc \in Open /\ pc' \in {"stopped", "ended"}
  BY DEF StopUnrecorded, CloseSession, EndStopped, Crash, Steady, Filing, Open, BooksInv
<1>4. CASE StopUnrecorded(s)
  <2>1. \E x, y : \E a \in BOOLEAN : log' = [log EXCEPT !.entries = @ \cup (IF a THEN {Entry(s, "reply")} ELSE {}), !.asked = x, !.signs = y]
    BY <1>4 DEF StopUnrecorded
  <2>2. /\ log'.records = log.records /\ log'.chunks = log.chunks /\ log'.control = log.control
        /\ log'.entries \subseteq log.entries \cup {Entry(s, "reply")}
    BY <1>1, <2>1 DEF LogFields
  <2>3. Entry(s, "reply").seq = NextSeq
    BY <1>4 DEF StopUnrecorded, Filing, Entry
  <2> QED
    BY <1>1, <1>3, <2>2, <2>3, SoundEnds
<1>5. CASE CloseSession
  <2> DEFINE done == Summary(log, "COMPLETED", Closed)
             kept == Summary(log, "STOPPED", {"restore"} \cup BaselineMark)
             Refused(f) == [done EXCEPT !.control = <<[fault |-> f, nb |-> silicon]>>]
  <2>1. log' = Refused(F_ARM_AUTH) \/ log' = kept
    BY <1>5 DEF CloseSession, Closed, Falsifiers
  <2>2. CASE log' = Refused(F_ARM_AUTH)
    <3>1. /\ DOMAIN done = LogFields /\ done.records = log.records /\ done.chunks = log.chunks /\ done.entries = log.entries
          /\ done.by = "app"
      BY <1>1, <1>2
    <3> HIDE DEF done
    <3>2. /\ log'.records = log.records /\ log'.chunks = log.chunks /\ log'.entries = log.entries /\ log'.by = "app"
          /\ log'.control = <<[fault |-> F_ARM_AUTH, nb |-> silicon]>>
      BY <2>2, <3>1 DEF LogFields
    <3>3. log'.control[1].fault = F_ARM_AUTH /\ log'.control[1].nb = silicon
      BY <3>2
    <3>4. silicon = Spent(log, n) /\ \E e \in log.entries : e.seq = n
      BY <1>5 DEF SoundInv, CloseSession
    <3> QED
      BY <1>3, <3>2, <3>3, <3>4, SoundEnds
  <2>3. CASE log' = kept
    BY <1>1, <1>2, <1>3, <2>3, SoundEnds
  <2> QED
    BY <2>1, <2>2, <2>3
<1>6. CASE EndStopped
  <2>1. \E k, c : log' = Summary(log, k, c)
    BY <1>6 DEF EndStopped
  <2>2. log'.records = log.records /\ log'.chunks = log.chunks /\ log'.entries = log.entries /\ log'.control = << >>
    BY <1>1, <1>2, <1>3, <2>1
  <2> QED
    BY <1>3, <2>2, SoundEnds
<1>7. CASE Crash
  <2> DEFINE q == NextSeq
             t == Real(q)
             L(f) == [log EXCEPT !.entries = @ \cup (IF f = "nothing" THEN {} ELSE {Entry(q, "reply")}),
                                 !.chunks = @ \cup (IF f = "audited" THEN Chunks(q, "full", t, {0, 1}) ELSE {}),
                                 !.asked = @ \cup (IF f = "nothing" THEN {} ELSE {q})]
             M(f) == [L(f) EXCEPT !.by = "collector", !.kind = "CRASHED", !.audited = crash_audit_count(L(f)),
                                  !.total = Len(L(f).records)]
  <2>1. PICK f \in {"nothing", "signed", "audited"} : log' = M(f)
    BY <1>7 DEF Crash
  <2> DEFINE new == IF f = "audited" THEN Chunks(q, "full", t, {0, 1}) ELSE {}
             given == IF f = "nothing" THEN {} ELSE {Entry(q, "reply")}
             l == L(f)
  <2>2. (\A c \in new : c.seq = q) /\ (\A e \in given : e.seq = q)
    BY DEF Chunks, Entry
  <2>3. /\ DOMAIN l = LogFields /\ l.records = log.records /\ l.control = log.control
        /\ l.entries = log.entries \cup given /\ l.chunks = log.chunks \cup new
    BY <1>1 DEF LogFields
  <2>4. log' = [l EXCEPT !.by = "collector", !.kind = "CRASHED", !.audited = crash_audit_count(l),
                         !.total = Len(l.records)]
    BY <2>1
  <2> HIDE DEF l, new, given
  <2>5. /\ log'.records = log.records /\ log'.control = log.control
        /\ log'.entries = log.entries \cup given /\ log'.chunks = log.chunks \cup new
    BY <2>3, <2>4
  <2> QED
    BY <1>1, <1>3, <2>2, <2>5, SoundEnds
<1> QED
  BY <1>4, <1>5, <1>6, <1>7

\* The ways a log is damaged: a chunk is lost or spoiled, a record's mark or
\* one of its parts is, the last record is lost, or something beside these.
ChunkLost(m, l) == \E c \in l.chunks : m = [l EXCEPT !.chunks = @ \ {c}]
ChunkSpoilt(m, l) == \E c \in l.chunks : m = [l EXCEPT !.chunks = @ \cup {[c EXCEPT !.words = "junk"]}]
RecordSpoilt(m, l) ==
  \E i \in DOMAIN l.records : \E q :
    /\ Of(q, i, l.records[i].outcome) /\ \A g \in RecordFields \ {"audited", "parts"} : q[g] = l.records[i][g]
    /\ m = [l EXCEPT !.records[i] = q]
LastLost(m, l) == 1 \in DOMAIN l.records /\ m = [l EXCEPT !.records = SubSeq(@, 1, Len(@) - 1)]
Beside(m, l) ==
  /\ DOMAIN m = DOMAIN l /\ m.records = l.records /\ m.chunks = l.chunks /\ m.entries \subseteq l.entries
  /\ m.closing = l.closing /\ m.by = l.by /\ m.control \in {l.control, << >>}

\* Whatever is damaged is one of these.
LEMMA DamageKinds ==
  ASSUME NEW l, LogHolds(l), NEW m \in Damaged(l)
  PROVE  ChunkLost(m, l) \/ ChunkSpoilt(m, l) \/ RecordSpoilt(m, l) \/ LastLost(m, l) \/ Beside(m, l)
<1>1. DOMAIN l = LogFields /\ DOMAIN l.records = 1 .. Len(l.records) /\ \A i \in 1 .. Len(l.records) : Of(l.records[i], i, l.records[i].outcome)
  BY DEF LogHolds
<1> DEFINE Parted(i) == {[l EXCEPT !.records[i].parts = @ \ {p}] : p \in l.records[i].parts}
           Mark == \E i \in DOMAIN l.records : m = [l EXCEPT !.records[i].audited = ~@]
           Part == \E i \in DOMAIN l.records : \E p : m = [l EXCEPT !.records[i].parts = @ \ {p}]
           Other == \/ \E e : m = [l EXCEPT !.entries = @ \ {e}]
                    \/ \E n : m = [l EXCEPT !.audited = n]
                    \/ \E n : m = [l EXCEPT !.total = n]
                    \/ m = [l EXCEPT !.control = << >>]
                    \/ \E n : m = [l EXCEPT !.signs = n]
                    \/ \E n : m = [l EXCEPT !.recs = n]
                    \/ \E n : m = [l EXCEPT !.kind = n]
<1>2. ChunkLost(m, l) \/ ChunkSpoilt(m, l) \/ Other \/ Mark \/ Part \/ LastLost(m, l)
  <2> DEFINE S1 == {[l EXCEPT !.chunks = @ \ {c}] : c \in l.chunks}
             S2 == {[l EXCEPT !.chunks = @ \cup {[c EXCEPT !.words = "junk"]}] : c \in l.chunks}
             S3 == {[l EXCEPT !.entries = @ \ {e}] : e \in l.entries}
             S4 == {[l EXCEPT !.records[i].audited = ~@] : i \in DOMAIN l.records}
             S5 == UNION {Parted(i) : i \in DOMAIN l.records}
             S6 == {[l EXCEPT !.records = SubSeq(@, 1, Len(@) - 1)] : i \in DOMAIN l.records \cap {1}}
             S7 == {[l EXCEPT !.audited = @ + 1], [l EXCEPT !.total = @ + 1], [l EXCEPT !.control = << >>]}
             S8 == {[l EXCEPT !.signs = @ \ {s}] : s \in l.signs}
             S9 == {[l EXCEPT !.recs = @ \ {s}] : s \in l.recs}
             S10 == {[l EXCEPT !.kind = k] : k \in {"COMPLETED", "STOPPED"}}
  <2>1. /\ m \in S1 => ChunkLost(m, l)
        /\ m \in S2 => ChunkSpoilt(m, l)
        /\ m \in S3 \cup S7 \cup S8 \cup S9 \cup S10 => Other
        /\ m \in S4 => Mark
        /\ m \in S6 => LastLost(m, l)
    BY DEF ChunkLost, ChunkSpoilt, LastLost
  <2>2. ASSUME m \in S5 PROVE Part
    <3>1. PICK i \in DOMAIN l.records : m \in Parted(i)
      BY <2>2
    <3> QED
      BY <3>1
  <2>3. Damaged(l) = S1 \cup S2 \cup S3 \cup S4 \cup S5 \cup S6 \cup S7 \cup S8 \cup S9 \cup S10
    BY DEF Damaged
  <2> HIDE DEF S1, S2, S3, S4, S5, S6, S7, S8, S9, S10, Other, Mark, Part
  <2> QED
    BY <2>1, <2>2, <2>3
<1>3. CASE Other
  BY <1>1, <1>3 DEF LogFields, Beside
<1>4. CASE Mark
  <2>1. PICK i \in DOMAIN l.records : m = [l EXCEPT !.records[i].audited = ~@]
    BY <1>4
  <2> DEFINE r == l.records[i]
             b == ~r.audited
             q == [r EXCEPT !.audited = b]
  <2>2. Of(r, i, r.outcome) /\ b \in BOOLEAN
    BY <1>1
  <2>3. m = [l EXCEPT !.records[i] = q]
    BY <2>1
  <2> HIDE DEF b
  <2>4. Of(q, i, r.outcome) /\ Only(q, r, "audited", b)
    BY <2>2, RecordChanged, RecordSet
  <2> HIDE DEF q
  <2> QED
    BY <2>3, <2>4 DEF RecordSpoilt, Only
<1>5. CASE Part
  <2>1. PICK i \in DOMAIN l.records : \E p : m = [l EXCEPT !.records[i].parts = @ \ {p}]
    BY <1>5
  <2>2. PICK p : m = [l EXCEPT !.records[i].parts = @ \ {p}]
    BY <2>1
  <2> DEFINE r == l.records[i]
             q == [r EXCEPT !.parts = @ \ {p}]
  <2>3. Of(r, i, r.outcome)
    BY <1>1
  <2>4. Of(q, i, r.outcome) /\ Only(q, r, "parts", r.parts \ {p})
    BY <2>3, RecordChanged, RecordSet
  <2>5. m = [l EXCEPT !.records[i] = q]
    BY <2>2
  <2> HIDE DEF q
  <2> QED
    BY <2>4, <2>5 DEF RecordSpoilt, Only
<1> QED
  BY <1>2, <1>3, <1>4, <1>5

\* A first damage makes no sound session's log false.
LEMMA DamageHarmless ==
  ASSUME truth \in Seq(Truths), NEW l, LogHolds(l), Harmless(l), Kept(l), NEW m \in Damaged(l)
  PROVE  Harmless(m)
<1> DEFINE n == Len(l.records)
<1>1. /\ DOMAIN l = LogFields /\ l.records \in Seq(BookRecords) /\ n \in Nat /\ DOMAIN l.records = 1 .. n
      /\ l.chunks \subseteq BookChunks /\ \A i \in 1 .. n : Of(l.records[i], i, l.records[i].outcome)
  BY DEF LogHolds
<1>2. /\ \A i \in 1 .. n : Fits(l.records[i], truth[i]) /\ l.records[i].nb = Spent(l, i - 1) /\ Names(l, i)
      /\ TrueWords(l)
      /\ l.control # << >> => /\ l.control[1].fault = F_ARM_AUTH /\ l.by = "app" /\ l.control[1].nb = Spent(l, n)
                              /\ \E e \in l.entries : e.seq = n
  BY DEF Harmless, Kept
<1>3. CASE Beside(m, l)
  <2>1. \A i : Spent(m, i) = Spent(l, i)
    BY <1>3 DEF Beside, Spent
  <2>2. (\A i \in 1 .. n : Names(m, i)) /\ TrueWords(m)
    BY <1>2, <1>3 DEF Beside, Names, TrueWords
  <2> QED
    BY <1>2, <1>3, <2>1, <2>2 DEF Beside, Harmless
<1>4. CASE ChunkLost(m, l) \/ ChunkSpoilt(m, l)
  <2>1. PICK c \in l.chunks : \E x : m = [l EXCEPT !.chunks = x] /\ x \in {l.chunks \ {c}, l.chunks \cup {[c EXCEPT !.words = "junk"]}}
    BY <1>4 DEF ChunkLost, ChunkSpoilt
  <2> DEFINE d == [c EXCEPT !.words = "junk"]
  <2>2. /\ m.records = l.records /\ m.entries = l.entries /\ m.control = l.control /\ m.by = l.by
        /\ m.chunks \in {l.chunks \ {c}, l.chunks \cup {d}}
    BY <1>1, <2>1 DEF LogFields
  <2>3. c \in BookChunks /\ d.seq = c.seq /\ d.k = c.k /\ (c.words = "junk" => c = d) /\ d.words = "junk"
    BY <1>1 DEF BookChunks
  <2> HIDE DEF d
  <2>4. Assembled(m.chunks) => TrueWords(m)
    <3>1. CASE m.chunks = l.chunks \ {c} \/ c = d
      <4>1. m.chunks \subseteq l.chunks
        BY <2>2, <3>1
      <4> QED
        BY <1>2, <4>1 DEF TrueWords
    <3>2. CASE m.chunks = l.chunks \cup {d} /\ c # d
      <4>1. c \in m.chunks /\ d \in m.chunks
        BY <3>2
      <4>2. ~Assembled(m.chunks)
        BY <2>3, <3>2, <4>1 DEF Assembled
      <4> QED
        BY <4>2
    <3> QED
      BY <2>2, <3>1, <3>2
  <2>5. (\A i : Spent(m, i) = Spent(l, i)) /\ \A i \in 1 .. n : Names(m, i)
    BY <1>2, <2>2 DEF Spent, Names
  <2> QED
    BY <1>2, <2>2, <2>4, <2>5 DEF Harmless
<1>5. CASE RecordSpoilt(m, l)
  <2>1. PICK i \in DOMAIN l.records : \E q : Of(q, i, l.records[i].outcome)
            /\ (\A g \in RecordFields \ {"audited", "parts"} : q[g] = l.records[i][g]) /\ m = [l EXCEPT !.records[i] = q]
    BY <1>5 DEF RecordSpoilt
  <2>2. PICK q : Of(q, i, l.records[i].outcome)
            /\ (\A g \in RecordFields \ {"audited", "parts"} : q[g] = l.records[i][g]) /\ m = [l EXCEPT !.records[i] = q]
    BY <2>1
  <2>3. /\ m.records = [l.records EXCEPT ![i] = q] /\ m.chunks = l.chunks /\ m.entries = l.entries
        /\ m.control = l.control /\ m.by = l.by
    BY <1>1, <2>2 DEF LogFields
  <2>4. Len(m.records) = n /\ \A j \in 1 .. n : m.records[j] = IF j = i THEN q ELSE l.records[j]
    <3>1. q \in BookRecords
      BY <2>2 DEF Of
    <3> QED
      BY <1>1, <2>3, <3>1
  <2>5. \A g \in {"outcome", "na", "nb", "hw", "tables", "commit", "staged", "read", "seq"} : q[g] = l.records[i][g]
    BY <2>2 DEF RecordFields
  <2>6. /\ q.outcome = l.records[i].outcome /\ q.na = l.records[i].na /\ q.nb = l.records[i].nb /\ q.hw = l.records[i].hw
        /\ q.tables = l.records[i].tables /\ q.commit = l.records[i].commit /\ q.staged = l.records[i].staged
        /\ q.read = l.records[i].read
    BY <2>5
  <2>7. (\A t : Fits(l.records[i], t) => Fits(q, t)) /\ (Used(q) <=> Used(l.records[i]))
    BY <2>6 DEF Fits, Used
  <2>8. \A j \in 0 .. n : Spent(l, j) = Spent(m, j)
    <3>1. \A j \in 1 .. n : Used(l.records[j]) <=> Used(m.records[j])
      BY <2>4, <2>7
    <3> QED
      BY <1>1, <3>1, SpentSame
  <2>9. \A j \in 1 .. n : Fits(m.records[j], truth[j]) /\ m.records[j].nb = l.records[j].nb /\ Names(m, j) /\ j - 1 \in 0 .. n
    BY <1>1, <1>2, <2>3, <2>4, <2>6, <2>7 DEF Names
  <2>10. \A j \in 1 .. n : m.records[j].nb = Spent(m, j - 1)
    BY <1>2, <2>8, <2>9
  <2>11. Spent(m, n) = Spent(l, n)
    BY <1>1, <2>8
  <2>12. TrueWords(m)
    BY <1>2, <2>3 DEF TrueWords
  <2> QED
    BY <1>2, <2>3, <2>4, <2>9, <2>10, <2>11, <2>12 DEF Harmless
<1>6. CASE LastLost(m, l)
  <2> DEFINE k == n - 1
  <2>1. /\ m.records = SubSeq(l.records, 1, k) /\ m.chunks = l.chunks /\ m.entries = l.entries
        /\ m.control = l.control /\ m.by = l.by
    BY <1>1, <1>6 DEF LogFields, LastLost
  <2>2. k \in Nat /\ n = k + 1
    BY <1>1, <1>6 DEF LastLost
  <2>3. Len(m.records) = k /\ DOMAIN m.records = 1 .. k /\ \A i \in 1 .. k : m.records[i] = l.records[i] /\ i \in 1 .. n
    BY <1>1, <2>1, <2>2
  <2> HIDE DEF k
  <2>4. \A i \in 0 .. k : Spent(l, i) = Spent(m, i)
    <3>1. \A j \in 1 .. k : Used(l.records[j]) <=> Used(m.records[j])
      BY <2>3
    <3> QED
      BY <2>2, <3>1, SpentSame
  <2>5. ASSUME NEW i \in 1 .. k PROVE Fits(m.records[i], truth[i]) /\ m.records[i].nb = Spent(m, i - 1) /\ Names(m, i)
    <3>1. i \in 1 .. n /\ i - 1 \in 0 .. k /\ m.records[i] = l.records[i]
      BY <2>2, <2>3
    <3> QED
      BY <1>2, <2>1, <2>4, <3>1 DEF Names
  <2>6. ASSUME m.control # << >> PROVE m.control[1].fault = F_ARM_AUTH /\ m.by = "app" /\ Orphans(m) # {}
    <3>1. PICK e \in m.entries : e.seq = n
      BY <1>2, <2>1, <2>6
    <3>2. \A i \in 1 .. k : m.records[i].seq = i
      BY <1>1, <2>3 DEF Of
    <3>3. n \notin Recorded(m)
      BY <2>2, <2>3, <3>2 DEF Recorded
    <3> QED
      BY <1>2, <2>1, <2>6, <3>1, <3>3 DEF Orphans
  <2>7. TrueWords(m)
    BY <1>2, <2>1 DEF TrueWords
  <2> QED
    BY <2>3, <2>5, <2>6, <2>7 DEF Harmless
<1> QED
  BY <1>3, <1>4, <1>5, <1>6, DamageKinds

\* What was chosen before the session, and how often its books were damaged.
Chosen == fault \in {NoFault} \cup Faults /\ damages \in 0 .. MaxDamages
\* The choice stays, and the books are damaged no more often than that.
LEMMA ChosenStep == ASSUME Chosen, [BooksNext]_booksVars PROVE Chosen'
<1>1. fault' = fault /\ (damages' = damages \/ (damages < MaxDamages /\ damages' = damages + 1))
  <2>1. ASSUME NEW s, Candidate(s) PROVE fault' = fault /\ damages' = damages
    BY <2>1, CandidateSteady DEF Steady
  <2>2. CASE CloseSession \/ EndStopped \/ Crash
    BY <2>2 DEF CloseSession, EndStopped, Crash, Steady
  <2>3. CASE Damage \/ Adjudicate
    BY <2>3 DEF Damage, MayDamage, Adjudicate
  <2>4. CASE UNCHANGED booksVars
    BY <2>4 DEF booksVars
  <2> QED
    BY <2>1, <2>2, <2>3, <2>4 DEF BooksNext
<1>2. MaxDamages \in Nat
  BY BooksAssumption
<1> QED
  BY <1>1, <1>2 DEF Chosen, NoFault

\* Damage to the books of a sound session, and what is concluded from them.
LEMMA SoundJudged ==
  ASSUME BooksInv, SoundInv, fault.kind \notin Falsifiers, Damage \/ Adjudicate \/ UNCHANGED booksVars
  PROVE  SoundInv'
<1>1. truth \in Seq(Truths) /\ LogHolds(log)
  BY DEF BooksInv
<1>2. /\ damages \in Nat /\ (pc \in Open => damages = 0) /\ (damages <= 1 => Harmless(log)) /\ (damages = 0 => Kept(log))
      /\ (damages <= 1 => KillNeedsAFalsifier)
  BY DEF SoundInv
<1>3. CASE Damage
  <2>1. UNCHANGED <<fault, truth, pc>> /\ pc = "ended" /\ log' \in Damaged(log) /\ damages' = damages + 1
    BY <1>3 DEF Damage
  <2>2. damages' <= 1 => Harmless(log')
    <3>1. ASSUME damages' <= 1 PROVE Harmless(log) /\ Kept(log)
      BY <1>2, <2>1, <3>1
    <3> QED
      BY <1>1, <2>1, <3>1, DamageHarmless
  <2>3. damages' <= 1 => Harmless(log)'
    BY <2>1, <2>2 DEF Harmless, TrueWords, Told, Names, Spent
  <2>4. KillNeedsAFalsifier'
    BY <2>1 DEF KillNeedsAFalsifier, Judged
  <2> QED
    BY <1>2, <2>1, <2>3, <2>4 DEF SoundInv, Open
<1>4. CASE Adjudicate
  <2>1. UNCHANGED <<fault, truth, silicon, log, damages>> /\ pc' = "judged" /\ outcome' = Outcome(log, Validated(log))
    BY <1>4 DEF Adjudicate
  <2>2. damages <= 1 => outcome' # "KILL"
    <3>1. damages <= 1 => Validated(log) # "false"
      BY <1>1, <1>2, NotFalse
    <3> QED
      BY <2>1, <3>1 DEF Outcome
  <2>3. (Harmless(log) => Harmless(log)') /\ (Kept(log) => Kept(log)')
    BY <2>1 DEF Harmless, Kept, TrueWords, Told, Names, Spent
  <2> QED
    BY <1>2, <2>1, <2>2, <2>3 DEF SoundInv, KillNeedsAFalsifier, Open
<1>5. CASE UNCHANGED booksVars
  <2>1. UNCHANGED <<fault, truth, silicon, log, pc, damages, outcome>>
    BY <1>5 DEF booksVars
  <2>2. (Harmless(log) => Harmless(log)') /\ (Kept(log) => Kept(log)')
    BY <2>1 DEF Harmless, Kept, TrueWords, Told, Names, Spent
  <2>3. KillNeedsAFalsifier => KillNeedsAFalsifier'
    BY <2>1 DEF KillNeedsAFalsifier, Judged
  <2>4. Spent(log, Len(log.records))' = Spent(log, Len(log.records))
    BY <2>1 DEF Spent
  <2> QED
    BY <1>2, <2>1, <2>2, <2>3, <2>4 DEF SoundInv
<1> QED
  BY <1>3, <1>4, <1>5

\* A session that falsifies nothing is never a KILL, unless its books were
\* damaged twice.
LEMMA SoundHolds == BooksSpec => [](BooksInv /\ Chosen /\ SoundInv)
<1>1. BooksInit => Chosen /\ SoundInv
  <2> SUFFICES ASSUME BooksInit PROVE Chosen /\ SoundInv
    OBVIOUS
  <2>1. /\ log.records = << >> /\ log.chunks = {} /\ log.control = << >> /\ log.entries = {}
        /\ fault \in {NoFault} \cup Faults /\ damages = 0 /\ silicon = 0 /\ truth = << >> /\ pc = "run"
    BY DEF BooksInit, EmptyLog
  <2>2. MaxDamages \in Nat
    BY BooksAssumption
  <2>3. Spent(log, 0) = 0
    <3>1. {j \in 1 .. 0 : Used(log.records[j])} = {}
      OBVIOUS
    <3> QED
      BY <3>1, FS_EmptySet DEF Spent
  <2>4. Harmless(log) /\ Kept(log)
    BY <2>1 DEF Harmless, Kept, TrueWords
  <2> QED
    BY <2>1, <2>2, <2>3, <2>4 DEF Chosen, SoundInv, KillNeedsAFalsifier, Judged, Open
<1>2. BooksInv /\ Chosen /\ SoundInv /\ [BooksNext]_booksVars => SoundInv'
  <2> SUFFICES ASSUME BooksInv, Chosen, SoundInv, [BooksNext]_booksVars PROVE SoundInv'
    OBVIOUS
  <2>1. CASE fault.kind \in Falsifiers
    <3>1. fault' = fault
      <4>1. ASSUME NEW s, Candidate(s) PROVE fault' = fault
        BY <4>1, CandidateSteady DEF Steady
      <4> QED
        BY <4>1 DEF BooksNext, CloseSession, EndStopped, Crash, Damage, Adjudicate, Steady, booksVars
    <3> QED
      BY <2>1, <3>1 DEF SoundInv
  <2>2. CASE fault.kind \notin Falsifiers
    <3>1. ASSUME NEW s \in Seqs, Candidate(s) PROVE SoundInv'
      <4>1. CASE Score(s) \/ RefuseAtGate(s)
        BY <2>2, <4>1, SoundCandidate DEF Chosen
      <4>2. CASE Filing(s) /\ StopFiled(s)
        BY <2>2, <4>2, SoundCandidate DEF Chosen
      <4>3. CASE StopUnrecorded(s)
        BY <2>2, <4>3, SoundEnd
      <4> QED
        BY <3>1, <4>1, <4>2, <4>3, CandidateFiles
    <3>2. CASE CloseSession \/ EndStopped \/ Crash
      BY <2>2, <3>2, SoundEnd
    <3>3. CASE Damage \/ Adjudicate \/ UNCHANGED booksVars
      BY <2>2, <3>3, SoundJudged
    <3> QED
      BY <3>1, <3>2, <3>3 DEF BooksNext
  <2> QED
    BY <2>1, <2>2
<1>3. Chosen /\ [BooksNext]_booksVars => Chosen'
  BY ChosenStep
<1> QED
  BY <1>1, <1>2, <1>3, BooksHold, PTL DEF BooksSpec

\* What a candidate is does not change with the session.
LEMMA SameCandidate ==
  ASSUME UNCHANGED <<plan, fault>>, NEW s
  PROVE  /\ Genome(s)' = Genome(s) /\ Label(s)' = Label(s) /\ Real(s)' = Real(s) /\ Blank(s)' = Blank(s)
         /\ MarkOf(s)' = MarkOf(s) /\ (\A k : Bites(k, s)' = Bites(k, s)) /\ (\A t : AuditOf(s, t)' = AuditOf(s, t))
         /\ LastSeq' = LastSeq /\ Lost(s)' = Lost(s) /\ DropBudget' = DropBudget /\ Page' = Page
<1>1. \A k, x : Bites(k, x)' = Bites(k, x)
  BY DEF Bites
<1>2. LastSeq' = LastSeq /\ Arm(s)' = Arm(s) /\ Requested' = Requested /\ Early' = Early
  BY DEF LastSeq, Early, Arm, Requested
<1>3. Genome(s)' = Genome(s) /\ Blank(s)' = Blank(s)
  BY <1>1, <1>2 DEF Genome, Blank
<1>4. Label(s)' = Label(s)
  BY <1>1, <1>2, <1>3 DEF Label
<1>5. Real(s)' = Real(s)
  BY <1>1, <1>3 DEF Real
<1>6. MarkOf(s)' = MarkOf(s) /\ (\A t : AuditOf(s, t)' = AuditOf(s, t))
  BY <1>1, <1>2 DEF MarkOf, AuditOf
<1>7. DropBudget' = DropBudget /\ Page' = Page /\ Lost(s)' = Lost(s)
  BY <1>1, <1>2 DEF DropBudget, Page, Lost
<1> QED
  BY <1>1, <1>2, <1>3, <1>4, <1>5, <1>6, <1>7

\* The books stay whole while the plan, the fault and the log do.
LEMMA FiledMoves ==
  ASSUME UNCHANGED <<plan, fault>>, NEW l, l = log', NEW i, FiledAs(l, i)
  PROVE  FiledAs(log, i)'
<1>1. /\ Genome(i)' = Genome(i) /\ Label(i)' = Label(i) /\ Blank(i)' = Blank(i)
      /\ MarkOf(i)' = MarkOf(i) /\ (\A k : Bites(k, i)' = Bites(k, i)) /\ Lost(i)' = Lost(i)
  BY SameCandidate
<1>2. \A r : /\ (ScoredAs(r, i) => ScoredAs(r, i)') /\ (RefusedAs(r, i) => RefusedAs(r, i)')
             /\ (Of(r, i, r.outcome) => Of(r, i, r.outcome)')
  BY <1>1 DEF ScoredAs, RefusedAs, Of
<1> QED
  BY <1>1, <1>2 DEF FiledAs, Spent

\* So do the books as a whole.
LEMMA UnspoiltMoves ==
  ASSUME UNCHANGED <<plan, fault>>, NEW l, l = log', Unspoilt(l)
  PROVE  Unspoilt(log)'
<1>1. \A i \in 1 .. Len(l.records) : FiledAs(log, i)'
  BY FiledMoves DEF Unspoilt
<1>2. \A i : Real(i)' = Real(i) /\ (\A t : AuditOf(i, t)' = AuditOf(i, t)) /\ LastSeq' = LastSeq
  BY SameCandidate
<1>3. Scored(log)' = Scored(l)
  BY DEF Scored
<1> QED
  BY <1>1, <1>2, <1>3 DEF Unspoilt

\* So does what the session was given.
LEMMA GivenMoves ==
  ASSUME UNCHANGED <<plan, fault>>, NEW l, l = log', Given(l)
  PROVE  Given(log)'
<1>1. DropBudget' = DropBudget /\ Page' = Page
  BY SameCandidate
<1> QED
  BY <1>1 DEF Given

\* Records filed before a candidate's are filed still.
LEMMA FiledStill ==
  ASSUME NEW l, NEW m, NEW n \in Nat, NEW i \in 1 .. n, FiledAs(l, i), \A j \in 1 .. n : m.records[j] = l.records[j],
         l.entries \subseteq m.entries, m.missed[i] = l.missed[i]
  PROVE  FiledAs(m, i)
<1>1. Spent(l, i - 1) = Spent(m, i - 1)
  <2>1. i - 1 \in 0 .. n
    OBVIOUS
  <2> QED
    BY <2>1, SpentSame
<1> QED
  BY <1>1 DEF FiledAs

\* A candidate that does not stop the epoch is filed as it was.
LEMMA FiledNext ==
  ASSUME BooksInv, WholeInv, NEW s, Filing(s), Steady, NEW r, Of(r, s, r.outcome), r.outcome \in Going, r.nb = silicon,
         r.arm = Label(s), r.outcome = "SCORED" => ScoredAs(r, s), r.outcome # "SCORED" => RefusedAs(r, s),
         NEW chunks, chunks = (IF r.outcome = "SCORED" THEN AuditOf(s, Real(s)) ELSE {}),
         File(r, {Entry(s, Answer(r))}, chunks, Real(s))
  PROVE  /\ Unspoilt(log)' /\ Given(log)' /\ log'.kind = log.kind /\ Len(log'.records) = s
         /\ fault.kind # "nonce" => Spent(log', s) = silicon + (IF r.outcome = "SCORED" THEN 1 ELSE 0)
<1> DEFINE n == Len(log.records)
           m == log'
<1>1. pc = "run" /\ s = n + 1 /\ s <= LastSeq /\ r.seq = s /\ UNCHANGED <<plan, fault, damages>> /\ NextSeq = s /\ n \in Nat
  BY DEF Filing, Steady, NextSeq, Of, BooksInv, LogHolds
<1>2. s \in Nat \ {0} /\ s <= LastSeq /\ Real(s) \in Truths /\ LastSeq \in Nat /\ LastSeq <= N + 2 /\ N \in Nat
  BY NextIsOne, BooksAssumption DEF LastSeq
<1>3. Unspoilt(log) /\ Given(log) /\ (fault.kind # "nonce" => silicon = Spent(log, n))
  BY <1>1 DEF WholeInv, Open
<1>4. \E span \in {"streams", "full"} : chunks \subseteq Chunks(s, span, Real(s), {0, 1})
  BY DEF AuditOf, Chunks
<1>5. /\ Len(m.records) = n + 1 /\ m.records[n + 1] = r /\ (\A i \in 1 .. n : m.records[i] = log.records[i])
      /\ m.records \in Seq(BookRecords)
  <2>1. LogHolds(log)'
    BY <1>1, <1>2, <1>4, FileStep
  <2> QED
    BY <1>1, <1>2, <1>4, <2>1, FileStep DEF LogHolds
<1>6. /\ m.entries = log.entries \cup {Entry(s, Answer(r))} /\ m.chunks = log.chunks \cup chunks
      /\ m.asked = log.asked \cup {s} /\ m.signs = log.signs \cup {s} /\ m.recs = log.recs \cup {s}
      /\ m.missed = [log.missed EXCEPT ![s] = Lost(s)]
      /\ m.ident = log.ident /\ m.retried = log.retried /\ m.dropped = log.dropped /\ m.kind = log.kind
  <2>1. PICK entries, t : entries = {Entry(s, Answer(r))} /\ File(r, entries, chunks, t) /\ pc = "run" /\ r.seq = s
    BY <1>1
  <2>2. m.entries = log.entries \cup entries /\ m.chunks = log.chunks \cup chunks
    <3>1. DOMAIN log = LogFields
      BY DEF BooksInv, LogHolds
    <3> QED
      BY <2>1, <3>1 DEF File, LogFields
  <2>3. m.asked = log.asked \cup {s} /\ m.signs = log.signs \cup {s} /\ m.recs = log.recs \cup {s}
    BY <2>1, FileKeeps
  <2>4. m.missed = [log.missed EXCEPT ![s] = Lost(s)]
    BY <1>1, <2>1, FileKeeps
  <2>5. m.ident = log.ident /\ m.retried = log.retried /\ m.dropped = log.dropped /\ m.kind = log.kind
    BY <1>1, <2>1, FileKeeps
  <2> HIDE DEF m
  <2> QED
    BY <2>1, <2>2, <2>3, <2>4, <2>5
<1> HIDE DEF m
<1>7. DOMAIN m.records = 1 .. n + 1
  BY <1>5
<1>8. s \in DOMAIN log.missed
  BY <1>1, <1>2, <1>3 DEF Given
<1>9. \A i \in 0 .. n : Spent(m, i) = Spent(log, i)
  <2>1. \A i \in 1 .. n : Used(log.records[i]) <=> Used(m.records[i])
    BY <1>5
  <2> QED
    BY <1>1, <2>1, SpentSame
<1>10. \A i \in 1 .. n : FiledAs(m, i)
  <2> SUFFICES ASSUME NEW i \in 1 .. n PROVE FiledAs(m, i)
    OBVIOUS
  <2>1. FiledAs(log, i)
    BY <1>3 DEF Unspoilt
  <2>2. m.missed[i] = log.missed[i]
    <3>1. i # s /\ i \in DOMAIN log.missed
      BY <1>1, <1>2, <1>3 DEF Given
    <3> QED
      BY <1>6, <1>8, <3>1
  <2> QED
    BY <1>1, <1>5, <1>6, <2>1, <2>2, FiledStill
<1>11. FiledAs(m, s)
  <2>1. m.records[s] = r /\ m.missed[s] = Lost(s)
    BY <1>1, <1>5, <1>6, <1>8
  <2>2. [seq |-> s, answer |-> Answer(r), commit |-> Genome(s), nonce |-> r.nb] \in m.entries
    BY <1>6 DEF Entry
  <2>3. fault.kind # "nonce" => r.nb = Spent(m, s - 1)
    <3>1. s - 1 = n /\ n \in 0 .. n
      BY <1>1
    <3> QED
      BY <1>3, <1>9, <3>1
  <2> QED
    BY <2>1, <2>2, <2>3 DEF FiledAs
<1>12. \A i : i \in Scored(m) <=> (i \in Scored(log) \/ (i = s /\ r.outcome = "SCORED"))
  <2>1. DOMAIN log.records = 1 .. n
    BY <1>3 DEF Unspoilt
  <2>2. \A i : i \in 1 .. n + 1 <=> i \in 1 .. n \/ i = n + 1
    BY <1>1
  <2> QED
    BY <1>1, <1>5, <1>7, <2>1, <2>2 DEF Scored
<1>13. Unspoilt(m)
  <2>1. \A i \in 1 .. n + 1 : FiledAs(m, i)
    <3>1. \A i \in 1 .. n + 1 : i \in 1 .. n \/ i = s
      BY <1>1
    <3> QED
      BY <1>10, <1>11, <3>1
  <2>2. \A c \in m.chunks : c.seq \in Scored(m) /\ c \in AuditOf(c.seq, Real(c.seq))
    <3>1. \A c \in log.chunks : c.seq \in Scored(m) /\ c \in AuditOf(c.seq, Real(c.seq))
      BY <1>3, <1>12 DEF Unspoilt
    <3>2. ASSUME NEW c \in chunks PROVE c.seq \in Scored(m) /\ c \in AuditOf(c.seq, Real(c.seq))
      <4>1. c.seq = s
        BY <1>4 DEF Chunks
      <4> QED
        BY <1>12, <4>1
    <3> QED
      BY <1>6, <3>1, <3>2
  <2>3. \A i \in Scored(m) : AuditOf(i, Real(i)) \subseteq m.chunks
    <3>1. \A i \in Scored(log) : AuditOf(i, Real(i)) \subseteq m.chunks
      BY <1>3, <1>6 DEF Unspoilt
    <3> QED
      BY <1>6, <1>12, <3>1
  <2>4. \A e \in m.entries : e.seq \in 1 .. n + 1
    <3>1. \A e \in log.entries : e.seq \in 1 .. n
      BY <1>3 DEF Unspoilt
    <3> QED
      BY <1>1, <1>6, <3>1 DEF Entry
  <2>5. m.asked = 1 .. n + 1 /\ m.signs = 1 .. n + 1 /\ m.recs = 1 .. n + 1
    <3>1. log.asked = 1 .. n /\ log.signs = 1 .. n /\ log.recs = 1 .. n
      BY <1>3 DEF Unspoilt
    <3>2. 1 .. n + 1 = (1 .. n) \cup {s}
      BY <1>1
    <3> QED
      BY <1>6, <3>1, <3>2
  <2> QED
    BY <1>1, <1>5, <1>7, <2>1, <2>2, <2>3, <2>4, <2>5 DEF Unspoilt
<1>14. Given(m)
  BY <1>3, <1>6 DEF Given
<1>15. Unspoilt(log)' /\ Given(log)'
  BY <1>1, <1>13, <1>14, UnspoiltMoves, GivenMoves DEF m
<1>16. fault.kind # "nonce" => Spent(m, s) = silicon + (IF r.outcome = "SCORED" THEN 1 ELSE 0)
  <2>1. Spent(m, n + 1) = Spent(m, n) + (IF Used(m.records[n + 1]) THEN 1 ELSE 0)
    BY <1>1, SpentNext
  <2>2. Spent(m, n) = Spent(log, n)
    BY <1>1, <1>9
  <2>3. Used(r) <=> r.outcome = "SCORED"
    BY DEF Used, Going
  <2> QED
    BY <1>1, <1>3, <1>5, <2>1, <2>2, <2>3
<1> QED
  BY <1>1, <1>5, <1>6, <1>15, <1>16 DEF m

\* A candidate's step keeps the books of an unspoilt session.
LEMMA WholeCandidate ==
  ASSUME BooksInv, WholeInv, NEW s, Score(s) \/ RefuseAtGate(s) \/ (StopFiled(s) /\ Filing(s))
  PROVE  WholeInv'
<1>1. Filing(s) /\ pc = "run"
  BY DEF Score, RefuseAtGate, Filing
<1>2. damages = 0 /\ Given(log) /\ log.kind = "none" /\ silicon \in Nat
  BY <1>1 DEF WholeInv, Open, BooksInv
<1>3. CASE Score(s)
  <2>1. PICK r : /\ Of(r, s, "SCORED") /\ r.nb = silicon /\ r.arm = Label(s) /\ ScoredAs(r, s) /\ silicon' = r.na
                 /\ File(r, {Entry(s, "reply")}, AuditOf(s, Real(s)), Real(s))
    BY <1>3, ScoreFiles
  <2>2. r.outcome = "SCORED" /\ Answer(r) = "reply" /\ r.outcome \in Going /\ Of(r, s, r.outcome)
    BY <2>1 DEF Of, Answer, Going
  <2>3. Steady /\ pc' \in {"run", "control", "unconfirmed"}
    BY <1>3 DEF Score
  <2>4. /\ Unspoilt(log)' /\ Given(log)' /\ log'.kind = log.kind /\ Len(log'.records) = s
        /\ fault.kind # "nonce" => Spent(log', s) = silicon + 1
    BY <1>1, <2>1, <2>2, <2>3, FiledNext
  <2>5. fault.kind # "nonce" => silicon' = silicon + 1
    BY <2>1 DEF ScoredAs, Bites
  <2>6. fault'.kind # "nonce" => silicon' = Spent(log, Len(log.records))'
    BY <2>3, <2>4, <2>5 DEF Steady, Spent
  <2> QED
    BY <1>2, <2>3, <2>4, <2>6 DEF WholeInv, Steady, HonestIsJudgedByItsEnd, FalsifierIsKilled, Judged, Open
<1>4. CASE RefuseAtGate(s)
  <2>1. PICK r : /\ Of(r, s, "REFUSED_BY_GATE") /\ r.nb = silicon /\ r.arm = Label(s) /\ RefusedAs(r, s)
                 /\ File(r, {Entry(s, "refusal")}, {}, Real(s))
    BY <1>4, RefusedFiles
  <2>2. r.outcome # "SCORED" /\ Answer(r) = "refusal" /\ r.outcome \in Going /\ Of(r, s, r.outcome)
    BY <2>1 DEF Of, Answer, Going
  <2>3. Steady /\ pc' \in {"run", "unconfirmed"} /\ silicon' = silicon
    BY <1>4 DEF RefuseAtGate
  <2>4. /\ Unspoilt(log)' /\ Given(log)' /\ log'.kind = log.kind /\ Len(log'.records) = s
        /\ fault.kind # "nonce" => Spent(log', s) = silicon + 0
    BY <1>1, <2>1, <2>2, <2>3, FiledNext
  <2>5. fault'.kind # "nonce" => silicon' = Spent(log, Len(log.records))'
    BY <1>2, <2>3, <2>4 DEF Steady, Spent
  <2> QED
    BY <1>2, <2>3, <2>4, <2>5 DEF WholeInv, Steady, HonestIsJudgedByItsEnd, FalsifierIsKilled, Judged, Open
<1>5. CASE StopFiled(s)
  <2>1. Steady /\ pc' = "stopped"
    BY <1>5 DEF StopFiled
  <2>2. PICK r, entries, chunks : \E t \in Truths : Of(r, s, r.outcome) /\ File(r, entries, chunks, t)
    BY <1>5 DEF StopFiled
  <2>3. PICK t \in Truths : Of(r, s, r.outcome) /\ File(r, entries, chunks, t)
    BY <2>2
  <2> DEFINE m == log'
  <2>4. m.ident = log.ident /\ m.retried = log.retried /\ m.dropped = log.dropped /\ m.kind = log.kind /\ DOMAIN m.missed = DOMAIN log.missed
    BY <1>1, <2>3, FileKeeps
  <2> HIDE DEF m
  <2>5. Given(m)
    BY <1>2, <2>4 DEF Given
  <2>6. Given(log)' /\ log'.kind = "none"
    BY <1>2, <2>1, <2>4, <2>5, GivenMoves DEF m, Steady
  <2> QED
    BY <1>2, <2>1, <2>6 DEF WholeInv, Steady, HonestIsJudgedByItsEnd, FalsifierIsKilled, Judged, Open
<1> QED
  BY <1>3, <1>4, <1>5

\* So does the end of the session.
LEMMA WholeEnd ==
  ASSUME BooksInv, WholeInv, NEW s, StopUnrecorded(s) \/ CloseSession \/ EndStopped \/ Crash
  PROVE  WholeInv'
<1> DEFINE n == Len(log.records)
           m == log'
<1>1. DOMAIN log = LogFields /\ n \in Nat
  BY DEF BooksInv, LogHolds
<1>2. /\ UNCHANGED <<plan, fault, truth, damages>> /\ pc \in Open /\ pc' \in {"stopped", "ended"}
      /\ damages = 0 /\ Given(log) /\ log.kind = "none"
  BY DEF StopUnrecorded, CloseSession, EndStopped, Crash, Steady, Filing, Open, BooksInv, WholeInv
<1>3. HonestIsJudgedByItsEnd' /\ FalsifierIsKilled'
  BY <1>2 DEF HonestIsJudgedByItsEnd, FalsifierIsKilled, Judged
<1>4. CASE StopUnrecorded(s)
  <2>1. \E x, y, z : log' = [log EXCEPT !.entries = x, !.asked = y, !.signs = z]
    BY <1>4 DEF StopUnrecorded
  <2>2. m.ident = log.ident /\ m.retried = log.retried /\ m.dropped = log.dropped /\ m.kind = log.kind /\ m.missed = log.missed
    BY <1>1, <2>1 DEF LogFields
  <2>3. pc' = "stopped"
    BY <1>4 DEF StopUnrecorded
  <2> HIDE DEF m
  <2>4. Given(m)
    BY <1>2, <2>2 DEF Given
  <2>5. Given(log)' /\ log'.kind = "none"
    BY <1>2, <2>2, <2>4, GivenMoves DEF m
  <2> QED
    BY <1>2, <1>3, <2>3, <2>5 DEF WholeInv, Open
<1>5. CASE CloseSession
  <2>1. pc = "control" /\ pc' = "ended"
    BY <1>5 DEF CloseSession
  <2> DEFINE done == Summary(log, "COMPLETED", Closed)
             kept == Summary(log, "STOPPED", {"restore"} \cup BaselineMark)
             f == IF fault.kind = "refusal" THEN F_ARM_AUTH + 1 ELSE F_ARM_AUTH
             last == [fault |-> f, nb |-> silicon]
             closed == [done EXCEPT !.control = <<last>>]
  <2>2. log' = closed \/ log' = kept
    BY <1>5 DEF CloseSession, Closed
  <2>3. CASE log' = kept
    <3>1. log'.kind = "STOPPED"
      BY <1>1, <2>3 DEF Summary, LogFields
    <3> QED
      BY <1>3, <2>1, <3>1 DEF WholeInv, Open
  <2>4. CASE log' = closed
    <3>1. /\ DOMAIN done = LogFields /\ done.records = log.records /\ done.chunks = log.chunks /\ done.entries = log.entries
          /\ done.asked = log.asked /\ done.signs = log.signs /\ done.recs = log.recs /\ done.missed = log.missed
      BY <1>1 DEF Summary, LogFields
    <3>2. /\ done.ident = log.ident /\ done.retried = log.retried /\ done.dropped = log.dropped
          /\ done.kind = "COMPLETED" /\ done.by = "app" /\ done.closing = Closed /\ done.total = n
          /\ done.audited = BoardAudited(log) + (IF fault.kind = "count" THEN 1 ELSE 0)
      BY <1>1 DEF Summary, LogFields
    <3> HIDE DEF done, last
    <3>3. /\ m.records = log.records /\ m.chunks = log.chunks /\ m.entries = log.entries
          /\ m.asked = log.asked /\ m.signs = log.signs /\ m.recs = log.recs /\ m.missed = log.missed
      BY <2>4, <3>1 DEF LogFields
    <3>4. /\ m.ident = log.ident /\ m.retried = log.retried /\ m.dropped = log.dropped
          /\ m.kind = "COMPLETED" /\ m.by = "app" /\ m.closing = Closed /\ m.total = n
          /\ m.audited = BoardAudited(log) + (IF fault.kind = "count" THEN 1 ELSE 0) /\ m.control = <<last>>
      BY <2>4, <3>1, <3>2 DEF LogFields
    <3> HIDE DEF m
    <3>5. m.control # << >> /\ m.control[1].fault = f /\ m.control[1].nb = silicon
      BY <3>4 DEF last
    <3>6. Unspoilt(log) /\ (fault.kind # "nonce" => silicon = Spent(log, n)) /\ n = LastSeq
      BY <2>1 DEF WholeInv, BooksInv, EndHolds, Open
    <3>7. /\ (\A i : Spent(m, i) = Spent(log, i)) /\ Scored(m) = Scored(log) /\ BoardAudited(m) = BoardAudited(log)
          /\ \A i : FiledAs(log, i) => FiledAs(m, i)
      BY <3>3 DEF Spent, Scored, BoardAudited, FiledAs
    <3>8. Unspoilt(m) /\ Given(m)
      BY <1>2, <3>3, <3>4, <3>6, <3>7 DEF Unspoilt, Given
    <3>9. Summed(m)
      BY <3>3, <3>4, <3>5, <3>6, <3>7 DEF Summed
    <3>10. Unspoilt(log)' /\ Given(log)'
      BY <1>2, <3>8, UnspoiltMoves, GivenMoves DEF m
    <3>11. Summed(log)'
      <4>1. LastSeq' = LastSeq
        BY <1>2, SameCandidate
      <4> QED
        BY <1>2, <3>9, <4>1 DEF Summed, m, BoardAudited, Spent
    <3> QED
      BY <1>3, <2>1, <3>10, <3>11 DEF WholeInv, Open
  <2> QED
    BY <2>2, <2>3, <2>4
<1>6. CASE EndStopped \/ Crash
  <2>1. log'.kind # "COMPLETED"
    <3>1. \A k, c : Summary(log, k, c).kind = k
      BY <1>1 DEF Summary, LogFields
    <3>2. EndStopped => log'.kind # "COMPLETED"
      BY <3>1 DEF EndStopped
    <3>3. ASSUME Crash PROVE log'.kind # "COMPLETED"
      <4>1. PICK l : (\E x, y, z : l = [log EXCEPT !.entries = x, !.chunks = y, !.asked = z])
                     /\ log' = [l EXCEPT !.by = "collector", !.kind = "CRASHED", !.audited = crash_audit_count(l), !.total = Len(l.records)]
        BY <3>3 DEF Crash
      <4>2. DOMAIN l = LogFields
        BY <1>1, <4>1
      <4> QED
        BY <4>1, <4>2 DEF LogFields
    <3> QED
      BY <1>6, <3>2, <3>3
  <2>2. pc' = "ended"
    BY <1>6 DEF EndStopped, Crash
  <2> QED
    BY <1>3, <2>1, <2>2 DEF WholeInv, Open
<1> QED
  BY <1>4, <1>5, <1>6

\* The budgets are numbers.
LEMMA Budgets ==
  ASSUME plan \in Plans
  PROVE  DropBudget \in Nat /\ \A c \in Nat : hb_missing_budget(c, PerBeat) >= 0
<1>1. N \in Nat \ {0} /\ PerBeat \in Nat \ {0}
  BY BooksAssumption
<1> DEFINE C == Cardinality(Requested \cap all_seqs(N))
<1>2. C \in Nat
  <2>1. IsFiniteSet(all_seqs(N))
    BY <1>1, FS_Interval DEF all_seqs
  <2> QED
    BY <2>1, FS_Intersection, FS_CardinalityType
<1>3. DropBudget = (4 * (3 + 18 * (N + 2) + 9 * C) + 999) \div 1000
  BY DEF DropBudget, crc_budget, expected_frames
<1> HIDE DEF C
<1>4. DropBudget \in Nat
  BY <1>1, <1>2, <1>3
<1>5. \A c \in Nat : c \div PerBeat >= 0
  BY <1>1
<1> QED
  BY <1>4, <1>5 DEF hb_missing_budget

\* The summary of a session that finished is in order.
LEMMA SummaryOk ==
  ASSUME NEW l, Finished(l), fault.kind \notin {"drops", "count"}
  PROVE  SummaryVerdict(l) = "ok"
<1> DEFINE P1 == l.kind = "COMPLETED" => l.closing = {"restore", "baseline", "control"}
           P2 == l.kind \in {"STOPPED", "PROTOCOL"} => l.closing \subseteq {"restore"}
           P3 == l.kind = "CRASHED" => l.by = "collector" /\ l.closing = {}
           P4 == l.audited <= l.total
           P5 == l.dropped > DropBudget => l.kind \in {"PROTOCOL", "CRASHED"}
           v == <<Rule(P1, "error"), Rule(P2, "error"), Rule(P3, "error"), Rule(P4, "error"), Rule(P5, "error")>>
<1>1. SummaryVerdict(l) = First(v)
  BY DEF SummaryVerdict
<1>2. P1 /\ P2 /\ P3
  BY DEF Finished, Summed, Closed
<1>3. P4
  <2>1. Len(l.records) \in Nat /\ DOMAIN l.records = 1 .. Len(l.records)
    BY DEF Finished, Unspoilt
  <2> DEFINE n == Len(l.records)
             S == {i \in DOMAIN l.records : l.records[i].audited}
  <2>2. S \in SUBSET (1 .. n) /\ IsFiniteSet(1 .. n) /\ Cardinality(1 .. n) = n
    BY <2>1, FS_Interval
  <2>3. Cardinality(S) <= n /\ Cardinality(S) \in Nat
    BY <2>2, FS_Subset, FS_CardinalityType
  <2>4. BoardAudited(l) = Cardinality(S)
    BY DEF BoardAudited
  <2> HIDE DEF S
  <2>5. l.audited = BoardAudited(l) + 0 /\ l.total = n
    BY DEF Finished, Summed
  <2> QED
    BY <2>1, <2>3, <2>4, <2>5
<1>4. P5
  BY Budgets DEF Finished, Given
<1> HIDE DEF P1, P2, P3, P4, P5
<1>5. /\ DOMAIN v = 1 .. 5 /\ v[1] = Rule(P1, "error") /\ v[2] = Rule(P2, "error") /\ v[3] = Rule(P3, "error")
      /\ v[4] = Rule(P4, "error") /\ v[5] = Rule(P5, "error")
  OBVIOUS
<1> HIDE DEF v
<1>6. \A k \in 1 .. 5 : v[k] = "ok"
  <2>1. \A k \in 1 .. 5 : k = 1 \/ k = 2 \/ k = 3 \/ k = 4 \/ k = 5
    OBVIOUS
  <2> QED
    BY <1>2, <1>3, <1>4, <1>5, <2>1 DEF Rule
<1> QED
  BY <1>1, <1>5, <1>6, AllOk

\* A candidate that was filed is judged by what its board measured.
LEMMA RecordJudged ==
  ASSUME plan \in Plans, NEW l, NEW i \in Nat \ {0}, i <= LastSeq, FiledAs(l, i)
  PROVE  RecordVerdict(l.records[i]) =
           IF l.records[i].outcome = "SCORED" /\ \E k \in {"link2", "nonce", "hw", "tables"} : Bites(k, i)
             THEN "false" ELSE "ok"
<1> DEFINE r == l.records[i]
           o == r.outcome
           spends == o \in {"REFUSED_BY_PL", "SCORED"}
           P1 == Needs(o) \subseteq r.parts /\ Forbids(o) \cap r.parts = {}
           P2 == o = "STOP_SIGN" => ~r.audited
           P3 == o \notin {"STOP_LINK2"} \cup Unsigned /\ "oracle" \in r.parts => r.staged = r.commit
           P4 == o = "STOP_AUDIT" => ~r.audited
           P5 == o = "STOP_LINK3" => {"arm", "score"} \cap r.parts = {} /\ r.read # r.commit
           armed == IF o \in ArmOutcomes THEN ArmVerdict(r) ELSE "ok"
           v == <<Rule(P1, "error"), Rule(P2, "error"), Rule(P3, "false"), Rule(P4, "error"), Rule(P5, "error"), armed>>
<1>1. /\ r.outcome \in Going /\ r.commit = Genome(i) /\ r.nb \in Nat
      /\ r.outcome = "SCORED" => ScoredAs(r, i)
      /\ r.outcome # "SCORED" => RefusedAs(r, i)
  BY DEF FiledAs, Of, BookRecords
<1>2. Genome(i) # "other"
  <2>1. Genome(i) \in Arms \cup {"blank"}
    BY GenomeIsArm
  <2> QED
    BY <2>1 DEF Arms
<1>3. P2 /\ P4 /\ P5
  BY <1>1 DEF Going
<1>4. RecordVerdict(r) = First(v)
  BY DEF RecordVerdict
<1>5. CASE o = "SCORED"
  <2>1. ScoredAs(r, i)
    BY <1>1, <1>5
  <2>2. P1
    BY <1>5, <2>1 DEF ScoredAs, Needs, Forbids, Unsigned
  <2>3. P3 <=> r.staged = r.commit
    BY <1>5, <2>1 DEF ScoredAs, Unsigned
  <2> DEFINE A1 == r.read = r.commit /\ "arm" \in r.parts
             A2 == o = "STOP_SETTLE" => "score" \notin r.parts /\ ~r.settled
             A3 == o = "STOP_SETTLE" => r.na \in {r.nb, r.nb + 1}
             A4 == o # "STOP_SETTLE" => r.settled
             A5 == o = "STOP_ARM" => "score" \notin r.parts /\ r.na = r.nb
             A6 == spends => r.na = r.nb + 1
             A7 == spends => ((r.fault # 0) <=> (o = "REFUSED_BY_PL"))
             A8 == spends => (("score" \in r.parts) <=> (o = "SCORED"))
             A9 == o = "SCORED" => r.hw = r.commit /\ r.tables = r.commit
             w == <<Rule(A1, "error"), Rule(A2, "error"), Rule(A3, "false"), Rule(A4, "error"), Rule(A5, "error"),
                    Rule(A6, "false"), Rule(A7, "error"), Rule(A8, "error"), Rule(A9, "false")>>
  <2>4. A1 /\ A2 /\ A3 /\ A4 /\ A5 /\ A7 /\ A8
    BY <1>1, <1>5, <2>1 DEF ScoredAs
  <2>5. (A6 <=> r.na = r.nb + 1) /\ (A9 <=> r.hw = r.commit /\ r.tables = r.commit)
    BY <1>5
  <2>6. ArmVerdict(r) = First(w)
    BY DEF ArmVerdict
  <2>7. armed = ArmVerdict(r)
    BY <1>5 DEF ArmOutcomes
  <2> HIDE DEF A1, A2, A3, A4, A5, A6, A7, A8, A9, P1, P2, P3, P4, P5, armed, r, o
  <2>8. /\ DOMAIN w = 1 .. 9 /\ w[1] = Rule(A1, "error") /\ w[2] = Rule(A2, "error") /\ w[3] = Rule(A3, "false")
        /\ w[4] = Rule(A4, "error") /\ w[5] = Rule(A5, "error") /\ w[6] = Rule(A6, "false")
        /\ w[7] = Rule(A7, "error") /\ w[8] = Rule(A8, "error") /\ w[9] = Rule(A9, "false")
    OBVIOUS
  <2>9. /\ DOMAIN v = 1 .. 6 /\ v[1] = Rule(P1, "error") /\ v[2] = Rule(P2, "error") /\ v[3] = Rule(P3, "false")
        /\ v[4] = Rule(P4, "error") /\ v[5] = Rule(P5, "error") /\ v[6] = armed
    OBVIOUS
  <2> HIDE DEF v, w
  <2>10. /\ w[1] = "ok" /\ w[2] = "ok" /\ w[3] = "ok" /\ w[4] = "ok" /\ w[5] = "ok" /\ w[7] = "ok" /\ w[8] = "ok"
         /\ w[6] = (IF A6 THEN "ok" ELSE "false") /\ w[9] = (IF A9 THEN "ok" ELSE "false")
    BY <2>4, <2>8 DEF Rule
  <2>11. /\ v[1] = "ok" /\ v[2] = "ok" /\ v[4] = "ok" /\ v[5] = "ok" /\ v[3] = (IF P3 THEN "ok" ELSE "false")
    BY <1>3, <2>2, <2>9 DEF Rule
  <2>12. First(w) = IF A6 /\ A9 THEN "ok" ELSE "false"
    <3>1. \A k \in 1 .. 9 : k \in {1, 2, 3, 4, 5, 7, 8} \/ k = 6 \/ k = 9
      OBVIOUS
    <3>2. CASE ~A6
      <4>1. DOMAIN w = 1 .. 9 /\ w[6] = "false" /\ 6 \in 1 .. 9 /\ \A k \in 1 .. 9 : k < 6 => w[k] = "ok"
        BY <2>8, <2>10, <3>1, <3>2
      <4>2. First(w) = "false"
        BY <4>1, FirstFalse
      <4> QED
        BY <3>2, <4>2
    <3>3. CASE A6 /\ ~A9
      <4>1. DOMAIN w = 1 .. 9 /\ w[9] = "false" /\ 9 \in 1 .. 9 /\ \A k \in 1 .. 9 : k < 9 => w[k] = "ok"
        BY <2>8, <2>10, <3>1, <3>3
      <4>2. First(w) = "false"
        BY <4>1, FirstFalse
      <4> QED
        BY <3>3, <4>2
    <3>4. CASE A6 /\ A9
      <4>1. \A k \in 1 .. 9 : w[k] = "ok"
        BY <2>10, <3>1, <3>4
      <4> QED
        BY <2>8, <3>4, <4>1, AllOk
    <3> QED
      BY <3>2, <3>3, <3>4
  <2>13. First(v) = IF P3 /\ A6 /\ A9 THEN "ok" ELSE "false"
    <3>1. v[6] = IF A6 /\ A9 THEN "ok" ELSE "false"
      BY <2>6, <2>7, <2>9, <2>12
    <3>2. CASE ~P3
      <4>1. \A k \in 1 .. 6 : k < 3 => v[k] = "ok"
        <5>1. \A k \in 1 .. 6 : k < 3 => k = 1 \/ k = 2
          OBVIOUS
        <5> QED
          BY <2>11, <5>1
      <4>2. DOMAIN v = 1 .. 6 /\ v[3] = "false" /\ 3 \in 1 .. 6
        BY <2>9, <2>11, <3>2
      <4>3. First(v) = "false"
        BY <4>1, <4>2, FirstFalse
      <4> QED
        BY <3>2, <4>3
    <3>3. CASE P3
      <4>1. \A k \in 1 .. 6 : k < 6 => v[k] = "ok"
        <5>1. \A k \in 1 .. 6 : k < 6 => k = 1 \/ k = 2 \/ k = 3 \/ k = 4 \/ k = 5
          OBVIOUS
        <5> QED
          BY <2>11, <3>3, <5>1
      <4>2. CASE A6 /\ A9
        <5>1. \A k \in 1 .. 6 : v[k] = "ok"
          <6>1. \A k \in 1 .. 6 : k < 6 \/ k = 6
            OBVIOUS
          <6> QED
            BY <3>1, <4>1, <4>2, <6>1
        <5> QED
          BY <2>9, <3>3, <4>2, <5>1, AllOk
      <4>3. CASE ~(A6 /\ A9)
        <5>1. DOMAIN v = 1 .. 6 /\ v[6] = "false" /\ 6 \in 1 .. 6
          BY <2>9, <3>1, <4>3
        <5>2. First(v) = "false"
          BY <4>1, <5>1, FirstFalse
        <5> QED
          BY <4>3, <5>2
      <4> QED
        BY <4>2, <4>3
    <3> QED
      BY <3>2, <3>3
  <2>14. RecordVerdict(l.records[i]) = First(v)
    BY <1>4 DEF r
  <2>15. (P3 <=> ~Bites("link2", i)) /\ (A6 <=> ~Bites("nonce", i)) /\ (A9 <=> ~Bites("hw", i) /\ ~Bites("tables", i))
    BY <1>1, <1>2, <2>1, <2>3, <2>5 DEF ScoredAs
  <2>16. l.records[i].outcome = "SCORED"
    BY <1>5 DEF o, r
  <2> QED
    BY <2>13, <2>14, <2>15, <2>16
<1>6. CASE o # "SCORED"
  <2>1. o = "REFUSED_BY_GATE" /\ RefusedAs(r, i)
    BY <1>1, <1>6 DEF Going
  <2>2. P1 /\ P3 /\ armed = "ok"
    BY <2>1 DEF RefusedAs, Needs, Forbids, Unsigned, ArmOutcomes
  <2> HIDE DEF P1, P2, P3, P4, P5, armed
  <2>3. /\ DOMAIN v = 1 .. 6 /\ v[1] = Rule(P1, "error") /\ v[2] = Rule(P2, "error") /\ v[3] = Rule(P3, "false")
        /\ v[4] = Rule(P4, "error") /\ v[5] = Rule(P5, "error") /\ v[6] = armed
    OBVIOUS
  <2> HIDE DEF v
  <2>4. \A k \in 1 .. 6 : v[k] = "ok"
    <3>1. \A k \in 1 .. 6 : k = 1 \/ k = 2 \/ k = 3 \/ k = 4 \/ k = 5 \/ k = 6
      OBVIOUS
    <3> QED
      BY <1>3, <2>2, <2>3, <3>1 DEF Rule
  <2> QED
    BY <1>4, <1>6, <2>3, <2>4, AllOk
<1> QED
  BY <1>5, <1>6

\* What is served of a session whose board leaves no audit out.
LEMMA AuditsServed ==
  ASSUME NEW l, Unspoilt(l), fault.kind \notin {"brief", "skip", "forged"}
  PROVE  /\ Assembled(l.chunks) /\ Served(l) = Scored(l) \cap Requested
         /\ \A i \in Served(l) : Span(l, i) = "full" /\ Words(l, i, 0) = Real(i).staged /\ Words(l, i, 1) = Real(i).read
<1> DEFINE Piece(i, k) == [seq |-> i, span |-> "full", k |-> k, words |-> IF k = 0 THEN Real(i).staged ELSE Real(i).read]
<1>1. \A i : AuditOf(i, Real(i)) = IF i \in Requested THEN {Piece(i, k) : k \in {0, 1}} ELSE {}
  BY DEF AuditOf, Chunks, Bites
<1>2. \A i, k : Piece(i, k).seq = i /\ Piece(i, k).span = "full" /\ Piece(i, k).k = k
                /\ Piece(i, k).words = IF k = 0 THEN Real(i).staged ELSE Real(i).read
  OBVIOUS
<1> HIDE DEF Piece
<1>3. \A c \in l.chunks : c.seq \in Scored(l) /\ c.seq \in Requested /\ c.k \in {0, 1} /\ c = Piece(c.seq, c.k)
  <2>1. \A c \in l.chunks : c.seq \in Scored(l) /\ c \in AuditOf(c.seq, Real(c.seq))
    BY DEF Unspoilt
  <2> QED
    BY <1>1, <1>2, <2>1
<1>4. \A i \in Scored(l) \cap Requested : \A k \in {0, 1} : Piece(i, k) \in l.chunks
  <2>1. \A i \in Scored(l) : AuditOf(i, Real(i)) \subseteq l.chunks
    BY DEF Unspoilt
  <2> QED
    BY <1>1, <2>1
<1>5. Served(l) = Scored(l) \cap Requested
  <2>1. \A i \in Served(l) : i \in Scored(l) \cap Requested
    BY <1>3 DEF Served
  <2>2. \A i \in Scored(l) \cap Requested : i \in Served(l)
    BY <1>2, <1>4 DEF Served
  <2> QED
    BY <2>1, <2>2
<1>6. Assembled(l.chunks)
  <2>1. \A c, d \in l.chunks : c.seq = d.seq => c.span = d.span /\ (c.k = d.k => c = d)
    BY <1>2, <1>3
  <2>2. ASSUME NEW c \in l.chunks PROVE {d.k : d \in {e \in l.chunks : e.seq = c.seq}} = Whole(c.span)
    <3>1. Whole(c.span) = {0, 1} /\ c.seq \in Scored(l) \cap Requested
      BY <1>2, <1>3 DEF Whole
    <3>2. \A k \in {0, 1} : \E d \in {e \in l.chunks : e.seq = c.seq} : d.k = k
      BY <1>2, <1>4, <3>1
    <3>3. \A d \in l.chunks : d.k \in {0, 1}
      BY <1>3
    <3> QED
      BY <3>1, <3>2, <3>3
  <2> QED
    BY <2>1, <2>2 DEF Assembled
<1>7. \A i \in Served(l) : Span(l, i) = "full"
  <2> SUFFICES ASSUME NEW i \in Served(l) PROVE Span(l, i) = "full"
    OBVIOUS
  <2> DEFINE c0 == CHOOSE c \in l.chunks : c.seq = i
  <2>1. \E c \in l.chunks : c.seq = i
    BY DEF Served
  <2>2. c0 \in l.chunks /\ Span(l, i) = c0.span
    BY <2>1 DEF Span
  <2> HIDE DEF c0
  <2> QED
    BY <1>2, <1>3, <2>2
<1>8. \A i \in Served(l) : Words(l, i, 0) = Real(i).staged /\ Words(l, i, 1) = Real(i).read
  <2> SUFFICES ASSUME NEW i \in Served(l) PROVE Words(l, i, 0) = Real(i).staged /\ Words(l, i, 1) = Real(i).read
    OBVIOUS
  <2>1. \A k \in {0, 1} : \E c \in l.chunks : c.seq = i /\ c.k = k /\ Words(l, i, k) = c.words
    BY <1>6, <1>7, ChunkFound
  <2> QED
    BY <1>2, <1>3, <2>1
<1> QED
  BY <1>5, <1>6, <1>7, <1>8

\* The marks of such a session are those the host derives.
LEMMA MarksOk ==
  ASSUME NEW l, Unspoilt(l), fault.kind \notin {"brief", "skip", "forged"}
  PROVE  /\ Marks(l) /\ HostAudited(l) = BoardAudited(l)
         /\ \A i \in DOMAIN l.records : HostMark(l, l.records[i]) <=> i \in Served(l)
<1>1. Served(l) = Scored(l) \cap Requested /\ \A i \in Served(l) : Span(l, i) = "full"
  BY AuditsServed
<1>2. ASSUME NEW i \in DOMAIN l.records
      PROVE  (HostMark(l, l.records[i]) <=> i \in Served(l)) /\ l.records[i].audited = HostMark(l, l.records[i])
  <2> DEFINE r == l.records[i]
  <2>1. FiledAs(l, i)
    BY <1>2 DEF Unspoilt
  <2>2. /\ r.seq = i /\ r.outcome \in Going
        /\ r.outcome = "SCORED" => r.audited = MarkOf(i)
        /\ r.outcome # "SCORED" => r.audited = FALSE
    BY <2>1 DEF FiledAs, Of, ScoredAs, RefusedAs
  <2>3. i \in Scored(l) <=> r.outcome = "SCORED"
    BY <1>2 DEF Scored
  <2>4. MarkOf(i) = (i \in Requested)
    BY DEF MarkOf, Bites
  <2>5. HostMark(l, r) = (i \in Served(l))
    BY <1>1, <2>2 DEF HostMark
  <2>6. r.audited = (i \in Served(l))
    <3>1. CASE r.outcome = "SCORED"
      <4>1. (i \in Served(l)) <=> (i \in Requested)
        BY <1>1, <2>3, <3>1
      <4> QED
        BY <2>2, <2>4, <3>1, <4>1
    <3>2. CASE r.outcome # "SCORED"
      <4>1. ~(i \in Served(l)) /\ ~r.audited /\ r.audited \in BOOLEAN
        BY <1>1, <2>2, <2>3, <3>2
      <4> HIDE DEF r
      <4>2. r.audited <=> i \in Served(l)
        BY <4>1
      <4> QED
        BY <4>1, <4>2
    <3> QED
      BY <3>1, <3>2
  <2> QED
    BY <2>5, <2>6
<1>3. HostAudited(l) = BoardAudited(l)
  <2>1. {i \in DOMAIN l.records : HostMark(l, l.records[i])} = {i \in DOMAIN l.records : l.records[i].audited}
    BY <1>2
  <2> QED
    BY <2>1 DEF HostAudited, BoardAudited
<1> QED
  BY <1>2, <1>3 DEF Marks

\* Nothing else than the genome was staged and read.
Sane(i) == Real(i).staged = Genome(i) /\ Real(i).read = Genome(i)

\* The words of an audit are judged by what was really staged and read.
LEMMA WordsJudged ==
  ASSUME plan \in Plans, NEW l, Unspoilt(l), fault.kind \notin {"brief", "skip", "forged", "link2"}, NEW i \in Served(l)
  PROVE  WordsVerdict(l, l.records[i]) = IF Sane(i) THEN "ok" ELSE "false"
<1> DEFINE r == l.records[i]
           link2 == r.outcome = "STOP_LINK2"
           P1 == self_report_class(r) # "none"
           P2 == Words(l, r.seq, 0) # "junk"
           P3 == link2 => Words(l, r.seq, 0) # r.commit
           P4 == ~link2 => Words(l, r.seq, 0) = r.staged
           P5 == ~link2 /\ Span(l, r.seq) = "full" => Words(l, r.seq, 1) = r.read
           v == <<Rule(P1, "error"), Rule(P2, "false"), Rule(P3, "false"), Rule(P4, "false"), Rule(P5, "false")>>
<1>1. i \in Scored(l) /\ Span(l, i) = "full" /\ Words(l, i, 0) = Real(i).staged /\ Words(l, i, 1) = Real(i).read
  BY AuditsServed
<1>2. i \in DOMAIN l.records /\ r.outcome = "SCORED"
  BY <1>1 DEF Scored
<1>3. FiledAs(l, i) /\ i \in Nat \ {0} /\ i <= LastSeq
  <2>1. Len(l.records) \in Nat /\ DOMAIN l.records = 1 .. Len(l.records) /\ Len(l.records) <= LastSeq
        /\ \A j \in 1 .. Len(l.records) : FiledAs(l, j)
    BY DEF Unspoilt
  <2>2. LastSeq \in Nat
    BY BooksAssumption DEF LastSeq
  <2> QED
    BY <1>2, <2>1, <2>2
<1>4. r.seq = i /\ r.staged = Genome(i) /\ r.read = Genome(i) /\ "oracle" \in r.parts
  BY <1>2, <1>3 DEF FiledAs, Of, ScoredAs, Bites
<1>5. Genome(i) # "junk"
  <2>1. Genome(i) \in Arms \cup {"blank"}
    BY <1>3, GenomeIsArm
  <2> QED
    BY <2>1 DEF Arms
<1>6. P1 /\ P3
  BY <1>2, <1>4 DEF self_report_class, Unsigned
<1>7. (P2 /\ P4 /\ P5) <=> Sane(i)
  BY <1>1, <1>2, <1>4, <1>5 DEF Sane
<1>8. WordsVerdict(l, l.records[i]) = First(v)
  BY DEF WordsVerdict
<1> HIDE DEF P1, P2, P3, P4, P5
<1>9. /\ DOMAIN v = 1 .. 5 /\ v[1] = Rule(P1, "error") /\ v[2] = Rule(P2, "false") /\ v[3] = Rule(P3, "false")
      /\ v[4] = Rule(P4, "false") /\ v[5] = Rule(P5, "false")
  OBVIOUS
<1> HIDE DEF v
<1>10. /\ v[1] = "ok" /\ v[3] = "ok" /\ v[2] = (IF P2 THEN "ok" ELSE "false")
       /\ v[4] = (IF P4 THEN "ok" ELSE "false") /\ v[5] = (IF P5 THEN "ok" ELSE "false")
  BY <1>6, <1>9 DEF Rule
<1>11. \A k \in 1 .. 5 : k = 1 \/ k = 2 \/ k = 3 \/ k = 4 \/ k = 5
  OBVIOUS
<1>12. CASE P2 /\ P4 /\ P5
  <2>1. \A k \in 1 .. 5 : v[k] = "ok"
    BY <1>10, <1>11, <1>12
  <2> QED
    BY <1>7, <1>8, <1>9, <1>12, <2>1, AllOk
<1>13. CASE ~P2
  <2>1. \A k \in 1 .. 5 : k < 2 => v[k] = "ok"
    BY <1>10, <1>11
  <2>2. v[2] = "false" /\ 2 \in 1 .. 5
    BY <1>10, <1>13
  <2> QED
    BY <1>7, <1>8, <1>9, <1>13, <2>1, <2>2, FirstFalse
<1>14. CASE P2 /\ ~P4
  <2>1. \A k \in 1 .. 5 : k < 4 => v[k] = "ok"
    BY <1>10, <1>11, <1>14
  <2>2. v[4] = "false" /\ 4 \in 1 .. 5
    BY <1>10, <1>14
  <2> QED
    BY <1>7, <1>8, <1>9, <1>14, <2>1, <2>2, FirstFalse
<1>15. CASE P2 /\ P4 /\ ~P5
  <2>1. \A k \in 1 .. 5 : k < 5 => v[k] = "ok"
    BY <1>10, <1>11, <1>15
  <2>2. v[5] = "false" /\ 5 \in 1 .. 5
    BY <1>10, <1>15
  <2> QED
    BY <1>7, <1>8, <1>9, <1>15, <2>1, <2>2, FirstFalse
<1> QED
  BY <1>12, <1>13, <1>14, <1>15

\* So is the audit of a whole session: by the first that is not sane.
LEMMA VerifyJudged ==
  ASSUME plan \in Plans, NEW l, Unspoilt(l), fault.kind \notin {"brief", "skip", "forged", "link2"}
  PROVE  /\ (\A i \in Served(l) : Sane(i)) => Verify(l) = "ok"
         /\ \A s \in Served(l) : ~Sane(s) /\ (\A i \in Served(l) : i # s => Sane(i)) => Verify(l) = "false"
<1> DEFINE n == Len(l.records)
           e == [i \in 1 .. n |-> IF l.records[i].seq \in Served(l) /\ Assembled(l.chunks)
                                    THEN WordsVerdict(l, l.records[i]) ELSE "ok"]
           P1 == Assembled(l.chunks)
           P2 == Served(l) \subseteq Recorded(l)
           v == <<Rule(P1, "error"), Rule(P2, "error"), First(e)>>
<1>1. n \in Nat /\ DOMAIN l.records = 1 .. n /\ \A i \in 1 .. n : l.records[i].seq = i
  BY DEF Unspoilt, FiledAs, Of
<1>2. P1 /\ Served(l) \subseteq 1 .. n
  <2>1. P1 /\ Served(l) = Scored(l) \cap Requested
    BY AuditsServed
  <2> QED
    BY <1>1, <2>1 DEF Scored
<1>3. P2
  BY <1>1, <1>2 DEF Recorded
<1>4. \A i \in Served(l) : WordsVerdict(l, l.records[i]) = IF Sane(i) THEN "ok" ELSE "false"
  BY WordsJudged
<1>5. Verify(l) = First(v)
  BY DEF Verify, Each
<1>6. DOMAIN e = 1 .. n /\ \A i \in 1 .. n : e[i] = IF i \in Served(l) /\ ~Sane(i) THEN "false" ELSE "ok"
  BY <1>1, <1>2, <1>4
<1> HIDE DEF e, P1, P2
<1>7. DOMAIN v = 1 .. 3 /\ v[1] = Rule(P1, "error") /\ v[2] = Rule(P2, "error") /\ v[3] = First(e)
  OBVIOUS
<1> HIDE DEF v
<1>8. v[1] = "ok" /\ v[2] = "ok"
  BY <1>2, <1>3, <1>7 DEF Rule
<1>9. \A k \in 1 .. 3 : k = 1 \/ k = 2 \/ k = 3
  OBVIOUS
<1>10. ASSUME \A i \in Served(l) : Sane(i) PROVE Verify(l) = "ok"
  <2>1. \A i \in 1 .. n : e[i] = "ok"
    BY <1>6, <1>10
  <2>2. First(e) = "ok"
    BY <1>1, <1>6, <2>1, AllOk
  <2>3. \A k \in 1 .. 3 : v[k] = "ok"
    BY <1>7, <1>8, <1>9, <2>2
  <2> QED
    BY <1>5, <1>7, <2>3, AllOk
<1>11. ASSUME NEW s \in Served(l), ~Sane(s), \A i \in Served(l) : i # s => Sane(i) PROVE Verify(l) = "false"
  <2>1. s \in 1 .. n /\ e[s] = "false"
    BY <1>2, <1>6, <1>11
  <2>2. \A i \in 1 .. n : i < s => e[i] = "ok"
    BY <1>6, <1>11, <2>1
  <2>3. First(e) = "false"
    BY <1>1, <1>6, <2>1, <2>2, FirstFalse
  <2>4. v[3] = "false" /\ 3 \in 1 .. 3 /\ \A k \in 1 .. 3 : k < 3 => v[k] = "ok"
    BY <1>7, <1>8, <1>9, <2>3
  <2> QED
    BY <1>5, <1>7, <2>4, FirstFalse
<1> QED
  BY <1>10, <1>11

\* The rules of a log, in their order.
LEMMA ValidatedIs ==
  ASSUME NEW l
  PROVE  \E v : /\ Validated(l) = First(v) /\ DOMAIN v = 1 .. 8 /\ v[1] = SummaryVerdict(l)
                /\ v[2] = First([i \in 1 .. Len(l.records) |-> RecordVerdict(l.records[i])]) /\ v[3] = Verify(l)
                /\ v[4] = Rule(Marks(l), "error") /\ v[5] = First([i \in 1 .. Len(l.records) |-> Bound(l, i)])
                /\ v[6] = Rule(l.by = "app" => Orphans(l) = {}, "error") /\ v[7] = Control(l)
                /\ v[8] = Rule(l.audited = HostAudited(l) /\ l.total = Len(l.records), "error")
<1> DEFINE n == Len(l.records)
           e1 == First([i \in 1 .. n |-> RecordVerdict(l.records[i])])
           e2 == First([i \in 1 .. n |-> Bound(l, i)])
           P4 == Marks(l)
           P6 == l.by = "app" => Orphans(l) = {}
           P8 == l.audited = HostAudited(l) /\ l.total = n
           v == <<SummaryVerdict(l), e1, Verify(l), Rule(P4, "error"), e2, Rule(P6, "error"), Control(l), Rule(P8, "error")>>
<1>1. Validated(l) = First(v)
  BY DEF Validated, Each, Marks
<1> HIDE DEF P4, P6, P8, e1, e2
<1>2. /\ DOMAIN v = 1 .. 8 /\ v[1] = SummaryVerdict(l) /\ v[2] = e1 /\ v[3] = Verify(l) /\ v[4] = Rule(P4, "error")
      /\ v[5] = e2 /\ v[6] = Rule(P6, "error") /\ v[7] = Control(l) /\ v[8] = Rule(P8, "error")
  OBVIOUS
<1> HIDE DEF v
<1> QED
  BY <1>1, <1>2 DEF P4, P6, P8, e1, e2

\* The candidates of a session that finished.
LEMMA FinishedOnes ==
  ASSUME NEW l, Finished(l)
  PROVE  /\ Len(l.records) \in Nat /\ Len(l.records) = LastSeq /\ LastSeq \in N + 1 .. N + 2 /\ N >= 1 /\ N \in Nat
         /\ DOMAIN l.records = 1 .. Len(l.records)
         /\ \A i \in 1 .. Len(l.records) :
              /\ FiledAs(l, i) /\ i \in Nat \ {0} /\ i <= LastSeq
              /\ l.records[i].seq = i /\ l.records[i].outcome \in Outcomes
<1>1. N \in Nat \ {0} /\ LastSeq \in {N + 1, N + 2}
  BY BooksAssumption DEF LastSeq
<1>2. Len(l.records) \in Nat /\ DOMAIN l.records = 1 .. Len(l.records) /\ Len(l.records) = LastSeq
  BY DEF Finished, Unspoilt, Summed
<1>3. \A i \in 1 .. Len(l.records) : FiledAs(l, i) /\ l.records[i].seq = i /\ l.records[i].outcome \in Outcomes
  BY DEF Finished, Unspoilt, FiledAs, Of, BookRecords
<1> QED
  BY <1>1, <1>2, <1>3

\* Its records are in order, unless the board measured what was not signed.
LEMMA RecordsOk ==
  ASSUME NEW l, Finished(l), fault.kind \notin {"link2", "nonce", "hw", "tables"}
  PROVE  \A i \in 1 .. Len(l.records) : RecordVerdict(l.records[i]) = "ok"
<1> SUFFICES ASSUME NEW i \in 1 .. Len(l.records) PROVE RecordVerdict(l.records[i]) = "ok"
  OBVIOUS
<1>1. FiledAs(l, i) /\ i \in Nat \ {0} /\ i <= LastSeq /\ plan \in Plans
  BY FinishedOnes DEF Finished
<1>2. \A k \in {"link2", "nonce", "hw", "tables"} : ~Bites(k, i)
  BY DEF Bites
<1> QED
  BY <1>1, <1>2, RecordJudged

\* Its chain is whole, and no signature lacks its record.
LEMMA ChainOk ==
  ASSUME NEW l, Finished(l), fault.kind \notin {"link2", "nonce", "hw", "tables"}
  PROVE  /\ \A i \in 1 .. Len(l.records) : Bound(l, i) = "ok"
         /\ Orphans(l) = {} /\ Chain(l, Len(l.records)) = Spent(l, Len(l.records))
<1> DEFINE n == Len(l.records)
<1>1. /\ n \in Nat /\ DOMAIN l.records = 1 .. n
      /\ \A i \in 1 .. n : FiledAs(l, i) /\ l.records[i].seq = i /\ l.records[i].outcome \in Outcomes
  BY FinishedOnes
<1>2. \A i \in 1 .. n : RecordVerdict(l.records[i]) = "ok"
  BY RecordsOk
<1>3. \A i \in 0 .. n : Chain(l, i) = Spent(l, i)
  <2> HIDE DEF n
  <2> QED
    BY <1>1, <1>2, ChainIsSpent DEF n
<1>4. ASSUME NEW i \in 1 .. n PROVE Bound(l, i) = "ok"
  <2> DEFINE r == l.records[i]
             o == r.outcome
             armed == o \notin Unsigned /\ "arm" \in r.parts
             P1 == o = "STOP_SIGN" => i = Len(l.records)
             P2 == o = "REFUSED_BY_GATE" => \E e \in l.entries : e.seq = r.seq /\ e.answer = "refusal"
             P3 == o \notin Unsigned => \E e \in l.entries : e.seq = r.seq /\ e.answer = "reply" /\ e.commit = r.commit
             P4 == armed => \E e \in l.entries : e.seq = r.seq /\ e.nonce = r.nb
             P5 == armed => r.nb = Chain(l, i - 1)
             v == <<Rule(P1, "error"), Rule(P2, "error"), Rule(P3, "error"), Rule(P4, "false"), Rule(P5, "false")>>
  <2>1. /\ r.seq = i /\ r.outcome \in Going /\ r.commit = Genome(i)
        /\ [seq |-> i, answer |-> Answer(r), commit |-> Genome(i), nonce |-> r.nb] \in l.entries
        /\ r.nb = Spent(l, i - 1)
    BY <1>1 DEF FiledAs, Of
  <2>2. \E e \in l.entries : e.seq = i /\ e.answer = Answer(r) /\ e.commit = r.commit /\ e.nonce = r.nb
    BY <2>1
  <2>3. P1 /\ P2 /\ P3 /\ P4
    BY <2>1, <2>2 DEF Going, Unsigned, Answer
  <2>4. P5
    <3>1. i - 1 \in 0 .. n
      BY <1>1
    <3> QED
      BY <1>3, <2>1, <3>1
  <2>5. Bound(l, i) = First(v)
    BY DEF Bound
  <2> HIDE DEF P1, P2, P3, P4, P5
  <2>6. /\ DOMAIN v = 1 .. 5 /\ v[1] = Rule(P1, "error") /\ v[2] = Rule(P2, "error") /\ v[3] = Rule(P3, "error")
        /\ v[4] = Rule(P4, "false") /\ v[5] = Rule(P5, "false")
    OBVIOUS
  <2> HIDE DEF v
  <2>7. \A k \in 1 .. 5 : v[k] = "ok"
    <3>1. \A k \in 1 .. 5 : k = 1 \/ k = 2 \/ k = 3 \/ k = 4 \/ k = 5
      OBVIOUS
    <3> QED
      BY <2>3, <2>4, <2>6, <3>1 DEF Rule
  <2> QED
    BY <2>5, <2>6, <2>7, AllOk
<1>5. Orphans(l) = {}
  <2>1. \A e \in l.entries : e.seq \in 1 .. n
    BY DEF Finished, Unspoilt
  <2> QED
    BY <1>1, <2>1 DEF Orphans, Recorded
<1>6. n \in 0 .. n
  BY <1>1
<1> QED
  BY <1>3, <1>4, <1>5, <1>6

\* Its brackets were scored.
LEMMA Brackets ==
  ASSUME NEW l, Finished(l)
  PROVE  /\ FirstScored(l) = l.records[1] /\ LastScored(l) = l.records[LastSeq] /\ 1 # LastSeq
         /\ {1, LastSeq} \subseteq Scored(l) /\ IsFiniteSet(Scored(l)) /\ Cardinality(Scored(l)) >= 2
         /\ Genome(1) = "blank" /\ Genome(LastSeq) = "blank"
<1> DEFINE n == LastSeq
           S == Scored(l)
<1>1. /\ n \in Nat /\ n >= 2 /\ DOMAIN l.records = 1 .. n
      /\ \A i \in 1 .. n : FiledAs(l, i)
  BY FinishedOnes
<1>2. Blank(1) /\ Blank(n)
  BY DEF Blank
<1>3. \A i \in {1, n} : i \in S
  <2> SUFFICES ASSUME NEW i \in {1, n} PROVE i \in S
    OBVIOUS
  <2>1. FiledAs(l, i) /\ Blank(i) /\ i \in DOMAIN l.records
    BY <1>1, <1>2
  <2>2. l.records[i].outcome = "SCORED"
    BY <2>1 DEF FiledAs, RefusedAs
  <2> QED
    BY <2>1, <2>2 DEF Scored
<1>4. S \subseteq 1 .. n /\ IsFiniteSet(1 .. n)
  BY <1>1, FS_Interval DEF Scored
<1> DEFINE first == CHOOSE i \in S : \A j \in S : i <= j
           last == CHOOSE i \in S : \A j \in S : i >= j
<1>9. FirstScored(l) = l.records[first] /\ LastScored(l) = l.records[last]
  BY DEF FirstScored, LastScored
<1> HIDE DEF S
<1>5. first = 1
  <2>1. 1 \in S /\ \A j \in S : 1 <= j
    BY <1>1, <1>3, <1>4
  <2>2. first \in S /\ \A j \in S : first <= j
    BY <2>1
  <2>3. first <= 1 /\ 1 <= first /\ first \in 1 .. n
    BY <1>4, <2>1, <2>2
  <2> QED
    BY <1>1, <2>3
<1>6. last = n
  <2>1. n \in S /\ \A j \in S : n >= j
    BY <1>1, <1>3, <1>4
  <2>2. last \in S /\ \A j \in S : last >= j
    BY <2>1
  <2>3. last >= n /\ n >= last /\ last \in 1 .. n
    BY <1>4, <2>1, <2>2
  <2> QED
    BY <1>1, <2>3
<1>7. IsFiniteSet(S) /\ Cardinality(S) >= 2
  <2>1. IsFiniteSet(S) /\ Cardinality(S) \in Nat
    BY <1>4, FS_Subset, FS_CardinalityType
  <2>2. {1, n} \subseteq S /\ 1 # n
    BY <1>1, <1>3
  <2>3. Cardinality({1, n}) = 2
    <3>1. IsFiniteSet({1}) /\ Cardinality({1}) = 1 /\ n \notin {1}
      BY <2>2, FS_Singleton
    <3>2. Cardinality({1} \cup {n}) = Cardinality({1}) + 1
      BY <3>1, FS_AddElement
    <3>3. {1} \cup {n} = {1, n}
      OBVIOUS
    <3> QED
      BY <3>1, <3>2, <3>3
  <2>4. Cardinality({1, n}) <= Cardinality(S)
    BY <2>1, <2>2, FS_Subset
  <2> QED
    BY <2>1, <2>3, <2>4
<1>8. Genome(1) = "blank" /\ Genome(n) = "blank"
  BY <1>2 DEF Genome
<1> HIDE DEF first, last
<1>10. FirstScored(l) = l.records[1] /\ LastScored(l) = l.records[n]
  BY <1>5, <1>6, <1>9
<1>11. {1, n} \subseteq S /\ 1 # n
  BY <1>1, <1>3
<1> QED
  BY <1>7, <1>8, <1>10, <1>11 DEF S

\* Its control is in order, unless the unsigned ARM was not refused.
LEMMA ControlJudged ==
  ASSUME NEW l, Finished(l), fault.kind \notin {"link2", "nonce", "hw", "tables"}
  PROVE  Control(l) = IF fault.kind = "refusal" THEN "false" ELSE "ok"
<1> DEFINE P1 == l.control # << >>
           P2 == l.control = << >> \/ l.control[1].fault = F_ARM_AUTH
           P3 == l.control = << >> \/ l.control[1].nb = Chain(l, Len(l.records))
           P4 == Scored(l) # {} /\ FirstScored(l).commit = "blank" /\ LastScored(l).commit = "blank"
           v == <<Rule(P1, "error"), Rule(P2, "false"), Rule(P3, "false"), Rule(P4, "error")>>
<1>1. /\ P1 /\ l.kind = "COMPLETED" /\ l.control[1].nb = Spent(l, Len(l.records))
      /\ l.control[1].fault = (IF fault.kind = "refusal" THEN F_ARM_AUTH + 1 ELSE F_ARM_AUTH)
  BY DEF Finished, Summed
<1>2. P2 <=> fault.kind # "refusal"
  BY <1>1 DEF F_ARM_AUTH
<1>3. P3
  BY <1>1, ChainOk
<1>4. P4
  <2>1. \A i \in {1, LastSeq} : l.records[i].commit = Genome(i)
    <3>1. \A i \in {1, LastSeq} : FiledAs(l, i)
      BY FinishedOnes
    <3> QED
      BY <3>1 DEF FiledAs, Of
  <2> QED
    BY <2>1, Brackets
<1>5. Control(l) = First(v)
  BY <1>1 DEF Control
<1> HIDE DEF P1, P2, P3, P4
<1>6. DOMAIN v = 1 .. 4 /\ v[1] = Rule(P1, "error") /\ v[2] = Rule(P2, "false")
      /\ v[3] = Rule(P3, "false") /\ v[4] = Rule(P4, "error")
  OBVIOUS
<1> HIDE DEF v
<1>7. v[1] = "ok" /\ v[3] = "ok" /\ v[4] = "ok" /\ v[2] = (IF fault.kind = "refusal" THEN "false" ELSE "ok")
  BY <1>1, <1>2, <1>3, <1>4, <1>6 DEF Rule
<1>8. \A k \in 1 .. 4 : k = 1 \/ k = 2 \/ k = 3 \/ k = 4
  OBVIOUS
<1>9. CASE fault.kind = "refusal"
  <2>1. v[2] = "false" /\ 2 \in 1 .. 4 /\ \A k \in 1 .. 4 : k < 2 => v[k] = "ok"
    BY <1>7, <1>8, <1>9
  <2> QED
    BY <1>5, <1>6, <1>9, <2>1, FirstFalse
<1>10. CASE fault.kind # "refusal"
  <2>1. \A k \in 1 .. 4 : v[k] = "ok"
    BY <1>7, <1>8, <1>10
  <2> QED
    BY <1>5, <1>6, <1>10, <2>1, AllOk
<1> QED
  BY <1>9, <1>10

\* What the board measured at a scored candidate falsifies its record.
LEMMA MeasuredFalse ==
  ASSUME NEW l, Finished(l), fault \in {NoFault} \cup Faults, NEW s \in 1 .. Len(l.records), fault.seq = s,
         l.records[s].outcome = "SCORED", fault.kind \in {"link2", "nonce", "hw", "tables"}
  PROVE  Validated(l) = "false"
<1> DEFINE n == Len(l.records)
           e == [i \in 1 .. n |-> RecordVerdict(l.records[i])]
<1>1. PICK v : Validated(l) = First(v) /\ DOMAIN v = 1 .. 8 /\ v[1] = SummaryVerdict(l) /\ v[2] = First(e)
  BY ValidatedIs
<1>2. n \in Nat /\ plan \in Plans /\ \A i \in 1 .. n : FiledAs(l, i) /\ i \in Nat \ {0} /\ i <= LastSeq
  BY FinishedOnes DEF Finished
<1>3. Bites(fault.kind, s) /\ \A k : \A i \in 1 .. n : i # s => ~Bites(k, i)
  BY BooksAssumption DEF Bites, NoFault
<1>4. \A i \in 1 .. n : e[i] = IF i = s THEN "false" ELSE "ok"
  <2> SUFFICES ASSUME NEW i \in 1 .. n PROVE e[i] = IF i = s THEN "false" ELSE "ok"
    OBVIOUS
  <2>1. RecordVerdict(l.records[i]) =
           IF l.records[i].outcome = "SCORED" /\ \E k \in {"link2", "nonce", "hw", "tables"} : Bites(k, i)
             THEN "false" ELSE "ok"
    BY <1>2, RecordJudged
  <2> QED
    BY <1>3, <2>1
<1>5. DOMAIN e = 1 .. n
  OBVIOUS
<1> HIDE DEF e
<1>6. First(e) = "false"
  <2>1. e[s] = "false" /\ \A i \in 1 .. n : i < s => e[i] = "ok"
    BY <1>2, <1>4
  <2> QED
    BY <1>2, <1>5, <2>1, FirstFalse
<1>7. v[1] = "ok"
  BY <1>1, SummaryOk
<1>8. v[2] = "false" /\ 2 \in 1 .. 8 /\ \A k \in 1 .. 8 : k < 2 => v[k] = "ok"
  <2>1. \A k \in 1 .. 8 : k < 2 => k = 1
    OBVIOUS
  <2> QED
    BY <1>1, <1>6, <1>7, <2>1
<1> QED
  BY <1>1, <1>8, FirstFalse

\* The rules before the audit hold when nothing of a record is measured false.
LEMMA BeforeAudit ==
  ASSUME NEW l, Finished(l), fault.kind \notin {"drops", "count", "link2", "nonce", "hw", "tables"}
  PROVE  SummaryVerdict(l) = "ok" /\ First([i \in 1 .. Len(l.records) |-> RecordVerdict(l.records[i])]) = "ok"
<1> DEFINE n == Len(l.records)
           e == [i \in 1 .. n |-> RecordVerdict(l.records[i])]
<1>1. n \in Nat /\ DOMAIN e = 1 .. n /\ \A i \in 1 .. n : e[i] = "ok"
  BY FinishedOnes, RecordsOk
<1> HIDE DEF e
<1>2. First(e) = "ok"
  BY <1>1, AllOk
<1> QED
  BY <1>2, SummaryOk DEF e

\* What was really staged or read at an audited candidate falsifies its audit.
LEMMA AuditFalse ==
  ASSUME NEW l, Finished(l), fault \in {NoFault} \cup Faults, NEW s \in 1 .. Len(l.records), fault.seq = s,
         l.records[s].outcome = "SCORED", s \in Requested, fault.kind \in {"staged", "read", "junk"}
  PROVE  Validated(l) = "false"
<1>1. PICK v : /\ Validated(l) = First(v) /\ DOMAIN v = 1 .. 8 /\ v[1] = SummaryVerdict(l) /\ v[3] = Verify(l)
               /\ v[2] = First([i \in 1 .. Len(l.records) |-> RecordVerdict(l.records[i])])
  BY ValidatedIs
<1>2. Unspoilt(l) /\ plan \in Plans
  BY DEF Finished
<1>3. v[1] = "ok" /\ v[2] = "ok"
  BY <1>1, BeforeAudit
<1>4. s \in Served(l)
  <2>1. s \in Scored(l)
    BY FinishedOnes DEF Scored
  <2> QED
    BY <1>2, <2>1, AuditsServed
<1>5. Bites(fault.kind, s) /\ \A k, i : i # s => ~Bites(k, i)
  BY BooksAssumption DEF Bites, NoFault
<1>6. ~Sane(s)
  <2>1. s \in Nat \ {0} /\ s <= LastSeq
    BY FinishedOnes
  <2>2. Genome(s) \in Arms \cup {"blank"}
    BY <1>2, <2>1, GenomeIsArm
  <2>3. Genome(s) # "other" /\ Genome(s) # "junk"
    BY <2>2 DEF Arms
  <2> QED
    BY <1>5, <2>3 DEF Sane, Real, Bites
<1>7. \A i \in Served(l) : i # s => Sane(i)
  BY <1>5 DEF Sane, Real
<1>8. Verify(l) = "false"
  BY <1>2, <1>4, <1>6, <1>7, VerifyJudged
<1>9. DOMAIN v = 1 .. 8 /\ v[3] = "false" /\ 3 \in 1 .. 8 /\ \A k \in 1 .. 8 : k < 3 => v[k] = "ok"
  <2>1. \A k \in 1 .. 8 : k < 3 => k = 1 \/ k = 2
    OBVIOUS
  <2> QED
    BY <1>1, <1>3, <1>8, <2>1
<1>10. First(v) = "false"
  BY <1>9, FirstFalse
<1> QED
  BY <1>1, <1>10

\* A session whose board does nothing else wrong is judged by its control.
LEMMA ControlDecides ==
  ASSUME NEW l, Finished(l), fault.kind \in {"none", "refusal"}
  PROVE  Validated(l) = IF fault.kind = "refusal" THEN "false" ELSE "ok"
<1> DEFINE n == Len(l.records)
           e2 == [i \in 1 .. n |-> Bound(l, i)]
           P6 == l.by = "app" => Orphans(l) = {}
           P8 == l.audited = HostAudited(l) /\ l.total = n
<1>1. PICK v : /\ Validated(l) = First(v) /\ DOMAIN v = 1 .. 8 /\ v[1] = SummaryVerdict(l)
               /\ v[2] = First([i \in 1 .. n |-> RecordVerdict(l.records[i])]) /\ v[3] = Verify(l)
               /\ v[4] = Rule(Marks(l), "error") /\ v[5] = First(e2)
               /\ v[6] = Rule(P6, "error") /\ v[7] = Control(l) /\ v[8] = Rule(P8, "error")
  BY ValidatedIs
<1>2. Unspoilt(l) /\ plan \in Plans /\ n \in Nat
  BY FinishedOnes DEF Finished
<1>3. v[1] = "ok" /\ v[2] = "ok"
  BY <1>1, BeforeAudit
<1>4. v[3] = "ok"
  <2>1. \A i : Sane(i)
    BY DEF Sane, Real, Bites
  <2> QED
    BY <1>1, <1>2, <2>1, VerifyJudged
<1>5. Marks(l) /\ HostAudited(l) = BoardAudited(l)
  BY <1>2, MarksOk
<1>6. v[5] = "ok"
  <2>1. DOMAIN e2 = 1 .. n /\ \A i \in 1 .. n : e2[i] = "ok"
    BY ChainOk
  <2> HIDE DEF e2
  <2> QED
    BY <1>1, <1>2, <2>1, AllOk
<1>7. P6
  BY ChainOk
<1>8. P8
  <2>1. l.audited = BoardAudited(l) + 0 /\ l.total = n
    BY DEF Finished, Summed
  <2>2. BoardAudited(l) \in Nat
    <3> DEFINE S == {i \in DOMAIN l.records : l.records[i].audited}
    <3>1. S \subseteq 1 .. n
      <4>1. DOMAIN l.records = 1 .. n
        BY FinishedOnes
      <4> QED
        BY <4>1
    <3>2. IsFiniteSet(1 .. n)
      BY <1>2, FS_Interval
    <3> QED
      BY <3>1, <3>2, FS_Subset, FS_CardinalityType DEF BoardAudited
  <2> QED
    BY <1>5, <2>1, <2>2
<1>9. Control(l) = IF fault.kind = "refusal" THEN "false" ELSE "ok"
  BY ControlJudged
<1> HIDE DEF P6, P8, e2
<1>10. /\ v[1] = "ok" /\ v[2] = "ok" /\ v[3] = "ok" /\ v[4] = "ok" /\ v[5] = "ok" /\ v[6] = "ok" /\ v[8] = "ok"
       /\ v[7] = IF fault.kind = "refusal" THEN "false" ELSE "ok"
  BY <1>1, <1>3, <1>4, <1>5, <1>6, <1>7, <1>8, <1>9 DEF Rule
<1>11. \A k \in 1 .. 8 : k = 1 \/ k = 2 \/ k = 3 \/ k = 4 \/ k = 5 \/ k = 6 \/ k = 7 \/ k = 8
  OBVIOUS
<1>12. CASE fault.kind = "refusal"
  <2>1. v[7] = "false" /\ 7 \in 1 .. 8 /\ \A k \in 1 .. 8 : k < 7 => v[k] = "ok"
    BY <1>10, <1>11, <1>12
  <2>2. DOMAIN v = 1 .. 8 /\ Validated(l) = First(v)
    BY <1>1
  <2>3. First(v) = "false"
    BY <2>1, <2>2, FirstFalse
  <2> QED
    BY <1>12, <2>2, <2>3
<1>13. CASE fault.kind # "refusal"
  <2>1. \A k \in 1 .. 8 : v[k] = "ok"
    BY <1>10, <1>11, <1>13
  <2> QED
    BY <1>1, <1>13, <2>1, AllOk
<1> QED
  BY <1>12, <1>13

\* Nothing is found in the books of a sound session that finished.
LEMMA NothingFound ==
  ASSUME NEW l, Finished(l), fault = NoFault
  PROVE  Contracts(l) /\ NoFindings(l)
<1> DEFINE n == Len(l.records)
<1>1. /\ n \in Nat /\ n = LastSeq /\ LastSeq = N + 2 /\ N \in Nat /\ DOMAIN l.records = 1 .. n
      /\ \A i \in 1 .. n : FiledAs(l, i) /\ l.records[i].seq = i /\ i \in Nat \ {0}
  BY FinishedOnes DEF LastSeq, Early, NoFault
<1>2. Unspoilt(l) /\ Given(l) /\ Summed(l) /\ plan \in Plans
  BY DEF Finished
<1>3. fault.kind = "none" /\ \A k \in {"label", "operator", "scores", "beat", "beats"} : \A i : ~Bites(k, i)
  BY DEF NoFault, Bites
<1>4. Recorded(l) = 1 .. n
  <2>1. \A i \in 1 .. n : l.records[i].seq = i
    BY <1>1
  <2> QED
    BY <1>1, <2>1 DEF Recorded
<1>5. Served(l) = Scored(l) \cap Requested
  BY <1>2, <1>3, AuditsServed
<1>6. Marks(l) /\ \A i \in 1 .. n : HostMark(l, l.records[i]) <=> i \in Served(l)
  BY <1>1, <1>2, <1>3, MarksOk
<1>7. \A i \in 1 .. n : self_report_class(l.records[i]) = IF i \in Scored(l) THEN "scored" ELSE "none"
  <2> SUFFICES ASSUME NEW i \in 1 .. n
               PROVE  self_report_class(l.records[i]) = IF i \in Scored(l) THEN "scored" ELSE "none"
    OBVIOUS
  <2> DEFINE r == l.records[i]
  <2>1. r.outcome \in Going /\ (r.outcome = "SCORED" => "oracle" \in r.parts)
    <3>1. FiledAs(l, i)
      BY <1>1
    <3>2. r.outcome \in Going /\ (r.outcome = "SCORED" => r.parts = {"reply", "oracle", "arm", "score"})
      BY <3>1 DEF FiledAs, ScoredAs
    <3> QED
      BY <3>2
  <2>2. i \in Scored(l) <=> r.outcome = "SCORED"
    BY <1>1 DEF Scored
  <2> HIDE DEF r
  <2> QED
    BY <2>1, <2>2 DEF self_report_class, Going, Unsigned, r
<1>8. check_audit_policy(l)
  <2>1. ASSUME NEW i \in DOMAIN l.records,
               \/ self_report_class(l.records[i]) = "auto"
               \/ self_report_class(l.records[i]) = "scored" /\ l.records[i].seq \in Requested
        PROVE  HostMark(l, l.records[i])
    <3>1. i \in 1 .. n /\ l.records[i].seq = i
      BY <1>1
    <3>2. i \in Scored(l) /\ i \in Requested
      BY <1>7, <2>1, <3>1
    <3> QED
      BY <1>5, <1>6, <3>1, <3>2
  <2> QED
    BY <2>1 DEF check_audit_policy
<1>9. check_arm_schedule(l)
  <2>1. \A i : IsBracket(i) <=> Blank(i)
    BY <1>1 DEF IsBracket, baseline_seqs, Blank
  <2>2. \A i : /\ Label(i) = (IF Blank(i) THEN "none" ELSE Arm(i))
               /\ Genome(i) = (IF Blank(i) THEN "blank" ELSE Arm(i))
    BY <1>3 DEF Label, Genome, Early
  <2>3. ASSUME NEW i \in DOMAIN l.records
        PROVE  IF IsBracket(l.records[i].seq) THEN l.records[i].arm = "none"
               ELSE /\ l.records[i].seq \in 2 .. N + 1 /\ l.records[i].arm = Arm(l.records[i].seq)
                    /\ l.records[i].genome = Arm(l.records[i].seq)
    <3>1. i \in 1 .. N + 2 /\ l.records[i].seq = i /\ FiledAs(l, i)
      BY <1>1
    <3>2. l.records[i].arm = Label(i) /\ l.records[i].genome = Genome(i)
      BY <3>1 DEF FiledAs, Of
    <3>3. ~Blank(i) => i \in 2 .. N + 1
      BY <1>1, <3>1 DEF Blank
    <3> QED
      BY <2>1, <2>2, <3>1, <3>2, <3>3
  <2> QED
    BY <2>3 DEF check_arm_schedule
<1>10. check_l6_identity(l)
  BY <1>2, <1>3 DEF Given, check_l6_identity
<1>11. Heartbeats(l)
  <2> DEFINE scored == {l.records[i].seq : i \in Scored(l)}
             short == {s \in scored : l.missed[s] > 0}
  <2>1. \A i \in Scored(l) : i \in 1 .. n
    BY <1>1 DEF Scored
  <2>2. scored = Scored(l)
    BY <1>1, <2>1
  <2>3. \A i \in 1 .. n : l.missed[i] = 0
    BY <1>1, <1>3 DEF FiledAs, Lost
  <2>4. short = {}
    <3>1. \A s \in Scored(l) : l.missed[s] = 0
      BY <2>1, <2>3
    <3>2. \A s \in scored : ~(l.missed[s] > 0)
      BY <2>2, <3>1
    <3> QED
      BY <3>2
  <2>5. Cardinality(scored) \in Nat
    BY <2>2, Brackets, FS_CardinalityType
  <2>6. Cardinality(short) <= hb_missing_budget(Cardinality(scored), PerBeat)
    <3>1. Cardinality(short) = 0
      BY <2>4, FS_EmptySet
    <3> HIDE DEF scored, short
    <3>2. hb_missing_budget(Cardinality(scored), PerBeat) >= 0
      BY <1>2, <2>5, Budgets
    <3>3. hb_missing_budget(Cardinality(scored), PerBeat) \in Int
      BY <2>5, BooksAssumption DEF hb_missing_budget
    <3> QED
      BY <3>1, <3>2, <3>3
  <2>7. \A s \in short : l.missed[s] = 1
    BY <2>4
  <2> HIDE DEF scored, short
  <2> QED
    BY <2>6, <2>7 DEF Heartbeats, scored, short
<1>12. structural_findings(l)
  <2>1. l.asked = 1 .. n /\ l.by = "app"
    BY <1>2 DEF Unspoilt, Summed
  <2>2. ASSUME NEW i \in DOMAIN l.records,
               \/ self_report_class(l.records[i]) = "scored" /\ l.records[i].seq \in Requested
               \/ self_report_class(l.records[i]) = "auto"
        PROVE  l.records[i].seq \in Served(l)
    <3>1. i \in 1 .. n /\ l.records[i].seq = i
      BY <1>1
    <3> QED
      BY <1>5, <1>7, <2>2, <3>1
  <2> QED
    BY <1>4, <1>11, <2>1, <2>2 DEF structural_findings
<1>13. baseline_findings(l)
  <2>1. \A i \in {1, LastSeq} : FiledAs(l, i) /\ l.records[i].outcome = "SCORED"
    BY <1>1, Brackets DEF Scored
  <2>2. \A i \in {1, LastSeq} : l.records[i].scores = "pinned"
    BY <1>3, <2>1 DEF FiledAs, ScoredAs
  <2> QED
    BY <2>2, Brackets DEF baseline_findings
<1>14. rec_closure_findings(l) /\ rel_closure_findings(l)
  <2>1. l.recs = 1 .. n /\ l.signs = 1 .. n /\ l.kind = "COMPLETED"
    BY <1>2 DEF Unspoilt, Summed
  <2>2. \A i \in DOMAIN l.records : l.records[i].outcome # "STOP_SIGN"
    BY <1>1 DEF FiledAs, Going
  <2> QED
    BY <1>4, <1>6, <2>1, <2>2 DEF rec_closure_findings, rel_closure_findings, Marks
<1>15. rel_control_findings(l) /\ soak_findings(l)
  <2>1. l.retried = TRUE /\ l.dropped = DropBudget
    BY <1>2, <1>3 DEF Given
  <2>2. DropBudget \in Nat
    BY <1>2, Budgets
  <2> QED
    BY <2>1, <2>2 DEF rel_control_findings, soak_findings
<1> QED
  BY <1>8, <1>9, <1>10, <1>12, <1>13, <1>14, <1>15 DEF Contracts, NoFindings

\* The verdict on the books of a session that finished.
LEMMA WholeVerdict ==
  ASSUME Finished(log), fault \in {NoFault} \cup Faults
  PROVE  /\ fault = NoFault => Outcome(log, Validated(log)) = "PASS"
         /\ fault.kind = "refusal" \/ (\E s \in DOMAIN log.records : Evident(s)) => Outcome(log, Validated(log)) = "KILL"
<1>1. CASE fault = NoFault
  <2>1. fault.kind = "none" /\ \A s : ~Evident(s)
    BY <1>1 DEF NoFault, Evident
  <2>2. Validated(log) = "ok"
    BY <2>1, ControlDecides
  <2>3. Contracts(log) /\ NoFindings(log) /\ log.kind = "COMPLETED"
    BY <1>1, NothingFound DEF Finished, Summed
  <2> QED
    BY <2>1, <2>2, <2>3 DEF Outcome
<1>2. CASE fault # NoFault
  <2>1. fault.kind = "refusal" => Validated(log) = "false"
    BY ControlDecides
  <2>2. ASSUME NEW s \in DOMAIN log.records, Evident(s) PROVE Validated(log) = "false"
    <3>1. s \in 1 .. Len(log.records)
      BY FinishedOnes
    <3> QED
      BY <2>2, <3>1, MeasuredFalse, AuditFalse DEF Evident
  <2> QED
    BY <1>2, <2>1, <2>2 DEF Outcome
<1> QED
  BY <1>1, <1>2

\* Damage ends what is said of whole books, and judging them says it.
LEMMA WholeJudged ==
  ASSUME BooksInv, Chosen, SoundInv, WholeInv, Damage \/ Adjudicate \/ UNCHANGED booksVars
  PROVE  WholeInv'
<1>1. damages \in Nat
  BY BooksAssumption DEF Chosen
<1>2. CASE Damage
  BY <1>1, <1>2 DEF Damage, WholeInv, Open, HonestIsJudgedByItsEnd, FalsifierIsKilled, Judged
<1>3. CASE Adjudicate
  <2>1. /\ UNCHANGED <<plan, fault, truth, silicon, log, damages>> /\ pc = "ended" /\ pc' = "judged"
        /\ outcome' = Outcome(log, Validated(log))
    BY <1>3 DEF Adjudicate
  <2>2. ASSUME damages = 0, log.kind = "COMPLETED" PROVE Finished(log)
    BY <2>1, <2>2 DEF WholeInv, Finished, BooksInv
  <2>3. damages' = 0 /\ log'.kind = "COMPLETED" => Given(log)' /\ Unspoilt(log)' /\ Summed(log)'
    <3> SUFFICES ASSUME damages = 0, log.kind = "COMPLETED" PROVE Given(log)' /\ Unspoilt(log)' /\ Summed(log)'
      BY <2>1
    <3>1. Given(log) /\ Unspoilt(log) /\ Summed(log)
      BY <2>2 DEF Finished
    <3>2. Given(log)' /\ Unspoilt(log)'
      BY <2>1, <3>1, GivenMoves, UnspoiltMoves
    <3>3. LastSeq' = LastSeq
      BY <2>1, SameCandidate
    <3> QED
      BY <2>1, <3>1, <3>2, <3>3 DEF Summed, BoardAudited, Spent
  <2>4. HonestIsJudgedByItsEnd'
    <3> SUFFICES ASSUME fault = NoFault, damages = 0
                 PROVE  outcome' = IF log.kind = "COMPLETED" THEN "PASS" ELSE "HOLD"
      BY <2>1 DEF HonestIsJudgedByItsEnd, Clean, NoFault
    <3>1. CASE log.kind = "COMPLETED"
      BY <2>1, <2>2, <3>1, WholeVerdict DEF Chosen
    <3>2. CASE log.kind # "COMPLETED"
      <4>1. fault.kind \notin Falsifiers
        BY DEF NoFault, Falsifiers
      <4>2. truth \in Seq(Truths) /\ LogHolds(log) /\ Harmless(log)
        BY <4>1 DEF BooksInv, SoundInv
      <4>3. Validated(log) # "false"
        BY <4>2, NotFalse
      <4> QED
        BY <2>1, <3>2, <4>3 DEF Outcome
    <3> QED
      BY <3>1, <3>2
  <2>5. FalsifierIsKilled'
    <3>1. (\E s \in DOMAIN log.records : Evident(s))' = \E s \in DOMAIN log.records : Evident(s)
      BY <2>1 DEF Evident, Requested
    <3> QED
      BY <2>1, <2>2, <3>1, WholeVerdict DEF FalsifierIsKilled, Chosen
  <2> QED
    BY <2>1, <2>3, <2>4, <2>5 DEF WholeInv, Open
<1>4. CASE UNCHANGED booksVars
  <2>1. UNCHANGED <<plan, fault, silicon, truth, log, pc, damages, outcome>>
    BY <1>4 DEF booksVars
  <2>2. (Given(log) => Given(log)') /\ (Unspoilt(log) => Unspoilt(log)')
    BY <2>1, GivenMoves, UnspoiltMoves
  <2>3. Summed(log) => Summed(log)'
    <3>1. LastSeq' = LastSeq
      BY <2>1, SameCandidate
    <3> QED
      BY <2>1, <3>1 DEF Summed, BoardAudited, Spent
  <2>4. HonestIsJudgedByItsEnd' /\ FalsifierIsKilled'
    BY <2>1 DEF WholeInv, HonestIsJudgedByItsEnd, FalsifierIsKilled, Judged, Clean, NoFault, Evident, Requested
  <2>5. Spent(log, Len(log.records))' = Spent(log, Len(log.records))
    BY <2>1 DEF Spent
  <2> QED
    BY <2>1, <2>2, <2>3, <2>4, <2>5 DEF WholeInv
<1> QED
  BY <1>2, <1>3, <1>4

\* The books of a completed, undamaged session are whole.
LEMMA WholeHolds == BooksSpec => [](Chosen /\ SoundInv /\ WholeInv)
<1>1. BooksInit => WholeInv
  <2> SUFFICES ASSUME BooksInit PROVE WholeInv
    OBVIOUS
  <2>1. /\ log.records = << >> /\ log.chunks = {} /\ log.entries = {} /\ log.kind = "none" /\ log.asked = {} /\ log.signs = {}
        /\ log.recs = {} /\ log.missed = [s \in 1 .. N + 3 |-> 0]
        /\ damages = 0 /\ silicon = 0 /\ truth = << >> /\ pc = "run"
    BY DEF BooksInit, EmptyLog
  <2>2. /\ log.ident = (IF fault.kind = "ident" THEN [Page EXCEPT !.schedule_mode = "other"] ELSE Page)
        /\ log.retried = (fault.kind # "control")
        /\ log.dropped = IF fault.kind = "drops" THEN DropBudget + 1 ELSE DropBudget
    BY DEF BooksInit, EmptyLog
  <2>3. Given(log)
    BY <2>1, <2>2 DEF Given
  <2>4. LastSeq \in Nat /\ Scored(log) = {} /\ 1 .. 0 = {} /\ Len(log.records) = 0
    BY <2>1, BooksAssumption DEF LastSeq, Scored
  <2>5. Unspoilt(log)
    BY <2>1, <2>4 DEF Unspoilt
  <2>6. Spent(log, 0) = 0
    <3>1. {j \in 1 .. 0 : Used(log.records[j])} = {}
      OBVIOUS
    <3> QED
      BY <3>1, FS_EmptySet DEF Spent
  <2> QED
    BY <2>1, <2>3, <2>4, <2>5, <2>6 DEF WholeInv, HonestIsJudgedByItsEnd, FalsifierIsKilled, Judged, Open
<1>2. BooksInv /\ Chosen /\ SoundInv /\ WholeInv /\ [BooksNext]_booksVars => WholeInv'
  <2> SUFFICES ASSUME BooksInv, Chosen, SoundInv, WholeInv, [BooksNext]_booksVars PROVE WholeInv'
    OBVIOUS
  <2>1. ASSUME NEW s \in Seqs, Candidate(s) PROVE WholeInv'
    <3>1. CASE Score(s) \/ RefuseAtGate(s)
      BY <3>1, WholeCandidate
    <3>2. CASE Filing(s) /\ StopFiled(s)
      BY <3>2, WholeCandidate
    <3>3. CASE StopUnrecorded(s)
      BY <3>3, WholeEnd
    <3> QED
      BY <2>1, <3>1, <3>2, <3>3, CandidateFiles
  <2>2. CASE CloseSession \/ EndStopped \/ Crash
    BY <2>2, WholeEnd
  <2>3. CASE Damage \/ Adjudicate \/ UNCHANGED booksVars
    BY <2>3, WholeJudged
  <2> QED
    BY <2>1, <2>2, <2>3 DEF BooksNext
<1> QED
  BY <1>1, <1>2, SoundHolds, PTL DEF BooksSpec

(* A session whose board did nothing of what falsifies the claim is never a *)
(* KILL, whatever one piece of its books was damaged, and a falsifier whose *)
(* evidence is in whole books is one (host/l5_runner.py:93,                 *)
(* classify_rejection).                                                     *)
THEOREM KillHolds == ASSUME MaxDamages <= 1 PROVE BooksSpec => []KillMeansFalsified
<1>1. Chosen /\ SoundInv /\ WholeInv => KillMeansFalsified
  <2> SUFFICES ASSUME Chosen, SoundInv, WholeInv PROVE KillMeansFalsified
    OBVIOUS
  <2>1. damages <= 1
    BY BooksAssumption DEF Chosen
  <2> QED
    BY <2>1 DEF SoundInv, WholeInv, KillMeansFalsified, KillNeedsAFalsifier
<1> QED
  BY <1>1, WholeHolds, PTL

(* An undamaged session of a sound board passes exactly when it completed,  *)
(* and is a HOLD at every other end (host/l5_runner.py:107, outcome_for).   *)
THEOREM HonestHolds == BooksSpec => []HonestIsJudgedByItsEnd
<1>1. WholeInv => HonestIsJudgedByItsEnd
  BY DEF WholeInv
<1> QED
  BY <1>1, WholeHolds, PTL
=============================================================================
