------------------------------- MODULE Campaign -------------------------------
(***************************************************************************)
(* The L6 campaign: two calibration sessions (C1, C2) and a soak (S) whose *)
(* length is computed from the two calibration reports.  What ties them    *)
(* together is a chain of pins and hashes checked by                       *)
(* host/l6_runner.py: preflight, bind_ruling and plan_session.             *)
(*                                                                         *)
(* The owner works on the same files while runners start, run and end:     *)
(* builds images, edits and freezes preregistrations, pins reports,        *)
(* declares imports, issues rulings.  A runner reads all of them once, in  *)
(* preflight, and uses what it read for hours.                             *)
(*                                                                         *)
(* A file is the value it holds, and its sha256 is that value.  The pins   *)
(* checked exactly like the image (protocol, operator data, carrier, seed, *)
(* schedule mode) are represented by the image and the session.            *)
(***************************************************************************)
EXTENDS Naturals, FiniteSets, Sequences

CONSTANTS
  Runners,      \* runner processes, each started any number of times
  Images,       \* application images the owner can build
  FirstImage,   \* the image the first calibrations ran on
  Texts,        \* preregistration texts, numbered like their versions
  FirstText,    \* the text frozen at the start
  ImportText,   \* the one version that honours an import (v0.7)
  MaxRulings,   \* bound: ruling pairs the owner issues
  MaxEdits,     \* bound: edits the owner makes to files and manifest
  Quiet         \* TRUE: no image is built while a runner is in its preamble

ASSUME CampaignAssumption ==
  /\ IsFiniteSet(Runners)
  /\ FirstImage \in Images
  /\ Texts \subseteq Nat \ {0}
  /\ FirstText \in Texts
  /\ ImportText \in Texts
  /\ MaxRulings \in Nat
  /\ MaxEdits \in Nat
  /\ Quiet \in BOOLEAN

Calibrations == {"C1", "C2"}
Sessions == Calibrations \cup {"S"}

VARIABLES
  image,      \* the image file on disk
  text,       \* docs/l6_soak_prereg.md on disk
  manifest,   \* manifests/l6_manifest.json
  reports,    \* the rate reports filed so far, by every session
  spoiled,    \* the reports whose input files no longer hash to `inputs`
  rulings,    \* the ruling pairs issued: a session and a manifest each
  consumed,   \* the `.consumed` markers beside the ruling files
  starts,     \* history: how often each ruling file authorised a start
  at,         \* where each runner is in main()
  run,        \* what each runner read in preflight, and what it loaded
  edits       \* owner edits so far

vars == <<image, text, manifest, reports, spoiled, rulings, consumed, starts, at, run, edits>>

RulingFiles == {"L6", "P3-K"} \X (1..MaxRulings)

-----------------------------------------------------------------------------
(* Records.                                                                *)

\* A report names what its session was bound to; `ran` is the image the
\* board really executed, which no file records.
Report(s, i, t, r) == [session |-> s, image |-> i, text |-> t, ran |-> r]

NoImport == [version |-> 0]
NoRun == [session |-> "none"]

(* The manifest of the repository when v0.6 ruled: both calibrations       *)
(* pinned, nothing imported.                                               *)
FirstManifest ==
  [ text     |-> FirstText,
    chain    |-> {},
    image    |-> FirstImage,
    cal      |-> [k \in Calibrations |-> Report(k, FirstImage, FirstText, FirstImage)],
    imported |-> [k \in Calibrations |-> NoImport] ]

Init ==
  /\ image = FirstImage
  /\ text = FirstText
  /\ manifest = FirstManifest
  /\ reports = {FirstManifest.cal[k] : k \in Calibrations}
  /\ spoiled = {}
  /\ rulings = <<>>
  /\ consumed = {}
  /\ starts = [f \in RulingFiles |-> 0]
  /\ at = [p \in Runners |-> "idle"]
  /\ run = [p \in Runners |-> NoRun]
  /\ edits = 0

-----------------------------------------------------------------------------
(* The owner.                                                              *)

Preamble == {"checked", "claimed", "provisioned"}

Build ==
  /\ Quiet => \A p \in Runners : at[p] \notin Preamble
  /\ image' \in Images \ {image}
  /\ UNCHANGED <<text, manifest, reports, spoiled>>

EditText ==
  /\ text' \in Texts \ {text}
  /\ UNCHANGED <<image, manifest, reports, spoiled>>

\* A freeze puts the next text in place, pins it, and records the one it
\* supersedes.
Freeze == \E t \in Texts :
  /\ t > manifest.text
  /\ text' = t
  /\ manifest' = [manifest EXCEPT !.text = t, !.chain = @ \cup {manifest.text}]
  /\ UNCHANGED <<image, reports, spoiled>>

Promote ==
  /\ manifest.image # image
  /\ manifest' = [manifest EXCEPT !.image = image]
  /\ UNCHANGED <<image, text, reports, spoiled>>

Pin(k) ==
  /\ \E r \in reports \ {manifest.cal[k]} : manifest' = [manifest EXCEPT !.cal[k] = r]
  /\ UNCHANGED <<image, text, reports, spoiled>>

\* The declaration (of one calibration or of both) names a version, a hash and the report it is about; the
\* owner may get any of them wrong.
Declare ==
  /\ \E K \in {{"C1"}, Calibrations}, v, h \in Texts :
       manifest' = [manifest EXCEPT !.imported = [k \in Calibrations |->
         IF k \in K THEN [version |-> v, hash |-> h, report |-> manifest.cal[k]] ELSE @[k]]]
  /\ UNCHANGED <<image, text, reports, spoiled>>

Spoil ==
  /\ \E r \in reports \ spoiled : spoiled' = spoiled \cup {r}
  /\ UNCHANGED <<image, text, manifest, reports>>

Edit ==
  /\ edits < MaxEdits
  /\ edits' = edits + 1
  /\ Build \/ EditText \/ Freeze \/ Promote \/ Spoil \/ Declare \/ (\E k \in Calibrations : Pin(k))
  /\ UNCHANGED <<rulings, consumed, starts, at, run>>

Issue ==
  /\ Len(rulings) < MaxRulings
  /\ \E s \in Sessions : rulings' = Append(rulings, [session |-> s, manifest |-> manifest])
  /\ UNCHANGED <<image, text, manifest, reports, spoiled, consumed, starts, at, run, edits>>

-----------------------------------------------------------------------------
(* The runner's checks.                                                    *)

\* An import relaxes the text the report is bound to, to one superseded
\* text, named by version and hash as a pair, and only under ImportText.
ImportHolds(k) ==
  LET imp == manifest.imported[k] IN
  /\ manifest.text = ImportText
  /\ imp.version = imp.hash
  /\ imp.hash \in manifest.chain
  /\ imp.report = manifest.cal[k]

BoundText(k) ==
  IF manifest.imported[k] = NoImport THEN manifest.text ELSE manifest.imported[k].hash

\* The run log, audits and timeline beside the report still hash to it.
InputsIntact(k) == manifest.cal[k] \notin spoiled

\* Altered: the report's hash is checked, its image is not.
CalibrationByHash(k) ==
  LET r == manifest.cal[k] IN
  /\ InputsIntact(k)
  /\ manifest.imported[k] # NoImport => ImportHolds(k)
  /\ r.session = k
  /\ r.text = BoundText(k)

CalibrationHolds(k) ==
  LET r == manifest.cal[k] IN
  /\ InputsIntact(k)
  /\ manifest.imported[k] # NoImport => ImportHolds(k)
  /\ r.session = k
  /\ r.image = manifest.image
  /\ r.text = BoundText(k)

\* Altered: the ruling binds the pins one by one, not the manifest file.
BindPins(i, s) ==
  /\ rulings[i].session = s
  /\ rulings[i].manifest.text = manifest.text
  /\ rulings[i].manifest.image = manifest.image

BindRuling(i, s) == rulings[i] = [session |-> s, manifest |-> manifest]

\* The checks run in seconds and are one step; everything after them uses
\* what they read.
Preflight(p) == \E s \in Sessions, i, j \in DOMAIN rulings :
  /\ at[p] = "idle"
  /\ <<"L6", i>> \notin consumed
  /\ <<"P3-K", j>> \notin consumed
  /\ text = manifest.text
  /\ image = manifest.image
  /\ BindRuling(i, s)
  /\ BindRuling(j, s)
  /\ s = "S" => \A k \in Calibrations : CalibrationHolds(k)
  /\ at' = [at EXCEPT ![p] = "checked"]
  /\ run' = [run EXCEPT ![p] = [session |-> s, l6 |-> i, pk |-> j, manifest |-> manifest, image |-> image]]
  /\ UNCHANGED <<image, text, manifest, reports, spoiled, rulings, consumed, starts, edits>>

-----------------------------------------------------------------------------
(* The session.                                                            *)

Leave(p) ==
  /\ at' = [at EXCEPT ![p] = "idle"]
  /\ run' = [run EXCEPT ![p] = NoRun]

\* Altered: the marker is written, whether it is there or not.
TakeAnyway(f, p, next) ==
  /\ consumed' = consumed \cup {f}
  /\ starts' = [starts EXCEPT ![f] = @ + 1]
  /\ at' = [at EXCEPT ![p] = next]
  /\ UNCHANGED <<run, image, text, manifest, reports, spoiled, rulings, edits>>

\* Creating the marker is the claim: of two processes one succeeds, the
\* other gives up.
Take(f, p, next) ==
  /\ IF f \in consumed
     THEN Leave(p) /\ UNCHANGED <<consumed, starts>>
     ELSE /\ consumed' = consumed \cup {f}
          /\ starts' = [starts EXCEPT ![f] = @ + 1]
          /\ at' = [at EXCEPT ![p] = next]
          /\ UNCHANGED run
  /\ UNCHANGED <<image, text, manifest, reports, spoiled, rulings, edits>>

Claim(p) ==
  /\ at[p] = "checked"
  /\ Take(<<"L6", run[p].l6>>, p, "claimed")

\* One board: the operator brings up one session at a time.
Provision(p) ==
  /\ at[p] = "claimed"
  /\ \A q \in Runners : at[q] \notin {"provisioned", "loaded"}
  /\ Take(<<"P3-K", run[p].pk>>, p, "provisioned")

\* The page carries the image hash of the preflight; the bytes that go to
\* the board are those the file holds now, and only their count is checked.
LoadApp(p) ==
  /\ at[p] = "provisioned"
  /\ at' = [at EXCEPT ![p] = "loaded"]
  /\ run' = [run EXCEPT ![p] = [session |-> @.session, l6 |-> @.l6, pk |-> @.pk, manifest |-> @.manifest,
                                image |-> @.image, ran |-> image]]
  /\ UNCHANGED <<image, text, manifest, reports, spoiled, rulings, consumed, starts, edits>>

Finish(p) ==
  /\ at[p] = "loaded"
  /\ reports' = reports \cup {Report(run[p].session, run[p].image, run[p].manifest.text, run[p].ran)}
  /\ Leave(p)
  /\ UNCHANGED <<image, text, manifest, spoiled, rulings, consumed, starts, edits>>

\* A stop, a refusal or a crash after the claim: the rulings stay consumed
\* and there is no report.  (Before it, nothing has happened.)
Fail(p) ==
  /\ at[p] \in {"claimed", "provisioned", "loaded"}
  /\ Leave(p)
  /\ UNCHANGED <<image, text, manifest, reports, spoiled, rulings, consumed, starts, edits>>

Next ==
  \/ Edit \/ Issue
  \/ \E p \in Runners : Preflight(p) \/ Claim(p) \/ Provision(p) \/ LoadApp(p) \/ Finish(p) \/ Fail(p)

Spec == Init /\ [][Next]_vars

-----------------------------------------------------------------------------
(* Properties.                                                             *)

OnBoard == {p \in Runners : at[p] = "loaded"}
Soaking == {p \in OnBoard : run[p].session = "S"}

\* A ruling file authorises one start, whatever processes were given it
\* and in whatever order they checked and claimed it.
RulingSpentOnce == \A f \in RulingFiles : starts[f] <= 1

\* A session on the board is the one both its rulings name, under exactly
\* the manifest the owner had when issuing them, however many edits and
\* re-issues came between.
RunsAsRuled ==
  \A p \in OnBoard : \A i \in {run[p].l6, run[p].pk} :
    /\ rulings[i].session = run[p].session
    /\ rulings[i].manifest = run[p].manifest

\* The image a soak runs is the image both its calibrations ran: a rate
\* measured on one build never budgets another.
SoakOnMeasuredImage ==
  \A p \in Soaking : \A k \in Calibrations :
    /\ run[p].manifest.cal[k].session = k
    /\ run[p].manifest.cal[k].ran = run[p].ran

\* A soak uses calibrations made under its own preregistration, or, under
\* the one version that rules imports, under one that it superseded.
ImportsStayWhereRuled ==
  \A p \in Soaking : \A k \in Calibrations :
    LET m == run[p].manifest IN
    \/ m.cal[k].text = m.text
    \/ m.text = ImportText /\ m.cal[k].text \in m.chain

\* A soak's rates are of its image and of a text that allows them.
SoakIsCalibrated == SoakOnMeasuredImage /\ ImportsStayWhereRuled

\* What a report says it was measured on is what the board ran.
BindingIsTrue == \A r \in reports : r.image = r.ran
=============================================================================
