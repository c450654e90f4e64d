----------------------------- MODULE AppSession -----------------------------
(***************************************************************************)
(* The board application's main loop (firmware/p3_app.c): the bracketed    *)
(* session of candidates, each staged, witnessed, written, witnessed       *)
(* again, armed and recorded, with a failure possible at every step; the   *)
(* closing control; the restore that a stop owes; the summary.             *)
(*                                                                         *)
(* The console exchanges are taken at their outcome (module RelSession     *)
(* models the lines, AuditPull the pull), the carrier at what it may       *)
(* answer to an ARM (module ArmGate models it clock by clock).             *)
(***************************************************************************)
EXTENDS Naturals, Sequences, FiniteSets

CONSTANTS
  Genomes,   \* what the search may propose; a genome stands for its frames,
             \* their hash and their tables
  Blank,     \* the blank genome, the pinned base
  Budget,    \* identity page: candidates between the two baselines
  Envelopes  \* P3_ENVELOPE_COUNT: DMA writes of one candidate

Other == "other"  \* any content that is no genome's

ASSUME AppAssumption ==
  /\ IsFiniteSet(Genomes)
  /\ Blank \in Genomes
  /\ {Other, "none"} \cap Genomes = {}
  /\ {Budget, Envelopes} \subseteq Nat \ {0}

VARIABLES
  legal,     \* the genomes the host's gate calls writable
  pc,        \* where the application is
  phase,     \* "opening", "search", "closing", "control" or "restore"
  index,     \* i of main: candidates of the search proposed so far
  seq,       \* S.seq
  genome,    \* the candidate
  kind,      \* S.kind
  asked,     \* nonce named in the SIGNREQ
  audit,     \* S.audit_requested
  servedSeq, \* S.audit_served_seq, 0 before the first
  staged,    \* the frames in the staging buffers
  written,   \* envelopes written of this candidate
  before,    \* nonce read before the strobe
  rec,       \* the record being sent
  total,     \* records built: p3_wire_tally
  last,      \* S.last_commit, "none" before the first
  closing,   \* the closing steps done: S.closing_*
  fabric,    \* the fabric's contents, by envelope
  dmaFailed, \* some DMA of the epoch did not complete
  nonce,     \* the carrier's nonce, as the number of ARMs consumed
  answer,    \* what the strobe will have settled to, "none" before the first
  fault,     \* the carrier's sticky fault
  control,   \* the fields of the closing control, once it was refused
  pulled,    \* candidates whose audit pull ended in AUDITDONE
  notary,    \* NotaryRelay.entries, by seq
  log,       \* Collector.loop_records, by seq
  confirmed  \* outcomes of the acknowledged records

candidate == <<genome, asked, audit, staged, written, before>>
summary == <<total, last, closing, control>>
carrier == <<fabric, dmaFailed, nonce, answer, fault>>
books == <<pulled, notary, log, confirmed>>
place == <<phase, index, seq, kind>>
vars == <<legal, pc, place, candidate, servedSeq, rec, summary, carrier, books>>

Stops == {"STOP_SIGN", "STOP_LINK2", "STOP_LINK3", "STOP_AUDIT", "STOP_AXI",
          "STOP_SETTLE", "STOP_ARM", "REFUSED_BY_PL"}
Outcomes == Stops \cup {"SCORED", "REFUSED_BY_GATE"}
Contents == Genomes \cup {Other}
Records == [outcome : Outcomes, commit : Genomes, audited : BOOLEAN,
            arm : {<< >>} \cup (Nat \X Nat)]
NoRecord == [outcome |-> "none"]

-----------------------------------------------------------------------------
Init ==
  /\ legal \in SUBSET Genomes
  /\ pc = "ident" /\ phase = "opening" /\ index = 0 /\ seq = 0 /\ kind = "RUNNING"
  /\ genome = Blank /\ asked = 0 /\ audit = FALSE /\ staged = Other /\ written = 0 /\ before = 0
  /\ servedSeq = 0 /\ rec = NoRecord
  /\ total = 0 /\ last = "none" /\ closing = {} /\ control = << >>
  /\ fabric = [e \in 1 .. Envelopes |-> Blank] /\ dmaFailed = FALSE
  /\ nonce = 0 /\ answer = "none" /\ fault = FALSE
  /\ pulled = {} /\ notary = << >> /\ log = << >> /\ confirmed = << >>

(* The first cause of an end is the one recorded. *)
Stop(k) == kind' = IF kind = "RUNNING" THEN k ELSE kind

(* run_candidate returned -1, or closing_unsigned_control returned early. *)
Abandon(k) == Stop(k) /\ pc' = "finally"

(* The identity is accepted and acknowledged and the watchdog starts, or    *)
(* the epoch is over before anything was written.                           *)
Identify ==
  /\ pc = "ident"
  /\ \/ pc' = "propose" /\ UNCHANGED kind
     \/ pc' = "term" /\ Stop("STOPPED")
  /\ UNCHANGED <<legal, phase, index, seq, candidate, servedSeq, rec, summary, carrier, books>>

-----------------------------------------------------------------------------
(* The sign exchange. *)

IsBaseline == phase \in {"opening", "closing"}
RequestNonceOfStart == 0  \* mutant: the nonce of the identity page

RequestNonce == nonce  \* pl_nonce, read when the SIGNREQ is built

Propose ==
  /\ pc = "propose"
  /\ seq' = seq + 1
  /\ genome' \in IF IsBaseline THEN {Blank} ELSE Genomes
  /\ asked' = RequestNonce
  /\ pc' = "sign"
  /\ UNCHANGED <<legal, phase, index, kind, audit, staged, written, before, servedSeq, rec,
                 summary, carrier, books>>

Answer(g) == IF g \in legal THEN "SIGNOK" ELSE "SIGNREF"

HostSigns == notary' = Append(notary, [genome |-> genome, nonce |-> asked, answer |-> Answer(genome)])

(* A record is built once, counted once, and sent until acknowledged. *)
Served == servedSeq = seq
Build(outcome, arm, mark) ==
  /\ rec' = [outcome |-> outcome, commit |-> genome, audited |-> mark, arm |-> arm]
  /\ total' = total + 1
  /\ pc' = "rec"

Signed ==
  /\ pc = "sign" /\ genome \in legal
  /\ HostSigns
  /\ audit' \in BOOLEAN
  /\ pc' = "stage"
  /\ UNCHANGED <<legal, place, genome, asked, staged, written, before, servedSeq, rec, summary,
                 carrier, pulled, log, confirmed>>

Refused ==
  /\ pc = "sign" /\ genome \notin legal
  /\ HostSigns
  /\ audit' = FALSE
  /\ Build("REFUSED_BY_GATE", << >>, Served)
  /\ UNCHANGED <<legal, place, genome, asked, staged, written, before, servedSeq, last, closing,
                 control, carrier, pulled, log, confirmed>>

(* No reply after three transmissions: the host may have answered or not.   *)
SignUnanswered ==
  /\ pc = "sign"
  /\ HostSigns \/ UNCHANGED notary
  /\ Build("STOP_SIGN", << >>, Served)
  /\ UNCHANGED <<legal, place, candidate, servedSeq, last, closing, control, carrier, pulled, log,
                 confirmed>>

(* A reply that breaks the protocol: no record. *)
SignProtocol ==
  /\ pc = "sign"
  /\ HostSigns \/ UNCHANGED notary
  /\ Abandon("PROTOCOL")
  /\ UNCHANGED <<legal, phase, index, seq, candidate, servedSeq, rec, summary, carrier, pulled, log,
                 confirmed>>

-----------------------------------------------------------------------------
(* Staging, the two witnesses, and the DMA. *)

Stage ==
  /\ pc = "stage"
  /\ staged' \in {genome, Other}
  /\ written' = 0
  /\ pc' = "link2"
  /\ UNCHANGED <<legal, place, genome, asked, audit, before, servedSeq, rec, summary, carrier, books>>

(* An audit pull that a stop makes on its own: it may end in AUDITDONE. *)
AutoPull ==
  \/ servedSeq' = seq /\ pulled' = pulled \cup {seq}
  \/ UNCHANGED <<servedSeq, pulled>>

Link2Holds == staged = genome

Link2 ==
  /\ pc = "link2" /\ Link2Holds
  /\ pc' = "write"
  /\ UNCHANGED <<legal, place, candidate, servedSeq, rec, summary, carrier, books>>

(* The staged frames are not the signed commit: audited, stopped, recorded. *)
Link2Differs ==
  /\ pc = "link2" /\ ~Link2Holds
  /\ AutoPull
  /\ Stop("STOPPED")
  /\ Build("STOP_LINK2", << >>, servedSeq' = seq)
  /\ UNCHANGED <<legal, phase, index, seq, candidate, last, closing, control, carrier, notary, log,
                 confirmed>>

(* The stream does not even parse: stopped without a record. *)
Link2Unparsed ==
  /\ pc = "link2" /\ staged = Other
  /\ Abandon("STOPPED")
  /\ UNCHANGED <<legal, phase, index, seq, candidate, servedSeq, rec, summary, carrier, books>>

(* One envelope's DMA completes; it may have landed as something else.      *)
WriteEnvelope ==
  /\ pc = "write" /\ written < Envelopes
  /\ written' = written + 1
  /\ \E c \in {staged, Other} : fabric' = [fabric EXCEPT ![written'] = c]
  /\ UNCHANGED <<legal, pc, place, genome, asked, audit, staged, before, servedSeq, rec, summary,
                 dmaFailed, nonce, answer, fault, books>>

(* It does not complete: the stop, and its restore if this was not it.      *)
WriteFails ==
  /\ pc = "write" /\ written < Envelopes
  /\ dmaFailed' = TRUE
  /\ \E c \in {fabric[written + 1], staged, Other} : fabric' = [fabric EXCEPT ![written + 1] = c]
  /\ Stop("STOPPED")
  /\ pc' = IF phase = "restore" THEN "term" ELSE "finally"
  /\ UNCHANGED <<legal, phase, index, seq, candidate, servedSeq, rec, summary, nonce, answer, fault,
                 books>>

\* mutant: only the last envelope is read back
Link3HoldsLast == fabric[Envelopes] = genome

Link3Holds == \A e \in 1 .. Envelopes : fabric[e] = genome

Link3 ==
  /\ pc = "write" /\ phase # "restore" /\ written = Envelopes /\ Link3Holds
  /\ pc' = IF audit THEN "pull" ELSE "arm"
  /\ UNCHANGED <<legal, place, candidate, servedSeq, rec, summary, carrier, books>>

Link3Differs ==
  /\ pc = "write" /\ phase # "restore" /\ written = Envelopes /\ ~Link3Holds
  /\ AutoPull
  /\ Stop("STOPPED")
  /\ Build("STOP_LINK3", << >>, servedSeq' = seq)
  /\ UNCHANGED <<legal, phase, index, seq, candidate, last, closing, control, carrier, notary, log,
                 confirmed>>

(* A readback DMA fails: stopped without a record. *)
ReadbackFails ==
  /\ pc = "write" /\ phase # "restore" /\ written = Envelopes
  /\ dmaFailed' = TRUE
  /\ Abandon("STOPPED")
  /\ UNCHANGED <<legal, phase, index, seq, candidate, servedSeq, rec, summary, fabric, nonce, answer,
                 fault, books>>

(* The audit the host asked for comes before the ARM. *)
Pull ==
  /\ pc = "pull"
  /\ servedSeq' = seq
  /\ pulled' = pulled \cup {seq}
  /\ pc' = "arm"
  /\ UNCHANGED <<legal, place, candidate, rec, summary, carrier, notary, log, confirmed>>

PullFails ==
  /\ pc = "pull"
  /\ Build("STOP_AUDIT", << >>, Served)
  /\ UNCHANGED <<legal, place, candidate, servedSeq, last, closing, control, carrier, books>>

-----------------------------------------------------------------------------
(* The ARM: of the candidate, or of the closing control, whose payload is   *)
(* the last signed one and whose tag is zero.                               *)

Payload == IF phase = "control" THEN last ELSE genome
Authentic == phase # "control" /\ asked = nonce

(* What the carrier may answer.  An authentic ARM may still be refused, and *)
(* any ARM may hang or be lost; an unauthenticated one is never accepted.   *)
Answers ==
  {"hung", "unconsumed", "refused"}
    \cup (IF Authentic /\ \A e \in 1 .. Envelopes : fabric[e] = Payload THEN {"valid"} ELSE {})

\* The nonce and the fault each answer leaves.
Leaves == [hung |-> {nonce, nonce + 1} \X {FALSE}, unconsumed |-> {nonce} \X BOOLEAN,
           refused |-> {<<nonce + 1, TRUE>>}, valid |-> {<<nonce + 1, FALSE>>}]

Strobe ==
  /\ pc = "arm" /\ ~fault
  /\ before' = nonce
  /\ answer' \in Answers
  /\ \E after \in Leaves[answer'] : nonce' = after[1] /\ fault' = after[2]
  /\ pc' = "poll"
  /\ UNCHANGED <<legal, place, genome, asked, audit, staged, written, servedSeq, rec, summary, fabric,
                 dmaFailed, books>>

(* STATUS shows a fault or a recovery before the ARM: no attempt is made.   *)
ArmNotMade ==
  /\ pc = "arm"
  /\ fault' = TRUE
  /\ Stop("STOPPED")
  /\ IF phase = "control"
       THEN pc' = "finally" /\ UNCHANGED <<servedSeq, pulled, rec, total>>
       ELSE AutoPull /\ Build("STOP_AXI", << >>, servedSeq' = seq)
  /\ UNCHANGED <<legal, phase, index, seq, candidate, last, closing, control, fabric, dmaFailed, nonce,
                 answer, notary, log, confirmed>>

StopOf == [hung |-> "STOP_SETTLE", unconsumed |-> "STOP_ARM", refused |-> "REFUSED_BY_PL"]

(* The poll settled or its bound ran out: the candidate is scored, or every *)
(* observation goes into a record that ends the epoch.                      *)
Scored ==
  /\ pc = "poll" /\ phase # "control" /\ answer = "valid"
  /\ Build("SCORED", <<before, nonce>>, Served)
  /\ UNCHANGED <<legal, place, candidate, servedSeq, last, closing, control, carrier, books>>

NotScored ==
  /\ pc = "poll" /\ phase # "control" /\ answer # "valid"
  /\ AutoPull
  /\ Build(StopOf[answer], <<before, nonce>>, servedSeq' = seq)
  /\ UNCHANGED <<legal, place, candidate, last, closing, control, carrier, notary, log, confirmed>>

-----------------------------------------------------------------------------
(* The record's transaction and what follows it. *)

HostTakes ==
  /\ pc = "rec" /\ Len(log) < Len(notary)
  /\ log' = Append(log, rec)
  /\ pc' = "ack"
  /\ UNCHANGED <<legal, place, candidate, servedSeq, rec, summary, carrier, pulled, notary, confirmed>>

\* The records after which the epoch ends.
\* mutant: a refusal by the carrier is data, as one by the gate is
EndsButPL(o) == o \in Stops \ {"REFUSED_BY_PL"}

Ends(o) == o \in Stops

(* main: the next candidate, the closing baseline, or the closing control.  *)
NextUp ==
  /\ UNCHANGED kind
  /\ IF phase = "closing"
       THEN phase' = "control" /\ pc' = "control" /\ UNCHANGED index
       ELSE /\ phase' = IF index < Budget THEN "search" ELSE "closing"
            /\ index' = IF index < Budget THEN index + 1 ELSE index
            /\ pc' = "propose"

RecAcked ==
  /\ pc = "ack"
  /\ confirmed' = Append(confirmed, rec.outcome)
  /\ IF Ends(rec.outcome)
       THEN Abandon("STOPPED") /\ UNCHANGED <<phase, index, last, closing>>
       ELSE /\ NextUp
            /\ last' = IF rec.outcome = "SCORED" THEN genome ELSE last
            /\ closing' = closing
                 \cup (IF rec.outcome = "SCORED" /\ IsBaseline THEN {"baseline"} ELSE {})
                 \cup (IF phase = "closing" THEN {"restore"} ELSE {})
  /\ UNCHANGED <<legal, seq, candidate, servedSeq, rec, total, control, carrier, pulled, notary, log>>

\* mutant: a refusal's record need not be acknowledged
RecUnackedGoesOn ==
  /\ pc \in {"rec", "ack"}
  /\ IF rec.outcome = "REFUSED_BY_GATE"
       THEN NextUp
       ELSE Abandon("STOPPED") /\ UNCHANGED <<phase, index>>
  /\ UNCHANGED <<legal, seq, candidate, servedSeq, rec, summary, carrier, books>>

(* Three transmissions without an acknowledgement end the epoch: STOP_REC,  *)
(* or the stop the record reports.                                          *)
RecUnacked ==
  /\ pc \in {"rec", "ack"}
  /\ Abandon("STOPPED")
  /\ UNCHANGED <<legal, phase, index, seq, candidate, servedSeq, rec, summary, carrier, books>>

-----------------------------------------------------------------------------
(* The closing control and the end. *)

StartControl ==
  /\ pc = "control"
  /\ IF last = "none" THEN Abandon("STOPPED") ELSE pc' = "arm" /\ UNCHANGED kind
  /\ UNCHANGED <<legal, phase, index, seq, candidate, servedSeq, rec, summary, carrier, books>>

JudgeControl ==
  /\ pc = "poll" /\ phase = "control"
  /\ IF answer = "refused"
       THEN /\ control' = <<before, nonce>>
            /\ closing' = closing \cup {"control"}
            /\ Abandon("COMPLETED")
       ELSE Abandon("STOPPED") /\ UNCHANGED <<control, closing>>
  /\ UNCHANGED <<legal, phase, index, seq, candidate, servedSeq, rec, total, last, carrier, books>>

\* mutant: a sticky fault excuses the restore
OwesRestoreUnlessFault == kind = "STOPPED" /\ "restore" \notin closing /\ ~fault

OwesRestore == kind = "STOPPED" /\ "restore" \notin closing

(* The mandatory finally: stage the base and write it. *)
Finally ==
  /\ pc = "finally"
  /\ IF OwesRestore
       THEN phase' = "restore" /\ staged' = Blank /\ written' = 0 /\ pc' = "write"
       ELSE pc' = "term" /\ UNCHANGED <<phase, staged, written>>
  /\ UNCHANGED <<legal, index, seq, kind, genome, asked, audit, before, servedSeq, rec, summary, carrier,
                 books>>

Restored ==
  /\ pc = "write" /\ phase = "restore" /\ written = Envelopes
  /\ closing' = closing \cup {"restore"}
  /\ pc' = "term"
  /\ UNCHANGED <<legal, place, candidate, servedSeq, rec, total, last, control, carrier, books>>

(* The summary's transaction: acknowledged or not, the application halts.   *)
Term ==
  /\ pc = "term"
  /\ pc' = "halted"
  /\ UNCHANGED <<legal, place, candidate, servedSeq, rec, summary, carrier, books>>

Halted == pc = "halted" /\ UNCHANGED vars

Candidate == Propose \/ Signed \/ Refused \/ SignUnanswered \/ SignProtocol
Witness == Stage \/ Link2 \/ Link2Differs \/ Link2Unparsed \/ Link3 \/ Link3Differs \/ ReadbackFails
Write == WriteEnvelope \/ WriteFails
Arm == Pull \/ PullFails \/ Strobe \/ ArmNotMade \/ Scored \/ NotScored
Record == HostTakes \/ RecAcked \/ RecUnacked
End == StartControl \/ JudgeControl \/ Finally \/ Restored \/ Term

Next == Identify \/ Candidate \/ Witness \/ Write \/ Arm \/ Record \/ End \/ Halted

Spec == Init /\ [][Next]_vars

-----------------------------------------------------------------------------
(* Properties *)

Pcs == {"ident", "propose", "sign", "stage", "link2", "write", "pull", "arm", "poll", "rec", "ack",
        "control", "finally", "term", "halted"}

\* Every variable holds a value of its kind; the session never has more
\* candidates than the budget and the two baselines.
TypeOK ==
  /\ legal \subseteq Genomes /\ pc \in Pcs
  /\ phase \in {"opening", "search", "closing", "control", "restore"}
  /\ index \in 0 .. Budget /\ seq \in 0 .. Budget + 2
  /\ kind \in {"RUNNING", "COMPLETED", "STOPPED", "PROTOCOL"}
  /\ genome \in Genomes /\ asked \in Nat /\ audit \in BOOLEAN
  /\ servedSeq \in 0 .. seq /\ staged \in Contents /\ written \in 0 .. Envelopes /\ before \in Nat
  /\ rec \in Records \cup {NoRecord} /\ total \in 0 .. seq
  /\ last \in Genomes \cup {"none"}
  /\ closing \subseteq {"restore", "baseline", "control"} /\ control \in {<< >>} \cup (Nat \X Nat)
  /\ fabric \in [1 .. Envelopes -> Contents] /\ dmaFailed \in BOOLEAN
  /\ nonce \in 0 .. Budget + 3 /\ answer \in {"none", "hung", "unconsumed", "refused", "valid"}
  /\ fault \in BOOLEAN /\ pulled \subseteq 1 .. seq
  /\ Len(notary) <= seq /\ Len(log) <= Len(notary) /\ Len(confirmed) <= Len(log)
  /\ \A i \in DOMAIN log : log[i] \in Records

\* The nonces consumed by the first n records of the log.
Consumed(n) == Cardinality({i \in 1 .. n : log[i].arm # << >> /\ log[i].arm[2] # log[i].arm[1]})

\* Rules (vii) and (ix) of validators/records.py hold of the log at any time:
\* each ARM consumed the nonce its own signature named, which is where the
\* chain of the records before it ended; a record of a candidate past staging
\* has a signature behind it; and the mark "audited" is on a record only if
\* that candidate's pull ended in AUDITDONE.
LogIsAChain ==
  \A i \in DOMAIN log :
    /\ log[i].commit = notary[i].genome
    /\ log[i].arm # << >> => log[i].arm[1] = notary[i].nonce /\ log[i].arm[1] = Consumed(i - 1)
    /\ (log[i].outcome = "REFUSED_BY_GATE") => notary[i].answer = "SIGNREF"
    /\ log[i].outcome \notin {"REFUSED_BY_GATE", "STOP_SIGN"} => notary[i].answer = "SIGNOK"
    /\ log[i].audited => i \in pulled

\* Rule (viii): a summary that says COMPLETED has all three closing steps
\* done, every answered candidate recorded, a blank candidate scored first and
\* last, and a closing control that consumed the last nonce of the chain.
\* (For a gate that calls the blank candidate writable.)
CompletedIsComplete ==
  pc = "halted" /\ kind = "COMPLETED" /\ Blank \in legal =>
    LET scored == {i \in DOMAIN log : log[i].outcome = "SCORED"} IN
      /\ closing = {"restore", "baseline", "control"}
      /\ Len(notary) = seq /\ Len(log) = seq /\ total = seq
      /\ seq = Budget + 2
      /\ {1, seq} \subseteq scored /\ log[1].commit = Blank /\ log[seq].commit = Blank
      /\ control = <<Consumed(seq), Consumed(seq) + 1>>

\* A strobe is only ever given for what the fabric was read back to hold, with
\* the audit the host asked for already done; the closing control is given
\* over a fabric that holds exactly the payload it presents.
ArmsWhatItRead ==
  [][pc = "arm" /\ pc' = "poll" =>
       /\ \A e \in 1 .. Envelopes : fabric[e] = Payload
       /\ (phase # "control" /\ audit) => seq \in pulled]_vars

\* Nothing is asked of the carrier once it refused or the epoch has a cause to
\* end: no strobe ever, and no write but the base's.
OnlyRestoreAfterStop ==
  [][(kind # "RUNNING" \/ fault) =>
       /\ nonce' = nonce /\ answer' = answer
       /\ \A e \in 1 .. Envelopes : fabric'[e] \in {fabric[e], Blank, Other}]_vars

\* The mandatory finally: once a candidate was proposed, a STOPPED epoch whose
\* DMAs all completed, and whose last staging was whole, leaves no envelope of
\* a candidate in the fabric, and says so; and no epoch says so falsely.
StopRestores ==
  pc = "halted" /\ Blank \in legal =>
    /\ kind = "STOPPED" /\ seq > 0 /\ ~dmaFailed /\ staged # Other => "restore" \in closing
    /\ "restore" \in closing => \A e \in 1 .. Envelopes : fabric[e] \in {Blank, Other}

\* What the summary says of the session and of the carrier it left is so.
SummaryIsTrue == CompletedIsComplete /\ StopRestores

\* The session keeps the promise of Handover: a candidate is proposed only
\* when the record of the one before it is confirmed, and a stop is the last.
Plain(o) == IF o \in Stops \ {"STOP_SIGN"} THEN "STOP_DEVICE" ELSE o
Promise == INSTANCE Handover WITH
  NCand <- Budget + 2,
  notary <- [i \in DOMAIN notary |-> notary[i].answer],
  records <- [i \in DOMAIN log |-> Plain(log[i].outcome)],
  confirmed <- [i \in DOMAIN confirmed |-> Plain(confirmed[i])]
KeepsPromise == Promise!Spec
=============================================================================
