------------------------------- MODULE RefLoop -------------------------------
(***************************************************************************)
(* The Python reference of the application's main loop                     *)
(* (host/l5_refloop.py), "the sequencing-and-refusals oracle the C         *)
(* application must mirror": the host's tests judge its sessions, the      *)
(* board runs firmware/p3_app.c.  Each behaviour is a session of one of    *)
(* the two loops; what module AppSession states of the application is      *)
(* checked of both.                                                        *)
(*                                                                         *)
(* The reference runs against a duck-typed board: it has no console        *)
(* transactions and no audit, appends its records itself and returns the   *)
(* summary.  A step both loops take is AppSession's.                       *)
(***************************************************************************)
EXTENDS AppSession

VARIABLE loop  \* whose session this is: "app" or "ref"

\* A record is appended as it is built; the loop then returns or raises.
RefAppend == HostTakes

\* Only the closing candidate's return marks the closing steps, both at once.
RefReturn ==
  /\ pc = "ack"
  /\ confirmed' = Append(confirmed, rec.outcome)
  /\ IF Ends(rec.outcome)
       THEN Abandon("STOPPED") /\ UNCHANGED <<phase, index, last, closing>>
       ELSE /\ NextUp
            /\ last' = IF rec.outcome = "SCORED" THEN genome ELSE last
            /\ closing' = closing \cup IF phase = "closing" THEN {"restore", "baseline"} ELSE {}
  /\ UNCHANGED <<legal, seq, candidate, servedSeq, rec, total, control, carrier, pulled, notary, log>>

\* A refused identity is a stop too, and a stop restores.
RefIdentify ==
  /\ pc = "ident"
  /\ (pc' = "propose" /\ UNCHANGED kind) \/ Abandon("STOPPED")
  /\ UNCHANGED <<legal, phase, index, seq, candidate, servedSeq, rec, summary, carrier, books>>

\* The notary signs or refuses, or breaks the protocol.  No audit is asked for.
RefSign == (Signed /\ ~audit') \/ Refused \/ SignProtocol

\* A stop inside _stage_and_witness, or after it: the record first.
RefStop(outcome, arm) ==
  /\ Build(outcome, arm, FALSE)
  /\ UNCHANGED <<legal, place, candidate, servedSeq, last, closing, control, nonce, answer, fault, books>>

RefLink2Differs ==
  /\ pc = "link2" /\ ~Link2Holds
  /\ RefStop("STOP_LINK2", << >>)
  /\ UNCHANGED <<fabric, dmaFailed>>

\* Streams that do not parse are no LoopStop: the reference's run does not return.
RefUnparsed ==
  /\ pc = "link2" /\ staged = Other
  /\ pc' = "raised"
  /\ UNCHANGED <<legal, place, candidate, servedSeq, rec, summary, carrier, books>>

\* DEVCFG error bits after a write: a stop of link 2 for a candidate, the end
\* of the attempt for the restore.
RefWriteFails ==
  /\ pc = "write" /\ written < Envelopes
  /\ dmaFailed' = TRUE
  /\ \E c \in {fabric[written + 1], staged, Other} : fabric' = [fabric EXCEPT ![written + 1] = c]
  /\ IF phase = "restore"
       THEN /\ pc' = "term"
            /\ UNCHANGED <<legal, place, candidate, servedSeq, rec, summary, nonce, answer, fault, books>>
       ELSE RefStop("STOP_LINK2", << >>)

RefLink3Differs ==
  /\ pc = "write" /\ phase # "restore" /\ written = Envelopes /\ ~Link3Holds
  /\ RefStop("STOP_LINK3", << >>)
  /\ UNCHANGED <<fabric, dmaFailed>>

RefWitness ==
  \/ Stage \/ Link2 \/ RefLink2Differs \/ RefUnparsed
  \/ WriteEnvelope \/ RefWriteFails \/ Link3 \/ RefLink3Differs

\* A fault before the ARM is raised without a record.
RefArmNotMade ==
  /\ pc = "arm" /\ phase # "control"
  /\ fault' = TRUE
  /\ Abandon("STOPPED")
  /\ UNCHANGED <<legal, phase, index, seq, candidate, servedSeq, rec, summary, fabric, dmaFailed, nonce,
                 answer, books>>

\* The closing control is not polled and its nonce is not judged: the board of
\* the tests settles it at once.
RefStrobe == Strobe /\ (phase = "control" => answer' = "refused")

RefNotScored ==
  /\ pc = "poll" /\ phase # "control" /\ answer # "valid"
  /\ RefStop(StopOf[answer], <<before, nonce>>)
  /\ UNCHANGED <<fabric, dmaFailed>>

RefArm == RefArmNotMade \/ RefStrobe \/ Scored \/ RefNotScored

RefClosingUnsigned ==
  /\ pc = "poll" /\ phase = "control"
  /\ control' = <<before, nonce>>
  /\ IF answer = "valid"
       THEN Abandon("STOPPED") /\ UNCHANGED closing
       ELSE closing' = closing \cup {"control"} /\ Abandon("COMPLETED")
  /\ UNCHANGED <<legal, phase, index, seq, candidate, servedSeq, rec, total, last, carrier, books>>

\* The mandatory finally of every stop; a DMA engine in error excuses it.
RefFinally ==
  /\ pc = "finally"
  /\ \/ kind = "STOPPED" /\ phase' = "restore" /\ staged' = Blank /\ written' = 0 /\ pc' = "write"
     \/ (kind # "STOPPED" \/ dmaFailed) /\ pc' = "term" /\ UNCHANGED <<phase, staged, written>>
  /\ UNCHANGED <<legal, index, seq, kind, genome, asked, audit, before, servedSeq, rec, summary, carrier,
                 books>>

\* The restore's own staging is witnessed: it may be refused, and then nothing
\* is written.
RefRestoreRefused ==
  /\ pc = "write" /\ phase = "restore" /\ written = 0
  /\ staged' = Other
  /\ pc' = "term"
  /\ UNCHANGED <<legal, place, genome, asked, audit, written, before, servedSeq, rec, summary, carrier, books>>

\* The closing control replays the closing candidate's own sign reply; for a
\* refused one there is none, and the reference's run does not return.
RefStartControl ==
  /\ pc = "control"
  /\ pc' = IF Blank \in legal THEN "arm" ELSE "raised"
  /\ UNCHANGED <<legal, place, candidate, servedSeq, rec, summary, carrier, books>>

\* The summary is returned; after a page that did not parse there is no token
\* for it, and the run does not return.
RefSummary ==
  /\ pc = "term"
  /\ pc' \in {"halted"} \cup IF seq = 0 THEN {"raised"} ELSE {}
  /\ UNCHANGED <<legal, place, candidate, servedSeq, rec, summary, carrier, books>>

RefEnd == RefStartControl \/ RefClosingUnsigned \/ RefFinally \/ RefRestoreRefused \/ Restored \/ RefSummary

RefNext ==
  \/ RefIdentify \/ Propose \/ RefSign \/ RefWitness \/ RefArm \/ RefAppend \/ RefReturn \/ RefEnd
  \/ pc \in {"raised", "halted"} /\ UNCHANGED vars

-----------------------------------------------------------------------------
LoopInit == Init /\ loop \in {"app", "ref"}

LoopNext ==
  /\ \/ loop = "app" /\ Next
     \/ loop = "ref" /\ RefNext
  /\ UNCHANGED loop

LoopSpec == LoopInit /\ [][LoopNext]_<<vars, loop>>

=============================================================================
