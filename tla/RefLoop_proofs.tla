--------------------------- MODULE RefLoop_proofs ---------------------------
(***************************************************************************)
(* Proofs about module RefLoop, so about both loops and for any genomes,   *)
(* any budget and any number of envelopes:                                 *)
(*   - the strobe is given only for what the fabric was read back to hold, *)
(*     and after a stop or a fault nothing is asked of the carrier but the *)
(*     restore;                                                            *)
(*   - the log is a chain of nonces, each signed for, and the three books  *)
(*     keep the promise of module Handover;                                *)
(*   - the summary is true of the session and of the fabric it leaves.     *)
(*                                                                         *)
(* What makes the first inductive is the closing control: it presents the  *)
(* last scored candidate without any readback of its own, so the invariant *)
(* has to follow what the fabric holds through every candidate that was    *)
(* refused by the gate in between.  The second needs the place of each     *)
(* book at each place of the loop; the third needs both.                   *)
(***************************************************************************)
EXTENDS RefLoop, FiniteSetTheorems, TLAPS

TypeInv ==
  /\ fabric \in [1 .. Envelopes -> Contents]
  /\ written \in Nat
  /\ staged \in Contents
  /\ genome \in Genomes

Holds(g) == \A e \in 1 .. Envelopes : fabric[e] = g
Writing == pc = "write" /\ phase # "restore"
Restoring == pc = "write" /\ phase = "restore"

\* The places a session can be in once it has a cause to end.
Ending == pc \in {"rec", "ack", "finally", "term", "halted", "raised"} \/ Restoring

EndsInOrder ==
  /\ kind # "RUNNING" => Ending
  /\ fault => Ending \/ pc = "poll"
  /\ pc \in {"rec", "ack"} /\ (kind # "RUNNING" \/ fault) => rec.outcome \in Stops
  /\ pc = "poll" => answer \in {"hung", "unconsumed", "refused", "valid"}
  /\ pc = "poll" /\ fault => answer # "valid"
  /\ Restoring => staged \in {Blank, Other}
  /\ phase = "restore" => pc \in {"write", "term", "halted", "raised"}
  /\ phase = "control" => pc \in {"control", "arm", "poll", "finally", "term", "halted", "raised"}

\* Between candidates the fabric holds the last one scored.
KeepsLast ==
  \/ pc \in {"propose", "sign", "stage", "link2", "control"}
  \/ Writing /\ written = 0
  \/ pc \in {"rec", "ack"} /\ rec.outcome = "REFUSED_BY_GATE"
  \/ pc = "arm" /\ phase = "control"

FabricFollows ==
  /\ pc = "ident" => last = "none"
  /\ KeepsLast /\ last # "none" => Holds(last)
  /\ pc \in {"pull", "arm"} /\ phase # "control" => Holds(genome)
  /\ pc = "poll" /\ phase # "control" /\ answer = "valid" => Holds(genome)
  /\ pc \in {"rec", "ack"} /\ rec.outcome = "SCORED" => Holds(genome)

AuditFirst == pc = "arm" /\ phase # "control" /\ audit => seq \in pulled

\* A closing control that is given has a payload: the application looks, the
\* reference takes the closing candidate's, which a writable base always has.
ControlHasPayload ==
  /\ pc \in {"rec", "ack"} => rec.outcome \in Outcomes
  /\ pc \in {"rec", "ack"} /\ rec.outcome = "REFUSED_BY_GATE" => genome \notin legal
  /\ phase = "closing" /\ pc # "propose" => genome = Blank
  /\ pc = "control" => phase = "control"
  /\ phase = "control" /\ pc = "control" /\ Blank \in legal => last # "none"
  /\ phase = "control" /\ pc = "arm" => last # "none"

IInv == TypeInv /\ EndsInOrder /\ FabricFollows /\ AuditFirst /\ ControlHasPayload

-----------------------------------------------------------------------------
(* Steps.                                                                   *)

\* The session before a candidate is signed.
LEMMA BeginKeeps ==
  ASSUME AppAssumption, IInv, Identify \/ RefIdentify \/ Propose \/ Signed \/ Refused \/ SignProtocol \/ RefSign,
         UNCHANGED loop
  PROVE IInv'
<1>. USE DEF IInv, TypeInv, EndsInOrder, FabricFollows, AuditFirst, ControlHasPayload, Holds, KeepsLast, Ending, Writing,
             Restoring, Abandon, Stop, candidate, summary, carrier, books, place, Stops, Outcomes
<1>1. CASE Identify \/ RefIdentify
  BY <1>1 DEF Identify, RefIdentify
<1>2. CASE Propose
  BY <1>2 DEF Propose, IsBaseline, AppAssumption
<1>3. CASE Signed
  BY <1>3 DEF Signed
<1>4. CASE Refused
  BY <1>4 DEF Refused, Build
<1>5. CASE SignProtocol
  BY <1>5 DEF SignProtocol
<1>. QED BY <1>1, <1>2, <1>3, <1>4, <1>5 DEF RefSign

\* No answer after three transmissions.
LEMMA UnansweredKeeps ==
  ASSUME AppAssumption, IInv, SignUnanswered,
         UNCHANGED loop
  PROVE IInv'
<1>. USE DEF IInv, TypeInv, EndsInOrder, FabricFollows, AuditFirst, ControlHasPayload, Holds, KeepsLast, Ending, Writing,
             Restoring, Abandon, Stop, candidate, summary, carrier, books, place, Stops, Outcomes
<1>1. CASE SignUnanswered
  BY <1>1 DEF SignUnanswered, Build
<1>. QED BY <1>1

\* Staging and the witness of what was staged.
LEMMA StageKeeps ==
  ASSUME AppAssumption, IInv, Stage \/ Link2 \/ Link2Differs \/ Link2Unparsed \/ RefLink2Differs \/ RefUnparsed,
         UNCHANGED loop
  PROVE IInv'
<1>. USE DEF IInv, TypeInv, EndsInOrder, FabricFollows, AuditFirst, ControlHasPayload, Holds, KeepsLast, Ending, Writing,
             Restoring, Abandon, Stop, candidate, summary, carrier, books, place, Stops, Outcomes
<1>1. CASE Stage
  BY <1>1 DEF Stage, Contents
<1>2. CASE Link2
  BY <1>2 DEF Link2, Link2Holds
<1>3. CASE Link2Differs
  BY <1>3 DEF Link2Differs, Build, AutoPull
<1>4. CASE Link2Unparsed
  BY <1>4 DEF Link2Unparsed
<1>5. CASE RefLink2Differs
  BY <1>5 DEF RefLink2Differs, RefStop, Build
<1>6. CASE RefUnparsed
  BY <1>6 DEF RefUnparsed
<1>. QED BY <1>1, <1>2, <1>3, <1>4, <1>5, <1>6

\* The DMA writes, of a candidate or of the restore.
LEMMA WriteKeeps ==
  ASSUME AppAssumption, IInv, WriteEnvelope \/ WriteFails \/ RefWriteFails \/ RefRestoreRefused \/ Restored,
         UNCHANGED loop
  PROVE IInv'
<1>. USE DEF IInv, TypeInv, EndsInOrder, FabricFollows, AuditFirst, ControlHasPayload, Holds, KeepsLast, Ending, Writing,
             Restoring, Abandon, Stop, candidate, summary, carrier, books, place, Stops, Outcomes
<1>1. CASE WriteEnvelope
  BY <1>1 DEF WriteEnvelope, Contents
<1>2. CASE WriteFails
  BY <1>2 DEF WriteFails, Contents
<1>3. CASE RefWriteFails
  BY <1>3 DEF RefWriteFails, Contents, RefStop, Build
<1>4. CASE RefRestoreRefused
  BY <1>4 DEF RefRestoreRefused, Contents
<1>5. CASE Restored
  BY <1>5 DEF Restored
<1>. QED BY <1>1, <1>2, <1>3, <1>4, <1>5

\* The readback, and the audit before the ARM.
LEMMA ReadKeeps ==
  ASSUME AppAssumption, IInv, Link3 \/ Link3Differs \/ RefLink3Differs \/ ReadbackFails \/ Pull \/ PullFails,
         UNCHANGED loop
  PROVE IInv'
<1>. USE DEF IInv, TypeInv, EndsInOrder, FabricFollows, AuditFirst, ControlHasPayload, Holds, KeepsLast, Ending, Writing,
             Restoring, Abandon, Stop, candidate, summary, carrier, books, place, Stops, Outcomes
<1>1. CASE Link3
  BY <1>1 DEF Link3, Link3Holds
<1>2. CASE Link3Differs
  BY <1>2 DEF Link3Differs, Build, AutoPull
<1>3. CASE RefLink3Differs
  BY <1>3 DEF RefLink3Differs, RefStop, Build
<1>4. CASE ReadbackFails
  BY <1>4 DEF ReadbackFails
<1>5. CASE Pull
  BY <1>5 DEF Pull
<1>6. CASE PullFails
  BY <1>6 DEF PullFails, Build
<1>. QED BY <1>1, <1>2, <1>3, <1>4, <1>5, <1>6

\* The ARM and what it settles to.
LEMMA ArmKeeps ==
  ASSUME AppAssumption, IInv, Strobe \/ ArmNotMade \/ RefArmNotMade \/ Scored \/ NotScored \/ RefNotScored,
         UNCHANGED loop
  PROVE IInv'
<1>. USE DEF IInv, TypeInv, EndsInOrder, FabricFollows, AuditFirst, ControlHasPayload, Holds, KeepsLast, Ending, Writing,
             Restoring, Abandon, Stop, candidate, summary, carrier, books, place, Stops, Outcomes
<1>1. CASE Strobe
  <2>1. answer' \in {"hung", "unconsumed", "refused", "valid"}
    BY <1>1 DEF Strobe, Answers
  <2>2. answer' = "valid" => phase # "control" /\ \A e \in 1 .. Envelopes : fabric[e] = genome
    BY <1>1 DEF Strobe, Answers, Authentic, Payload
  <2>3. answer' = "valid" => ~fault'
    <3>1. Leaves["valid"] = {<<nonce + 1, FALSE>>}
      BY DEF Leaves
    <3>2. answer' = "valid" => \E after \in {<<nonce + 1, FALSE>>} : fault' = after[2]
      BY <1>1, <3>1 DEF Strobe
    <3>3. <<nonce + 1, FALSE>>[2] = FALSE
      OBVIOUS
    <3>4. answer' = "valid" => fault' = FALSE
      BY <3>2, <3>3
    <3>. QED BY <3>4
  <2>4. /\ pc = "arm" /\ pc' = "poll" /\ ~fault
        /\ UNCHANGED <<legal, phase, kind, genome, staged, written, seq, rec, last, fabric, pulled>>
    BY <1>1 DEF Strobe
  <2>. QED BY <2>1, <2>2, <2>3, <2>4
<1>2. CASE ArmNotMade
  BY <1>2 DEF ArmNotMade, Build, AutoPull
<1>3. CASE RefArmNotMade
  BY <1>3 DEF RefArmNotMade
<1>4. CASE Scored
  BY <1>4 DEF Scored, Build
<1>5. CASE NotScored
  BY <1>5 DEF NotScored, Build, AutoPull, StopOf
<1>6. CASE RefNotScored
  BY <1>6 DEF RefNotScored, RefStop, Build, StopOf
<1>. QED BY <1>1, <1>2, <1>3, <1>4, <1>5, <1>6

\* The record and what follows it.
LEMMA RecordKeeps ==
  ASSUME AppAssumption, IInv, HostTakes \/ RecAcked \/ RefReturn \/ RecUnacked,
         UNCHANGED loop
  PROVE IInv'
<1>. USE DEF IInv, TypeInv, EndsInOrder, FabricFollows, AuditFirst, ControlHasPayload, Holds, KeepsLast, Ending, Writing,
             Restoring, Abandon, Stop, candidate, summary, carrier, books, place, Stops, Outcomes
<1>1. CASE HostTakes
  BY <1>1 DEF HostTakes
<1>2. CASE RecAcked
  BY <1>2 DEF RecAcked, NextUp, Ends, IsBaseline
<1>3. CASE RefReturn
  BY <1>3 DEF RefReturn, NextUp, Ends, IsBaseline
<1>4. CASE RecUnacked
  BY <1>4 DEF RecUnacked
<1>. QED BY <1>1, <1>2, <1>3, <1>4

\* The closing control, the restore and the summary.
LEMMA EndKeeps ==
  ASSUME AppAssumption, IInv, StartControl \/ RefStartControl \/ JudgeControl \/ RefClosingUnsigned \/ Finally \/ RefFinally \/ Term \/ RefSummary,
         UNCHANGED loop
  PROVE IInv'
<1>. USE DEF IInv, TypeInv, EndsInOrder, FabricFollows, AuditFirst, ControlHasPayload, Holds, KeepsLast, Ending, Writing,
             Restoring, Abandon, Stop, candidate, summary, carrier, books, place, Stops, Outcomes
<1>1. CASE StartControl
  BY <1>1 DEF StartControl
<1>2. CASE RefStartControl
  BY <1>2 DEF RefStartControl
<1>3. CASE JudgeControl
  BY <1>3 DEF JudgeControl
<1>4. CASE RefClosingUnsigned
  BY <1>4 DEF RefClosingUnsigned
<1>5. CASE Finally
  BY <1>5 DEF Finally, Contents, AppAssumption
<1>6. CASE RefFinally
  BY <1>6 DEF RefFinally, Contents, AppAssumption
<1>7. CASE Term
  BY <1>7 DEF Term
<1>8. CASE RefSummary
  BY <1>8 DEF RefSummary
<1>. QED BY <1>1, <1>2, <1>3, <1>4, <1>5, <1>6, <1>7, <1>8

-----------------------------------------------------------------------------
(* Theorems.                                                                *)

\* The inductive invariant holds of every session of either loop.
LEMMA Inductive == LoopSpec => []IInv
<1>1. LoopInit => IInv
  BY AppAssumption DEF LoopInit, Init, IInv, TypeInv, EndsInOrder, FabricFollows, AuditFirst, ControlHasPayload, Holds,
     KeepsLast, Ending, Writing, Restoring, AppAssumption, Contents
<1>2. ASSUME IInv, [LoopNext]_<<vars, loop>> PROVE IInv'
  <2>1. CASE UNCHANGED vars
    BY <1>2, <2>1 DEF vars, candidate, summary, carrier, books, place, IInv, TypeInv, EndsInOrder, FabricFollows,
       AuditFirst, ControlHasPayload, Holds, KeepsLast, Ending, Writing, Restoring
  <2>2. CASE loop = "app" /\ Next /\ UNCHANGED loop
    BY <1>2, <2>1, <2>2, AppAssumption, BeginKeeps, UnansweredKeeps, StageKeeps, WriteKeeps, ReadKeeps, ArmKeeps,
       RecordKeeps, EndKeeps DEF Next, Candidate, Witness, Write, Arm, Record, End, Halted
  <2>3. CASE loop = "ref" /\ RefNext /\ UNCHANGED loop
    BY <1>2, <2>1, <2>3, AppAssumption, BeginKeeps, StageKeeps, WriteKeeps, ReadKeeps, ArmKeeps, RecordKeeps, EndKeeps
       DEF RefNext, RefWitness, RefArm, RefAppend, RefEnd, RefStrobe
  <2>. QED BY <1>2, <2>1, <2>2, <2>3 DEF LoopNext
<1>. QED BY <1>1, <1>2, PTL DEF LoopSpec

\* Whichever loop runs, a strobe is only given for what the fabric was read
\* back to hold, after the audit the host asked for; the closing control's
\* too, which reads nothing back.
THEOREM StrobesWhatItRead == LoopSpec => ArmsWhatItRead
<1>1. ASSUME IInv, [LoopNext]_<<vars, loop>>, pc = "arm", pc' = "poll"
      PROVE /\ \A e \in 1 .. Envelopes : fabric[e] = Payload
            /\ phase # "control" /\ audit => seq \in pulled
  BY <1>1 DEF IInv, FabricFollows, ControlHasPayload, AuditFirst, KeepsLast, Holds, Payload
<1>2. ASSUME IInv, [LoopNext]_<<vars, loop>>
      PROVE [pc = "arm" /\ pc' = "poll" =>
               /\ \A e \in 1 .. Envelopes : fabric[e] = Payload
               /\ (phase # "control" /\ audit) => seq \in pulled]_vars
  BY <1>1, <1>2
<1>. QED BY <1>2, Inductive, PTL DEF LoopSpec, ArmsWhatItRead

\* Only two kinds of steps move the carrier.
LEMMA CarrierMoves ==
  ASSUME Next \/ RefNext \/ UNCHANGED vars
  PROVE \/ UNCHANGED <<nonce, answer, fabric>>
        \/ Strobe
        \/ WriteEnvelope \/ WriteFails \/ RefWriteFails
<1>. USE DEF carrier
<1>1. CASE Identify \/ RefIdentify \/ Candidate \/ RefSign \/ Propose
  BY <1>1 DEF Identify, RefIdentify, Candidate, RefSign, Propose, Signed, Refused, SignUnanswered, SignProtocol
<1>2. CASE Witness \/ Stage \/ Link2 \/ RefLink2Differs \/ RefUnparsed \/ Link3 \/ RefLink3Differs
  BY <1>2 DEF Witness, Stage, Link2, Link2Differs, Link2Unparsed, Link3, Link3Differs, ReadbackFails, RefLink2Differs,
     RefUnparsed, RefLink3Differs, RefStop
<1>3. CASE Arm \/ RefArm
  BY <1>3 DEF Arm, RefArm, Pull, PullFails, ArmNotMade, Scored, NotScored, RefArmNotMade, RefNotScored, RefStrobe, RefStop
<1>4. CASE Record \/ RefAppend \/ RefReturn
  BY <1>4 DEF Record, RefAppend, RefReturn, HostTakes, RecAcked, RecUnacked
<1>5. CASE End \/ RefEnd
  BY <1>5 DEF End, RefEnd, StartControl, JudgeControl, Finally, Restored, Term, RefStartControl, RefClosingUnsigned,
     RefFinally, RefRestoreRefused, RefSummary
<1>6. CASE UNCHANGED vars
  BY <1>6 DEF vars
<1>. QED BY <1>1, <1>2, <1>3, <1>4, <1>5, <1>6 DEF Next, RefNext, Write, RefWitness, Halted

\* Whichever loop runs, once there is a cause to end or a fault, the gate is
\* not asked again and nothing but the base is written.
THEOREM StopIsQuiet == LoopSpec => OnlyRestoreAfterStop
<1>. DEFINE Quiet == /\ nonce' = nonce /\ answer' = answer
                     /\ \A e \in 1 .. Envelopes : fabric'[e] \in {fabric[e], Blank, Other}
<1>1. ASSUME IInv, [LoopNext]_<<vars, loop>>, kind # "RUNNING" \/ fault PROVE Quiet
  <2>1. /\ Ending \/ pc = "poll"
        /\ fabric \in [1 .. Envelopes -> Contents] /\ written \in Nat
        /\ Restoring => staged \in {Blank, Other}
    BY <1>1 DEF IInv, TypeInv, EndsInOrder
  <2>2. CASE UNCHANGED <<nonce, answer, fabric>>
    BY <2>2
  <2>3. ~Strobe
    BY <2>1 DEF Strobe, Ending, Restoring
  <2>4. CASE WriteEnvelope \/ WriteFails \/ RefWriteFails
    <3>1. pc = "write" /\ written < Envelopes /\ UNCHANGED <<nonce, answer>>
      BY <2>4 DEF WriteEnvelope, WriteFails, RefWriteFails, RefStop
    <3>2. staged \in {Blank, Other}
      BY <2>1, <3>1 DEF Ending, Restoring
    <3>3. \E c \in {fabric[written + 1], Blank, Other} : fabric' = [fabric EXCEPT ![written + 1] = c]
      BY <2>4, <3>2 DEF WriteEnvelope, WriteFails, RefWriteFails
    <3>. QED BY <2>1, <3>1, <3>3
  <2>. QED BY <1>1, <2>2, <2>3, <2>4, CarrierMoves DEF LoopNext, vars
<1>2. ASSUME IInv, [LoopNext]_<<vars, loop>>
      PROVE [(kind # "RUNNING" \/ fault) =>
               /\ nonce' = nonce /\ answer' = answer
               /\ \A e \in 1 .. Envelopes : fabric'[e] \in {fabric[e], Blank, Other}]_vars
  BY <1>1, <1>2
<1>. QED BY <1>2, Inductive, PTL DEF LoopSpec, OnlyRestoreAfterStop

-----------------------------------------------------------------------------
(* The books.  What makes LogIsAChain inductive is where each of the three  *)
(* books stands at each place of the loop, and what the nonce, the sign     *)
(* exchange and the record in hand have to do with the log so far.          *)

Signatures == [genome : Genomes, nonce : Nat, answer : {"SIGNOK", "SIGNREF"}]

\* The nonces the first n records of a log consumed: Consumed, of any log.
Spends(r) == r.arm # << >> /\ r.arm[2] # r.arm[1]
Used(l, n) == Cardinality({i \in 1 .. n : Spends(l[i])})

\* Between candidates, the closing control included.
Between == pc \in {"ident", "propose", "control"} \/ (phase = "control" /\ pc \in {"arm", "poll"})

\* A candidate that was signed and has no record yet.
Underway == pc \in {"stage", "link2", "pull"} \/ Writing \/ (phase # "control" /\ pc \in {"arm", "poll"})

\* A candidate that was proposed and is not confirmed yet.
InHand == Underway \/ pc \in {"sign", "rec", "ack"}

\* The session is over but for the restore and the summary.
Ended == pc \in {"finally", "term", "halted", "raised"} \/ Restoring

BooksType ==
  /\ legal \subseteq Genomes /\ genome \in Genomes
  /\ index \in Nat /\ seq \in Nat /\ total \in Nat /\ servedSeq \in Nat
  /\ asked \in Nat /\ before \in Nat /\ nonce \in Nat
  /\ notary \in Seq(Signatures) /\ log \in Seq(Records) /\ confirmed \in Seq(Outcomes)
  /\ pc \in {"rec", "ack"} => rec \in Records
  /\ phase \in {"opening", "search", "closing", "control", "restore"}

\* Which candidate of the session this is, and that the baselines are blank.
InPlace ==
  /\ pc = "ident" => phase = "opening"
  /\ pc = "propose" => phase \in {"opening", "search", "closing"}
  /\ pc = "control" => phase = "control"
  /\ phase = "opening" => index = 0
  /\ phase = "opening" /\ Between => seq = 0
  /\ phase = "opening" /\ InHand => seq = 1
  /\ phase = "search" => index \in 1 .. Budget
  /\ phase = "search" /\ Between => seq = index
  /\ phase = "search" /\ InHand => seq = index + 1
  /\ phase = "closing" => index = Budget
  /\ phase = "closing" /\ Between => seq = Budget + 1
  /\ phase = "closing" /\ InHand => seq = Budget + 2
  /\ phase = "control" => seq = Budget + 2
  /\ phase = "restore" => pc \in {"write", "term", "halted", "raised"}
  /\ seq <= Budget + 2
  /\ InHand /\ seq \in {1, Budget + 2} => genome = Blank

\* How far the notary, the log, the confirmations and the tally are.
InStep ==
  /\ Len(confirmed) <= Len(log) /\ Len(log) <= Len(notary) /\ Len(notary) <= seq
  /\ Between => Len(confirmed) = seq /\ total = seq
  /\ InHand => Len(confirmed) + 1 = seq
  /\ Underway \/ pc \in {"sign", "rec"} => Len(log) + 1 = seq
  /\ Underway \/ pc = "sign" => total + 1 = seq
  /\ pc \in {"rec", "ack"} => total = seq
  /\ pc = "sign" => Len(notary) + 1 = seq
  /\ Underway => Len(notary) = seq /\ genome \in legal
  /\ pc = "ack" => Len(log) = seq /\ log[seq] = rec
  /\ (Underway \/ pc = "rec") /\ Len(notary) = seq => notary[seq].genome = genome /\ notary[seq].nonce = asked

\* The carrier's nonce is where the log's chain ends.
NonceFollows ==
  /\ (Between \/ Underway) /\ pc # "poll" => nonce = Used(log, Len(log))
  /\ pc \in {"sign", "ack"} => nonce = Used(log, Len(log))
  /\ Underway \/ pc = "sign" => asked = Used(log, Len(log))
  /\ pc = "poll" => /\ before = Used(log, Len(log))
                    /\ nonce \in {before, before + 1}
                    /\ answer \in {"refused", "valid"} => nonce = before + 1

\* The record in hand continues the log.
RecordFits ==
  pc = "rec" =>
    /\ rec.commit = genome
    /\ rec.outcome = "REFUSED_BY_GATE" => genome \notin legal
    /\ rec.outcome \notin {"REFUSED_BY_GATE", "STOP_SIGN"} => genome \in legal
    /\ rec.outcome # "STOP_SIGN" => Len(notary) = seq
    /\ rec.audited => seq \in pulled
    /\ rec.arm = << >> => nonce = Used(log, Len(log))
    /\ rec.arm # << >> => /\ rec.arm[1] = asked /\ asked = Used(log, Len(log))
                          /\ rec.arm[2] = nonce /\ nonce \in {asked, asked + 1}

\* The books say the same of each candidate, and a stop is the last of them.
BooksAgree ==
  /\ servedSeq > 0 => servedSeq \in pulled
  /\ \A i \in 1 .. Len(confirmed) : confirmed[i] = log[i].outcome
  /\ Between \/ InHand => \A i \in 1 .. Len(confirmed) : log[i].outcome \notin Stops
  /\ \A i \in 1 .. Len(notary) : notary[i].answer = Answer(notary[i].genome)
  /\ \A i \in 1 .. Len(notary) : i \in {1, Budget + 2} => notary[i].genome = Blank

\* LogIsAChain, entry by entry.
Link(i) ==
  /\ log[i].commit = notary[i].genome
  /\ log[i].arm # << >> => log[i].arm[1] = notary[i].nonce /\ log[i].arm[1] = Used(log, i - 1)
  /\ log[i].outcome = "REFUSED_BY_GATE" => notary[i].answer = "SIGNREF"
  /\ log[i].outcome \notin {"REFUSED_BY_GATE", "STOP_SIGN"} => notary[i].answer = "SIGNOK"
  /\ log[i].audited => i \in pulled
Chain == \A i \in 1 .. Len(log) : Link(i)

BInv == BooksType /\ InPlace /\ InStep /\ NonceFollows /\ RecordFits /\ BooksAgree /\ Chain

\* A record added to a log leaves what the records before it consumed, and
\* adds its own.
LEMMA UsedAppend ==
  ASSUME NEW l \in Seq(Records), NEW r \in Records
  PROVE  /\ \A n \in 0 .. Len(l) : Used(Append(l, r), n) = Used(l, n) /\ Used(l, n) \in Nat
         /\ Used(Append(l, r), Len(l) + 1) = Used(l, Len(l)) + (IF Spends(r) THEN 1 ELSE 0)
<1>. DEFINE m == Append(l, r)
            S(s, n) == {i \in 1 .. n : Spends(s[i])}
<1>1. Len(l) \in Nat /\ \A i \in 1 .. Len(l) : m[i] = l[i]
  OBVIOUS
<1>2. m[Len(l) + 1] = r
  OBVIOUS
<1>. HIDE DEF m
<1>3. ASSUME NEW n \in 0 .. Len(l) PROVE S(m, n) = S(l, n) /\ IsFiniteSet(S(l, n)) /\ Cardinality(S(l, n)) \in Nat
  <2>1. S(m, n) = S(l, n)
    BY <1>1, <1>3
  <2>2. IsFiniteSet(1 .. n)
    <3>1. 1 \in Int /\ n \in Int
      BY <1>1, <1>3
    <3>. QED BY <3>1, FS_Interval
  <2>3. IsFiniteSet(S(l, n))
    BY <2>2, FS_Subset
  <2>. QED BY <2>1, <2>3, FS_CardinalityType
<1>4. S(m, Len(l) + 1) = IF Spends(r) THEN S(l, Len(l)) \cup {Len(l) + 1} ELSE S(l, Len(l))
  BY <1>1, <1>2
<1>5. Len(l) + 1 \notin S(l, Len(l)) /\ Len(l) \in 0 .. Len(l)
  BY <1>1
<1>6. Cardinality(S(m, Len(l) + 1)) = Cardinality(S(l, Len(l))) + (IF Spends(r) THEN 1 ELSE 0)
  <2>. DEFINE T == S(l, Len(l))
  <2>1. IsFiniteSet(T) /\ Cardinality(T) \in Nat /\ Len(l) + 1 \notin T
    BY <1>3, <1>5
  <2>2. S(m, Len(l) + 1) = IF Spends(r) THEN T \cup {Len(l) + 1} ELSE T
    BY <1>4
  <2>. HIDE DEF T, S
  <2>3. Cardinality(T \cup {Len(l) + 1}) = Cardinality(T) + 1
    BY <2>1, FS_AddElement
  <2>. QED BY <2>1, <2>2, <2>3 DEF T
<1>. QED BY <1>3, <1>5, <1>6 DEF Used, m

\* A pair is not the empty sequence, and its members are its members.
LEMMA PairFacts ==
  ASSUME NEW a, NEW b
  PROVE  <<a, b>> # << >> /\ <<a, b>>[1] = a /\ <<a, b>>[2] = b
<1>1. Len(<<a, b>>) = 2 /\ Len(<< >>) = 0
  OBVIOUS
<1>. QED BY <1>1

\* The end of a session, and every step after it, leaves the books alone.
LEMMA EndedBooks ==
  ASSUME AppAssumption, BInv, Ended',
         UNCHANGED <<legal, index, seq, genome, asked, before, nonce, servedSeq, total, notary, log, confirmed, pulled>>,
         phase' \in {phase, "restore"}, phase' = "restore" => pc' \in {"write", "term", "halted", "raised"}
  PROVE  BInv'
<1>. USE DEF Ended, Restoring, Writing, Between, Underway, InHand, BInv
<1>1. BooksType'
  BY DEF BooksType
<1>2. ~Between' /\ ~InHand' /\ ~Underway' /\ pc' \notin {"ident", "propose", "control", "sign", "rec", "ack", "poll"}
  OBVIOUS
<1>3. InPlace'
  BY <1>2 DEF InPlace
<1>4. InStep'
  BY <1>2 DEF InStep
<1>5. NonceFollows' /\ RecordFits'
  BY <1>2 DEF NonceFollows, RecordFits
<1>6. BooksAgree'
  BY <1>2 DEF BooksAgree, Answer
<1>7. Chain'
  BY DEF Chain, Link
<1>. QED BY <1>1, <1>3, <1>4, <1>5, <1>6, <1>7

\* So does what is done with a candidate between its signature and its record,
\* the audit pull aside.
LEMMA UnderwayBooks ==
  ASSUME AppAssumption, BInv, Underway, Underway', pc \notin {"poll"}, pc' # "poll",
         UNCHANGED <<legal, phase, index, seq, genome, asked, before, nonce, total, notary, log, confirmed>>,
         UNCHANGED <<servedSeq, pulled>> \/ (servedSeq' = seq /\ pulled' = pulled \cup {seq})
  PROVE  BInv'
<1>. USE DEF Writing, Between, Underway, InHand, BInv
<1>1. BooksType'
  BY DEF BooksType
<1>2. ~Between' /\ InHand' /\ InHand /\ ~Between /\ pc' \notin {"ident", "propose", "control", "sign", "rec", "ack", "poll"}
  OBVIOUS
<1>3. InPlace'
  BY <1>2 DEF InPlace
<1>4. InStep'
  BY <1>2 DEF InStep
<1>5. NonceFollows' /\ RecordFits'
  BY <1>2 DEF NonceFollows, RecordFits
<1>6. BooksAgree'
  BY <1>2 DEF BooksAgree, Answer
<1>7. Chain'
  BY DEF Chain, Link
<1>. QED BY <1>1, <1>3, <1>4, <1>5, <1>6, <1>7

\* What a signature adds to the notary's book.
LEMMA NotaryGrows ==
  ASSUME AppAssumption, BInv, pc = "sign", HostSigns, UNCHANGED legal
  PROVE  /\ notary' \in Seq(Signatures)
         /\ Len(notary') = seq /\ seq = Len(notary) + 1
         /\ notary'[seq].genome = genome /\ notary'[seq].nonce = asked
         /\ \A i \in 1 .. Len(notary) : notary'[i] = notary[i]
         /\ \A i \in 1 .. Len(notary') : notary'[i].answer = Answer(notary'[i].genome)
         /\ \A i \in 1 .. Len(notary') : i \in {1, Budget + 2} => notary'[i].genome = Blank
<1>. DEFINE s == [genome |-> genome, nonce |-> asked, answer |-> Answer(genome)]
<1>1. s \in Signatures
  <2>1. genome \in Genomes /\ asked \in Nat
    BY DEF BInv, BooksType
  <2>2. Answer(genome) \in {"SIGNOK", "SIGNREF"}
    BY DEF Answer
  <2>. QED BY <2>1, <2>2 DEF Signatures
<1>2. s.genome = genome /\ s.nonce = asked /\ s.answer = Answer(genome)
  OBVIOUS
<1>3. notary' = Append(notary, s) /\ notary \in Seq(Signatures)
  BY DEF HostSigns, BInv, BooksType
<1>4. Len(notary) + 1 = seq /\ (seq \in {1, Budget + 2} => genome = Blank)
  BY DEF BInv, InStep, InPlace, InHand
<1>. HIDE DEF s
<1>5. /\ notary' \in Seq(Signatures) /\ Len(notary') = Len(notary) + 1 /\ notary'[Len(notary) + 1] = s
      /\ Len(notary) \in Nat
      /\ \A i \in 1 .. Len(notary) : notary'[i] = notary[i]
  BY <1>1, <1>3
<1>6. /\ \A i \in 1 .. Len(notary) : notary[i].answer = Answer(notary[i].genome)
      /\ \A i \in 1 .. Len(notary) : i \in {1, Budget + 2} => notary[i].genome = Blank
  BY DEF BInv, BooksAgree
<1>7. ASSUME NEW i \in 1 .. Len(notary')
      PROVE  /\ notary'[i].answer = Answer(notary'[i].genome)
             /\ i \in {1, Budget + 2} => notary'[i].genome = Blank
  <2>1. CASE i = seq
    <3>1. notary'[i] = s
      BY <2>1, <1>4, <1>5
    <3>2. notary'[i].answer = Answer(notary'[i].genome)
      BY <3>1, <1>2 DEF Answer
    <3>3. i \in {1, Budget + 2} => notary'[i].genome = Blank
      BY <3>1, <2>1, <1>2, <1>4
    <3>. QED BY <3>2, <3>3
  <2>2. CASE i # seq
    <3>1. i \in 1 .. Len(notary)
      BY <2>2, <1>4, <1>5, <1>7
    <3>2. notary'[i] = notary[i]
      BY <3>1, <1>5
    <3>3. notary[i].answer = Answer(notary[i].genome) /\ (i \in {1, Budget + 2} => notary[i].genome = Blank)
      BY <3>1, <1>6
    <3>4. notary'[i].answer = Answer(notary'[i].genome)
      BY <3>2, <3>3 DEF Answer
    <3>. QED BY <3>2, <3>3, <3>4
  <2>. QED BY <2>1, <2>2
<1>. QED BY <1>2, <1>4, <1>5, <1>7

\* The steps of the sign exchange.
LEMMA SignBooks ==
  ASSUME AppAssumption, BInv, Signed \/ Refused \/ SignUnanswered \/ SignProtocol
  PROVE  BInv'
<1>. DEFINE Grows ==
       /\ notary' \in Seq(Signatures)
       /\ Len(notary') \in {Len(notary), seq}
       /\ Len(notary') = seq => notary'[seq].genome = genome /\ notary'[seq].nonce = asked
       /\ \A i \in 1 .. Len(notary) : notary'[i] = notary[i]
       /\ \A i \in 1 .. Len(notary') : notary'[i].answer = Answer(notary'[i].genome)
       /\ \A i \in 1 .. Len(notary') : i \in {1, Budget + 2} => notary'[i].genome = Blank
<1>1. /\ pc = "sign" /\ pc' \in {"stage", "rec", "finally"}
      /\ UNCHANGED <<legal, phase, index, seq, genome, asked, before, nonce, servedSeq, pulled, log, confirmed>>
      /\ UNCHANGED notary \/ HostSigns
      /\ pc' = "stage" => genome \in legal /\ HostSigns
      /\ pc' # "finally" /\ ~HostSigns => rec'.outcome = "STOP_SIGN"
      /\ pc' = "rec" => total' = total + 1
      /\ pc' # "rec" => total' = total
  BY DEF Signed, Refused, SignUnanswered, SignProtocol, Build, Abandon, place, carrier, candidate, summary, books
<1>2. pc' = "rec" =>
        /\ rec'.commit = genome /\ rec'.arm = << >> /\ (rec'.audited => servedSeq = seq)
        /\ rec'.outcome \in {"REFUSED_BY_GATE", "STOP_SIGN"}
        /\ rec'.outcome = "REFUSED_BY_GATE" => genome \notin legal
        /\ rec' \in Records
  <2>1. genome \in Genomes /\ servedSeq \in Nat
    BY DEF BInv, BooksType
  <2>2. CASE Refused
    <3>1. rec' = [outcome |-> "REFUSED_BY_GATE", commit |-> genome, audited |-> Served, arm |-> << >>] /\ genome \notin legal
      BY <2>2 DEF Refused, Build
    <3>. QED BY <3>1, <2>1 DEF Served, Records, Outcomes
  <2>3. CASE SignUnanswered
    <3>1. rec' = [outcome |-> "STOP_SIGN", commit |-> genome, audited |-> Served, arm |-> << >>]
      BY <2>3 DEF SignUnanswered, Build
    <3>. QED BY <3>1, <2>1 DEF Served, Records, Outcomes, Stops
  <2>4. CASE Signed \/ SignProtocol
    BY <2>4 DEF Signed, SignProtocol, Abandon
  <2>. QED BY <2>2, <2>3, <2>4
<1>3. /\ Len(confirmed) <= Len(log) /\ Len(log) <= Len(notary) /\ Len(notary) + 1 = seq
      /\ Len(confirmed) + 1 = seq /\ Len(log) + 1 = seq /\ total + 1 = seq
      /\ Len(notary) \in Nat /\ Len(log) \in Nat /\ Len(confirmed) \in Nat /\ seq \in Nat /\ total \in Nat
  BY <1>1 DEF BInv, BooksType, InStep, InHand
<1>4. Grows /\ (pc' # "finally" /\ ~(pc' = "rec" /\ rec'.outcome = "STOP_SIGN") => Len(notary') = seq)
  <2>1. CASE HostSigns
    BY <1>1, <1>3, <2>1, NotaryGrows
  <2>2. CASE UNCHANGED notary
    <3>1. /\ notary \in Seq(Signatures)
          /\ \A i \in 1 .. Len(notary) : notary[i].answer = Answer(notary[i].genome)
          /\ \A i \in 1 .. Len(notary) : i \in {1, Budget + 2} => notary[i].genome = Blank
      BY DEF BInv, BooksType, BooksAgree
    <3>2. Grows
      BY <1>1, <1>3, <2>2, <3>1 DEF Answer
    <3>3. CASE ~HostSigns
      BY <1>1, <3>2, <3>3
    <3>. QED BY <3>2, <3>3, <2>1
  <2>. QED BY <1>1, <2>1, <2>2
<1>. HIDE DEF Grows
<1>5. BooksType'
  <2>1. notary' \in Seq(Signatures)
    BY <1>4 DEF Grows
  <2>. QED BY <1>1, <1>2, <1>3, <2>1 DEF BInv, BooksType
<1>6. ~Between' /\ ~Ended /\ (pc' = "stage" <=> Underway')
      /\ (pc' \in {"stage", "rec"} <=> InHand') /\ InHand
  BY <1>1 DEF Between, InHand, Underway, Writing, Ended, Restoring
<1>7. InPlace'
  BY <1>1, <1>3, <1>6 DEF BInv, InPlace
<1>8. InStep'
  <2>1. Len(notary') = seq => notary'[seq].genome = genome /\ notary'[seq].nonce = asked
    BY <1>4 DEF Grows
  <2>2. Len(notary') \in {Len(notary), seq}
    BY <1>4 DEF Grows
  <2>. QED BY <1>1, <1>3, <1>4, <1>6, <2>1, <2>2 DEF InStep
<1>9. NonceFollows'
  BY <1>1, <1>6 DEF BInv, NonceFollows
<1>10. RecordFits'
  <2>1. servedSeq > 0 => servedSeq \in pulled
    BY DEF BInv, BooksAgree
  <2>2. nonce = Used(log, Len(log))
    BY <1>1 DEF BInv, NonceFollows
  <2>. QED BY <1>1, <1>2, <1>3, <1>4, <2>1, <2>2 DEF RecordFits
<1>11. BooksAgree'
  <2>1. /\ \A i \in 1 .. Len(notary') : notary'[i].answer = Answer(notary'[i].genome)
        /\ \A i \in 1 .. Len(notary') : i \in {1, Budget + 2} => notary'[i].genome = Blank
    BY <1>4 DEF Grows
  <2>2. /\ servedSeq > 0 => servedSeq \in pulled
        /\ \A i \in 1 .. Len(confirmed) : confirmed[i] = log[i].outcome
        /\ \A i \in 1 .. Len(confirmed) : log[i].outcome \notin Stops
    BY <1>6 DEF BInv, BooksAgree
  <2>. QED BY <1>1, <2>1, <2>2 DEF BooksAgree, Answer
<1>12. Chain'
  <2>1. \A i \in 1 .. Len(log) : notary'[i] = notary[i]
    BY <1>3, <1>4 DEF Grows
  <2>. QED BY <1>1, <2>1 DEF BInv, Chain, Link
<1>. QED BY <1>5, <1>7, <1>8, <1>9, <1>10, <1>11, <1>12 DEF BInv

\* A record built of a signed candidate continues the log.
LEMMA BuiltBooks ==
  ASSUME AppAssumption, BInv, Underway, pc' = "rec", total' = total + 1,
         UNCHANGED <<legal, phase, index, seq, genome, asked, before, nonce, notary, log, confirmed>>,
         UNCHANGED <<servedSeq, pulled>> \/ (servedSeq' = seq /\ pulled' = pulled \cup {seq}),
         rec' \in Records, rec'.commit = genome, rec'.outcome \notin {"REFUSED_BY_GATE", "STOP_SIGN"},
         rec'.audited => servedSeq' = seq,
         rec'.arm = IF pc = "poll" THEN <<before, nonce>> ELSE << >>
  PROVE  BInv'
<1>1. ~Between' /\ ~Underway' /\ InHand' /\ InHand /\ pc \notin {"sign", "rec", "ack"}
  BY DEF Between, InHand, Underway, Writing
<1>2. BooksType'
  BY DEF BInv, BooksType
<1>3. InPlace'
  BY <1>1 DEF BInv, InPlace, Underway, Writing
<1>4. InStep'
  BY <1>1 DEF BInv, InStep
<1>5. NonceFollows'
  BY <1>1 DEF BInv, NonceFollows
<1>6. RecordFits'
  <2>1. /\ genome \in legal /\ Len(notary) = seq
        /\ seq \in Nat /\ seq > 0 /\ (servedSeq > 0 => servedSeq \in pulled)
    BY <1>1 DEF BInv, InStep, BooksType, BooksAgree
  <2>2. CASE pc = "poll"
    <3>1. before = Used(log, Len(log)) /\ asked = before /\ nonce \in {before, before + 1}
      BY <2>2 DEF BInv, NonceFollows
    <3>2. rec'.arm # << >> /\ rec'.arm[1] = before /\ rec'.arm[2] = nonce
      BY <2>2, PairFacts
    <3>. QED BY <2>1, <3>1, <3>2 DEF RecordFits
  <2>3. CASE pc # "poll"
    <3>1. nonce = Used(log, Len(log)) /\ rec'.arm = << >>
      BY <2>3 DEF BInv, NonceFollows
    <3>. QED BY <2>1, <3>1 DEF RecordFits
  <2>. QED BY <2>2, <2>3
<1>7. BooksAgree'
  BY <1>1 DEF BInv, BooksAgree, Answer
<1>8. Chain'
  BY DEF BInv, Chain, Link
<1>. QED BY <1>2, <1>3, <1>4, <1>5, <1>6, <1>7, <1>8 DEF BInv

\* From the identity to the sign request.
LEMMA BeginBooks ==
  ASSUME AppAssumption, BInv, Identify \/ RefIdentify \/ Propose
  PROVE  BInv'
<1>. USE DEF place, candidate, summary, carrier, books
<1>1. CASE (Identify \/ RefIdentify) /\ pc' # "propose"
  <2>1. /\ pc = "ident" /\ pc' \in {"term", "finally"}
        /\ UNCHANGED <<legal, phase, index, seq, genome, asked, before, nonce, servedSeq, total, notary, log, confirmed, pulled>>
    BY <1>1 DEF Identify, RefIdentify, Abandon
  <2>2. phase # "restore"
    BY <2>1 DEF BInv, InPlace
  <2>. QED BY <2>1, <2>2, EndedBooks DEF Ended
<1>2. CASE (Identify \/ RefIdentify) /\ pc' = "propose"
  <2>1. /\ pc = "ident" /\ phase = "opening"
        /\ UNCHANGED <<legal, phase, index, seq, genome, asked, before, nonce, servedSeq, total, notary, log, confirmed, pulled>>
    BY <1>2 DEF Identify, RefIdentify, Abandon, BInv, InPlace
  <2>. USE DEF Between, InHand, Underway, Writing
  <2>2. BooksType' /\ InPlace'
    BY <1>2, <2>1 DEF BInv, BooksType, InPlace
  <2>3. InStep' /\ NonceFollows'
    BY <1>2, <2>1 DEF BInv, InStep, NonceFollows
  <2>4. RecordFits' /\ BooksAgree' /\ Chain'
    BY <1>2, <2>1 DEF BInv, RecordFits, BooksAgree, Answer, Chain, Link
  <2>. QED BY <2>2, <2>3, <2>4 DEF BInv
<1>3. CASE Propose
  <2>1. /\ pc = "propose" /\ pc' = "sign" /\ phase \in {"opening", "search", "closing"}
        /\ seq' = seq + 1 /\ asked' = nonce /\ genome' \in Genomes
        /\ phase \in {"opening", "closing"} => genome' = Blank
        /\ UNCHANGED <<legal, phase, index, before, nonce, servedSeq, total, notary, log, confirmed, pulled>>
    BY <1>3 DEF Propose, BInv, InPlace, IsBaseline, RequestNonce, AppAssumption
  <2>2. BooksType'
    BY <2>1 DEF BInv, BooksType
  <2>3. Between /\ ~Between' /\ InHand' /\ ~Underway' /\ ~Underway
    BY <2>1 DEF Between, InHand, Underway, Writing
  <2>4. InPlace'
    BY <2>1, <2>2, <2>3, AppAssumption DEF BInv, InPlace, BooksType, AppAssumption
  <2>5. InStep'
    BY <2>1, <2>2, <2>3 DEF BInv, InStep, BooksType
  <2>6. NonceFollows'
    BY <2>1, <2>3 DEF BInv, NonceFollows
  <2>7. RecordFits' /\ BooksAgree' /\ Chain'
    BY <2>1, <2>3 DEF BInv, RecordFits, BooksAgree, Answer, Chain, Link
  <2>. QED BY <2>2, <2>4, <2>5, <2>6, <2>7 DEF BInv
<1>. QED BY <1>1, <1>2, <1>3

\* Staging, the witnesses, the writes and the audit.
LEMMA WitnessBooks ==
  ASSUME AppAssumption, IInv, BInv,
         \/ Stage \/ Link2 \/ Link2Differs \/ Link2Unparsed \/ RefLink2Differs \/ RefUnparsed
         \/ WriteEnvelope \/ WriteFails \/ RefWriteFails \/ RefRestoreRefused \/ Restored
         \/ Link3 \/ Link3Differs \/ RefLink3Differs \/ ReadbackFails \/ Pull \/ PullFails
  PROVE  BInv'
<1>. USE DEF place, candidate, summary, carrier, books
<1>. DEFINE Same == UNCHANGED <<legal, index, seq, genome, asked, before, nonce, notary, log, confirmed>>
            Unpulled == UNCHANGED <<servedSeq, pulled>>
<1>0. genome \in Genomes /\ servedSeq \in Nat /\ (phase = "restore" => pc \in {"write", "term", "halted", "raised"})
      /\ (phase = "control" => pc \in {"control", "arm", "poll", "finally", "term", "halted", "raised"})
  BY DEF BInv, BooksType, InPlace, IInv, EndsInOrder
<1>1. CASE Stage \/ Link2 \/ Link3 \/ Pull \/ (WriteEnvelope /\ phase # "restore")
  <2>1. /\ Same /\ UNCHANGED <<phase, total>> /\ pc # "poll" /\ pc' # "poll"
        /\ Unpulled \/ (servedSeq' = seq /\ pulled' = pulled \cup {seq})
    BY <1>1 DEF Stage, Link2, Link3, Pull, WriteEnvelope
  <2>2. Underway /\ Underway'
    BY <1>0, <1>1 DEF Stage, Link2, Link3, Pull, WriteEnvelope, Underway, Writing
  <2>. QED BY <2>1, <2>2, UnderwayBooks
<1>2. CASE \/ Link2Unparsed \/ RefUnparsed \/ ReadbackFails \/ WriteFails \/ RefRestoreRefused \/ Restored
           \/ (WriteEnvelope \/ RefWriteFails) /\ phase = "restore"
  <2>1. Same /\ Unpulled /\ UNCHANGED <<phase, total>>
    BY <1>2 DEF Link2Unparsed, RefUnparsed, ReadbackFails, WriteFails, RefRestoreRefused, Restored, WriteEnvelope,
       RefWriteFails, Abandon
  <2>2. Ended' /\ (phase' = "restore" => pc' \in {"write", "term", "halted", "raised"})
    BY <1>0, <1>2 DEF Link2Unparsed, RefUnparsed, ReadbackFails, WriteFails, RefRestoreRefused, Restored, WriteEnvelope,
       RefWriteFails, Abandon, Ended, Restoring
  <2>. QED BY <2>1, <2>2, EndedBooks
<1>3. CASE Link2Differs \/ Link3Differs \/ PullFails
  <2>1. PICK o \in {"STOP_LINK2", "STOP_LINK3", "STOP_AUDIT"} : Build(o, << >>, servedSeq' = seq)
    BY <1>3 DEF Link2Differs, Link3Differs, PullFails, Served
  <2>2. rec' = [outcome |-> o, commit |-> genome, audited |-> servedSeq' = seq, arm |-> << >>] /\ total' = total + 1 /\ pc' = "rec"
    BY <2>1 DEF Build
  <2>3. rec' \in Records /\ rec'.commit = genome /\ rec'.outcome = o /\ rec'.arm = << >> /\ (rec'.audited => servedSeq' = seq)
    BY <2>2, <1>0 DEF Records, Outcomes, Stops
  <2>4. Same /\ UNCHANGED phase /\ (Unpulled \/ (servedSeq' = seq /\ pulled' = pulled \cup {seq}))
    BY <1>3 DEF Link2Differs, Link3Differs, PullFails, AutoPull
  <2>5. Underway /\ pc # "poll"
    BY <1>0, <1>3 DEF Link2Differs, Link3Differs, PullFails, Underway, Writing
  <2>. QED BY <2>2, <2>3, <2>4, <2>5, BuiltBooks
<1>4. CASE RefLink2Differs \/ RefLink3Differs \/ (RefWriteFails /\ phase # "restore")
  <2>1. PICK o \in {"STOP_LINK2", "STOP_LINK3"} : RefStop(o, << >>)
    BY <1>4 DEF RefLink2Differs, RefLink3Differs, RefWriteFails
  <2>2. rec' = [outcome |-> o, commit |-> genome, audited |-> FALSE, arm |-> << >>] /\ total' = total + 1 /\ pc' = "rec"
    BY <2>1 DEF RefStop, Build
  <2>3. rec' \in Records /\ rec'.commit = genome /\ rec'.outcome = o /\ rec'.arm = << >> /\ ~rec'.audited
    BY <2>2, <1>0 DEF Records, Outcomes, Stops
  <2>4. Same /\ UNCHANGED phase /\ Unpulled
    BY <2>1 DEF RefStop
  <2>5. Underway /\ pc # "poll"
    BY <1>0, <1>4 DEF RefLink2Differs, RefLink3Differs, RefWriteFails, Underway, Writing
  <2>. QED BY <2>2, <2>3, <2>4, <2>5, BuiltBooks
<1>. QED BY <1>1, <1>2, <1>3, <1>4

\* The ARM and what it settles to.
LEMMA ArmBooks ==
  ASSUME AppAssumption, IInv, BInv, Strobe \/ ArmNotMade \/ RefArmNotMade \/ Scored \/ NotScored \/ RefNotScored
  PROVE  BInv'
<1>. USE DEF place, candidate, summary, carrier, books
<1>. DEFINE Same == UNCHANGED <<legal, index, seq, genome, asked, before, nonce, notary, log, confirmed>>
            Unpulled == UNCHANGED <<servedSeq, pulled>>
<1>0. genome \in Genomes /\ servedSeq \in Nat /\ nonce \in Nat /\ before \in Nat
      /\ (phase = "restore" => pc \in {"write", "term", "halted", "raised"})
  BY DEF BInv, BooksType, InPlace
<1>1. CASE Strobe
  <2>1. /\ pc = "arm" /\ pc' = "poll" /\ before' = nonce
        /\ UNCHANGED <<legal, phase, index, seq, genome, asked, servedSeq, total, pulled, notary, log, confirmed>>
    BY <1>1 DEF Strobe
  <2>2. nonce' \in {nonce, nonce + 1} /\ (answer' \in {"refused", "valid"} => nonce' = nonce + 1)
    <3>1. answer' \in {"hung", "unconsumed", "refused", "valid"}
      BY <1>1 DEF Strobe, Answers
    <3>2. PICK after \in Leaves[answer'] : nonce' = after[1]
      BY <1>1 DEF Strobe
    <3>3. CASE answer' = "hung"
      <4>1. after \in {nonce, nonce + 1} \X {FALSE}
        BY <3>2, <3>3 DEF Leaves
      <4>. QED BY <4>1, <3>2, <3>3
    <3>4. CASE answer' = "unconsumed"
      <4>1. after \in {nonce} \X BOOLEAN
        BY <3>2, <3>4 DEF Leaves
      <4>. QED BY <4>1, <3>2, <3>4
    <3>5. CASE answer' = "refused"
      <4>1. after = <<nonce + 1, TRUE>>
        BY <3>2, <3>5 DEF Leaves
      <4>. QED BY <4>1, <3>2
    <3>6. CASE answer' = "valid"
      <4>1. after = <<nonce + 1, FALSE>>
        BY <3>2, <3>6 DEF Leaves
      <4>. QED BY <4>1, <3>2
    <3>. QED BY <3>1, <3>3, <3>4, <3>5, <3>6
  <2>3. (Between <=> Between') /\ (Underway <=> Underway') /\ (InHand <=> InHand') /\ (Between \/ Underway)
    BY <2>1 DEF Between, InHand, Underway, Writing
  <2>4. BooksType'
    BY <1>0, <2>1, <2>2 DEF BInv, BooksType
  <2>5. InPlace' /\ InStep'
    BY <1>0, <2>1, <2>3 DEF BInv, InPlace, InStep
  <2>6. NonceFollows'
    BY <1>0, <2>1, <2>2, <2>3 DEF BInv, NonceFollows
  <2>7. RecordFits' /\ BooksAgree' /\ Chain'
    BY <2>1, <2>3 DEF BInv, RecordFits, BooksAgree, Answer, Chain, Link
  <2>. QED BY <2>4, <2>5, <2>6, <2>7 DEF BInv
<1>2. CASE RefArmNotMade \/ (ArmNotMade /\ phase = "control")
  <2>1. Same /\ Unpulled /\ UNCHANGED <<phase, total>> /\ pc = "arm" /\ pc' = "finally"
    BY <1>2 DEF RefArmNotMade, ArmNotMade, Abandon
  <2>. QED BY <1>0, <2>1, EndedBooks DEF Ended
<1>3. CASE ArmNotMade /\ phase # "control"
  <2>1. Build("STOP_AXI", << >>, servedSeq' = seq)
    BY <1>3 DEF ArmNotMade
  <2>2. /\ rec' = [outcome |-> "STOP_AXI", commit |-> genome, audited |-> servedSeq' = seq, arm |-> << >>]
        /\ total' = total + 1 /\ pc' = "rec"
    BY <2>1 DEF Build
  <2>3. rec' \in Records /\ rec'.commit = genome /\ rec'.outcome = "STOP_AXI" /\ rec'.arm = << >> /\ (rec'.audited => servedSeq' = seq)
    BY <2>2, <1>0 DEF Records, Outcomes, Stops
  <2>4. Same /\ UNCHANGED phase /\ (Unpulled \/ (servedSeq' = seq /\ pulled' = pulled \cup {seq}))
    BY <1>3 DEF ArmNotMade, AutoPull
  <2>5. Underway /\ pc # "poll"
    BY <1>3 DEF ArmNotMade, Underway, Writing
  <2>. QED BY <2>2, <2>3, <2>4, <2>5, BuiltBooks
<1>4. CASE Scored \/ NotScored \/ RefNotScored
  <2>1. answer \in {"hung", "unconsumed", "refused", "valid"}
    BY <1>4 DEF IInv, EndsInOrder, Scored, NotScored, RefNotScored
  <2>2. PICK o \in {"SCORED", "STOP_SETTLE", "STOP_ARM", "REFUSED_BY_PL"}, mark \in BOOLEAN :
          Build(o, <<before, nonce>>, mark) /\ (mark => servedSeq' = seq)
    <3>1. CASE Scored
      <4>1. Build("SCORED", <<before, nonce>>, Served) /\ UNCHANGED servedSeq /\ seq' = seq
        BY <3>1 DEF Scored
      <4>. QED BY <4>1 DEF Served
    <3>2. StopOf[answer] \in {"STOP_SETTLE", "STOP_ARM", "REFUSED_BY_PL"} \/ answer = "valid"
      BY <2>1 DEF StopOf
    <3>3. CASE NotScored
      <4>1. Build(StopOf[answer], <<before, nonce>>, servedSeq' = seq) /\ answer # "valid"
        BY <3>3 DEF NotScored
      <4>. QED BY <3>2, <4>1
    <3>4. CASE RefNotScored
      <4>1. Build(StopOf[answer], <<before, nonce>>, FALSE) /\ answer # "valid"
        BY <3>4 DEF RefNotScored, RefStop
      <4>. QED BY <3>2, <4>1
    <3>. QED BY <1>4, <3>1, <3>3, <3>4
  <2>3. /\ rec' = [outcome |-> o, commit |-> genome, audited |-> mark, arm |-> <<before, nonce>>]
        /\ total' = total + 1 /\ pc' = "rec"
    BY <2>2 DEF Build
  <2>4. <<before, nonce>> \in Nat \X Nat
    BY <1>0
  <2>5. rec' \in Records /\ rec'.commit = genome /\ rec'.outcome = o /\ rec'.arm = <<before, nonce>> /\ (rec'.audited => servedSeq' = seq)
    BY <2>2, <2>3, <2>4, <1>0 DEF Records, Outcomes, Stops
  <2>6. Same /\ UNCHANGED phase /\ (Unpulled \/ (servedSeq' = seq /\ pulled' = pulled \cup {seq}))
    BY <1>4 DEF Scored, NotScored, RefNotScored, RefStop, AutoPull
  <2>7. Underway /\ pc = "poll"
    BY <1>4 DEF Scored, NotScored, RefNotScored, Underway, Writing
  <2>. QED BY <2>2, <2>3, <2>5, <2>6, <2>7, BuiltBooks
<1>. QED BY <1>1, <1>2, <1>3, <1>4

\* The host takes the record: the log's chain grows by it.
LEMMA TakenBooks ==
  ASSUME AppAssumption, BInv, HostTakes
  PROVE  BInv'
<1>. USE DEF place, candidate, summary, carrier, books
<1>1. /\ pc = "rec" /\ pc' = "ack" /\ Len(log) < Len(notary) /\ log' = Append(log, rec)
      /\ UNCHANGED <<legal, phase, index, seq, genome, asked, before, nonce, servedSeq, rec, total, pulled, notary, confirmed>>
  BY DEF HostTakes
<1>2. /\ rec \in Records /\ log \in Seq(Records) /\ seq \in Nat /\ asked \in Nat /\ nonce \in Nat
      /\ notary \in Seq(Signatures) /\ confirmed \in Seq(Outcomes)
  BY <1>1 DEF BInv, BooksType
<1>3. /\ log' \in Seq(Records) /\ Len(log') = Len(log) + 1 /\ log'[Len(log) + 1] = rec
      /\ \A i \in 1 .. Len(log) : log'[i] = log[i]
      /\ Len(log) \in Nat /\ Len(notary) \in Nat /\ Len(confirmed) \in Nat
  BY <1>1, <1>2
<1>4. ~Between /\ InHand /\ ~Underway /\ ~Between' /\ InHand' /\ ~Underway'
  BY <1>1 DEF Between, InHand, Underway, Writing
<1>5. Len(log) + 1 = seq /\ Len(notary) = seq /\ Len(confirmed) + 1 = seq /\ total = seq
      /\ notary[seq].genome = genome /\ notary[seq].nonce = asked
  BY <1>1, <1>2, <1>3, <1>4 DEF BInv, InStep
<1>6. /\ \A n \in 0 .. Len(log) : Used(log', n) = Used(log, n) /\ Used(log, n) \in Nat
      /\ Used(log', Len(log) + 1) = Used(log, Len(log)) + (IF Spends(rec) THEN 1 ELSE 0)
  BY <1>1, <1>2, UsedAppend
<1>7. nonce = Used(log', Len(log'))
  <2>1. CASE rec.arm = << >>
    BY <1>1, <1>3, <1>6, <2>1 DEF BInv, RecordFits, Spends
  <2>2. CASE rec.arm # << >>
    <3>1. /\ rec.arm[1] = asked /\ asked = Used(log, Len(log))
          /\ rec.arm[2] = nonce /\ nonce \in {asked, asked + 1}
      BY <1>1, <2>2 DEF BInv, RecordFits
    <3>2. Spends(rec) <=> nonce # asked
      BY <2>2, <3>1 DEF Spends
    <3>. QED BY <1>2, <1>3, <1>6, <3>1, <3>2
  <2>. QED BY <2>1, <2>2
<1>8. BooksType' /\ InPlace'
  BY <1>1, <1>2, <1>3, <1>4 DEF BInv, BooksType, InPlace
<1>9. InStep'
  BY <1>1, <1>3, <1>4, <1>5 DEF InStep
<1>10. NonceFollows' /\ RecordFits'
  BY <1>1, <1>4, <1>7 DEF NonceFollows, RecordFits
<1>11. BooksAgree'
  <2>1. /\ servedSeq > 0 => servedSeq \in pulled
        /\ \A i \in 1 .. Len(confirmed) : confirmed[i] = log[i].outcome /\ log[i].outcome \notin Stops
        /\ \A i \in 1 .. Len(notary) : notary[i].answer = Answer(notary[i].genome)
        /\ \A i \in 1 .. Len(notary) : i \in {1, Budget + 2} => notary[i].genome = Blank
    BY <1>4 DEF BInv, BooksAgree
  <2>2. \A i \in 1 .. Len(confirmed) : log'[i] = log[i]
    BY <1>3, <1>5
  <2>. QED BY <1>1, <2>1, <2>2 DEF BooksAgree, Answer
<1>12. Chain'
  <2>1. ASSUME NEW i \in 1 .. Len(log) PROVE Link(i)'
    <3>1. Link(i)
      BY <2>1 DEF BInv, Chain
    <3>2. log'[i] = log[i] /\ i - 1 \in 0 .. Len(log)
      BY <1>3, <2>1
    <3>3. Used(log', i - 1) = Used(log, i - 1)
      BY <1>6, <3>2
    <3>. QED BY <1>1, <3>1, <3>2, <3>3 DEF Link
  <2>2. ASSUME NEW i \in 1 .. Len(log'), i = seq PROVE Link(i)'
    <3>1. log'[seq] = rec /\ Used(log', seq - 1) = Used(log, Len(log))
      BY <1>3, <1>5, <1>6
    <3>2. /\ rec.commit = genome
          /\ rec.outcome = "REFUSED_BY_GATE" => genome \notin legal
          /\ rec.outcome \notin {"REFUSED_BY_GATE", "STOP_SIGN"} => genome \in legal
          /\ rec.audited => seq \in pulled
          /\ rec.arm # << >> => rec.arm[1] = asked /\ asked = Used(log, Len(log))
      BY <1>1 DEF BInv, RecordFits
    <3>3. notary[seq].answer = Answer(genome)
      <4>1. seq \in 1 .. Len(notary)
        BY <1>2, <1>3, <1>5
      <4>. QED BY <4>1, <1>5 DEF BInv, BooksAgree
    <3>. QED BY <1>1, <1>5, <2>2, <3>1, <3>2, <3>3 DEF Link, Answer
  <2>3. \A i \in 1 .. Len(log') : i \in 1 .. Len(log) \/ i = seq
    BY <1>3, <1>5
  <2>4. \A i \in 1 .. Len(log') : Link(i)'
    BY <2>1, <2>2, <2>3
  <2>. QED BY <2>4 DEF Chain
<1>. QED BY <1>8, <1>9, <1>10, <1>11, <1>12 DEF BInv

\* The record is acknowledged, or the loop goes on from it; or the epoch ends.
LEMMA RecordBooks ==
  ASSUME AppAssumption, IInv, BInv, RecAcked \/ RefReturn \/ RecUnacked
  PROVE  BInv'
<1>. USE DEF place, candidate, summary, carrier, books
<1>1. CASE RecUnacked
  <2>1. /\ pc \in {"rec", "ack"} /\ pc' = "finally"
        /\ UNCHANGED <<legal, phase, index, seq, genome, asked, before, nonce, servedSeq, total, notary, log, confirmed, pulled>>
    BY <1>1 DEF RecUnacked, Abandon
  <2>2. phase # "restore"
    BY <2>1 DEF BInv, InPlace
  <2>. QED BY <2>1, <2>2, EndedBooks DEF Ended
<1>2. CASE RecAcked \/ RefReturn
  <2>1. /\ pc = "ack" /\ confirmed' = Append(confirmed, rec.outcome)
        /\ UNCHANGED <<legal, seq, genome, asked, before, nonce, servedSeq, rec, total, pulled, notary, log>>
        /\ IF Ends(rec.outcome) THEN pc' = "finally" /\ UNCHANGED <<phase, index>> ELSE NextUp
    BY <1>2 DEF RecAcked, RefReturn, Abandon
  <2>2. /\ rec \in Records /\ seq \in Nat /\ index \in Nat /\ Budget \in Nat /\ log \in Seq(Records) /\ notary \in Seq(Signatures)
        /\ confirmed \in Seq(Outcomes) /\ phase \in {"opening", "search", "closing", "control", "restore"}
    BY <2>1, AppAssumption DEF BInv, BooksType, AppAssumption
  <2>3. rec.outcome \in Outcomes
    BY <2>2 DEF Records
  <2>4. /\ confirmed' \in Seq(Outcomes) /\ Len(confirmed') = Len(confirmed) + 1
        /\ confirmed'[Len(confirmed) + 1] = rec.outcome
        /\ \A i \in 1 .. Len(confirmed) : confirmed'[i] = confirmed[i]
        /\ Len(confirmed) \in Nat /\ Len(log) \in Nat /\ Len(notary) \in Nat
    BY <2>1, <2>2, <2>3
  <2>5. ~Between /\ InHand /\ ~Underway
    BY <2>1 DEF Between, InHand, Underway, Writing
  <2>6. /\ Len(confirmed) + 1 = seq /\ Len(log) = seq /\ Len(log) <= Len(notary) /\ Len(notary) <= seq
        /\ log[seq] = rec /\ total = seq
    BY <2>1, <2>5 DEF BInv, InStep
  <2>7. \A i \in 1 .. Len(confirmed') : confirmed'[i] = log[i].outcome
    <3>1. \A i \in 1 .. Len(confirmed) : confirmed[i] = log[i].outcome
      BY DEF BInv, BooksAgree
    <3>2. \A i \in 1 .. Len(confirmed') : i \in 1 .. Len(confirmed) \/ i = seq
      BY <2>4, <2>6
    <3>. QED BY <2>4, <2>6, <3>1, <3>2
  <2>8. phase \in {"opening", "search", "closing"}
    BY <2>1, <2>2 DEF IInv, EndsInOrder
  <2>9. CASE Ends(rec.outcome)
    <3>1. pc' = "finally" /\ phase' = phase /\ index' = index
      BY <2>1, <2>9
    <3>2. ~Between' /\ ~InHand' /\ ~Underway'
      BY <3>1 DEF Between, InHand, Underway, Writing
    <3>3. BooksType' /\ InPlace'
      BY <2>1, <2>4, <2>8, <3>1, <3>2 DEF BInv, BooksType, InPlace
    <3>4. InStep' /\ NonceFollows' /\ RecordFits'
      BY <2>1, <2>2, <2>4, <2>6, <3>1, <3>2 DEF InStep, NonceFollows, RecordFits
    <3>5. BooksAgree' /\ Chain'
      BY <2>1, <2>7, <3>2 DEF BInv, BooksAgree, Answer, Chain, Link
    <3>. QED BY <3>3, <3>4, <3>5 DEF BInv
  <2>10. CASE ~Ends(rec.outcome)
    <3>1. NextUp
      BY <2>1, <2>10
    <3>2. /\ pc' \in {"propose", "control"} /\ (pc' = "control" <=> phase = "closing")
          /\ phase' = IF phase = "closing" THEN "control" ELSE IF index < Budget THEN "search" ELSE "closing"
          /\ index' = IF phase = "closing" THEN index ELSE IF index < Budget THEN index + 1 ELSE index
      BY <3>1 DEF NextUp
    <3>3. Between' /\ ~InHand' /\ ~Underway' /\ pc' \notin {"sign", "rec", "ack", "poll"}
      BY <3>2 DEF Between, InHand, Underway, Writing
    <3>4. BooksType'
      BY <2>1, <2>2, <2>4, <3>2, <3>3 DEF BInv, BooksType
    <3>5. InPlace'
      <4>1. /\ phase = "opening" => index = 0 /\ seq = 1
            /\ phase = "search" => index \in 1 .. Budget /\ seq = index + 1
            /\ phase = "closing" => index = Budget /\ seq = Budget + 2
            /\ seq <= Budget + 2 /\ Budget > 0
        BY <2>5, AppAssumption DEF BInv, InPlace, AppAssumption
      <4>2. CASE phase = "closing"
        BY <2>1, <2>2, <3>2, <3>3, <4>1, <4>2 DEF InPlace
      <4>3. CASE phase # "closing" /\ index < Budget
        BY <2>1, <2>2, <2>8, <3>2, <3>3, <4>1, <4>3 DEF InPlace
      <4>4. CASE phase # "closing" /\ ~(index < Budget)
        BY <2>1, <2>2, <2>8, <3>2, <3>3, <4>1, <4>4 DEF InPlace
      <4>. QED BY <4>2, <4>3, <4>4
    <3>6. InStep'
      BY <2>1, <2>2, <2>4, <2>6, <3>3 DEF InStep
    <3>7. NonceFollows' /\ RecordFits'
      BY <2>1, <3>3 DEF BInv, NonceFollows, RecordFits
    <3>8. BooksAgree'
      <4>1. \A i \in 1 .. Len(confirmed) : log[i].outcome \notin Stops
        BY <2>5 DEF BInv, BooksAgree
      <4>2. log[seq].outcome \notin Stops
        BY <2>6, <2>10 DEF Ends
      <4>3. \A i \in 1 .. Len(confirmed') : i \in 1 .. Len(confirmed) \/ i = seq
        BY <2>4, <2>6
      <4>4. \A i \in 1 .. Len(confirmed') : log[i].outcome \notin Stops
        BY <4>1, <4>2, <4>3
      <4>. QED BY <2>1, <2>7, <4>4 DEF BInv, BooksAgree, Answer
    <3>9. Chain'
      BY <2>1 DEF BInv, Chain, Link
    <3>. QED BY <3>4, <3>5, <3>6, <3>7, <3>8, <3>9 DEF BInv
  <2>. QED BY <2>9, <2>10
<1>. QED BY <1>1, <1>2

\* The closing control, the restore and the summary.
LEMMA EndBooks ==
  ASSUME AppAssumption, IInv, BInv,
         \/ StartControl \/ RefStartControl \/ JudgeControl \/ RefClosingUnsigned \/ Finally \/ RefFinally \/ Term \/ RefSummary
  PROVE  BInv'
<1>. USE DEF place, candidate, summary, carrier, books
<1>. DEFINE Same == UNCHANGED <<legal, index, seq, genome, asked, before, nonce, servedSeq, total, notary, log, confirmed, pulled>>
<1>0. phase = "restore" => pc \in {"write", "term", "halted", "raised"}
  BY DEF BInv, InPlace
<1>1. CASE (StartControl \/ RefStartControl) /\ pc' = "arm"
  <2>1. Same /\ pc = "control" /\ phase = "control" /\ UNCHANGED phase
    BY <1>1 DEF StartControl, RefStartControl, Abandon, BInv, InPlace
  <2>2. Between /\ Between' /\ ~InHand' /\ ~Underway'
    BY <1>1, <2>1 DEF Between, InHand, Underway, Writing
  <2>3. BooksType' /\ InPlace'
    BY <1>1, <2>1, <2>2 DEF BInv, BooksType, InPlace
  <2>4. InStep' /\ NonceFollows'
    BY <1>1, <2>1, <2>2 DEF BInv, InStep, NonceFollows
  <2>5. RecordFits' /\ BooksAgree' /\ Chain'
    BY <1>1, <2>1, <2>2 DEF BInv, RecordFits, BooksAgree, Answer, Chain, Link
  <2>. QED BY <2>3, <2>4, <2>5 DEF BInv
<1>2. CASE \/ (StartControl \/ RefStartControl) /\ pc' # "arm"
           \/ JudgeControl \/ RefClosingUnsigned \/ Term \/ RefSummary
  <2>1. Same /\ UNCHANGED phase /\ pc' \in {"finally", "halted", "raised"} /\ (phase = "restore" => pc' # "finally")
    BY <1>0, <1>2 DEF StartControl, RefStartControl, JudgeControl, RefClosingUnsigned, Term, RefSummary, Abandon
  <2>. QED BY <2>1, EndedBooks DEF Ended
<1>3. CASE Finally \/ RefFinally
  <2>1. Same /\ pc = "finally" /\ ((phase' = "restore" /\ pc' = "write") \/ (phase' = phase /\ pc' = "term"))
    BY <1>3 DEF Finally, RefFinally
  <2>. QED BY <2>1, EndedBooks DEF Ended, Restoring
<1>. QED BY <1>1, <1>2, <1>3

\* The books' invariant holds of every session of either loop.
LEMMA BooksInductive == LoopSpec => []BInv
<1>1. ASSUME AppAssumption, LoopInit PROVE BInv
  <2>. USE <1>1 DEF LoopInit, Init
  <2>0. Len(notary) = 0 /\ Len(log) = 0 /\ Len(confirmed) = 0
    OBVIOUS
  <2>1. BooksType
    BY DEF BooksType, AppAssumption
  <2>2. Between /\ ~InHand /\ ~Underway
    BY DEF Between, InHand, Underway, Writing
  <2>3. InPlace /\ InStep
    BY <2>0, <2>2 DEF InPlace, InStep, AppAssumption
  <2>4. Used(log, 0) = 0
    <3>1. {i \in 1 .. 0 : Spends(log[i])} = {}
      OBVIOUS
    <3>. QED BY <3>1, FS_EmptySet DEF Used
  <2>5. NonceFollows /\ RecordFits
    BY <2>0, <2>2, <2>4 DEF NonceFollows, RecordFits
  <2>6. BooksAgree /\ Chain
    BY <2>0 DEF BooksAgree, Chain
  <2>. QED BY <2>1, <2>3, <2>5, <2>6 DEF BInv
<1>2. ASSUME AppAssumption, IInv, BInv, [LoopNext]_<<vars, loop>> PROVE BInv'
  <2>1. CASE UNCHANGED vars
    <3>1. UNCHANGED <<legal, pc, phase, index, seq, genome, asked, before, nonce, answer, servedSeq, rec, total, notary, log,
                      confirmed, pulled>>
      BY <2>1 DEF vars, candidate, summary, carrier, books, place
    <3>2. UNCHANGED <<Between, InHand, Underway>>
      BY <3>1 DEF Between, InHand, Underway, Writing
    <3>3. BooksType' /\ InPlace'
      BY <1>2, <3>1, <3>2 DEF BInv, BooksType, InPlace
    <3>4. InStep' /\ NonceFollows'
      BY <1>2, <3>1, <3>2 DEF BInv, InStep, NonceFollows
    <3>5. RecordFits' /\ BooksAgree' /\ Chain'
      BY <1>2, <3>1, <3>2 DEF BInv, RecordFits, BooksAgree, Answer, Chain, Link
    <3>. QED BY <3>3, <3>4, <3>5 DEF BInv
  <2>2. CASE Next
    BY <1>2, <2>1, <2>2, BeginBooks, SignBooks, WitnessBooks, ArmBooks, TakenBooks, RecordBooks, EndBooks
       DEF Next, Candidate, Witness, Write, Arm, Record, End, Halted
  <2>3. CASE RefNext
    BY <1>2, <2>1, <2>3, BeginBooks, SignBooks, WitnessBooks, ArmBooks, TakenBooks, RecordBooks, EndBooks
       DEF RefNext, RefSign, RefWitness, RefArm, RefAppend, RefEnd, RefStrobe
  <2>. QED BY <1>2, <2>1, <2>2, <2>3 DEF LoopNext
<1>. QED BY <1>1, <1>2, AppAssumption, Inductive, PTL DEF LoopSpec

\* Rules (vii) and (ix) of validators/records.py hold of the host's log at any
\* time, in a session of either loop: every ARM consumed the nonce its own
\* signature named, which is where the chain of the records before it ended.
THEOREM ChainHolds == LoopSpec => []LogIsAChain
<1>1. ASSUME BInv PROVE LogIsAChain
  <2>1. DOMAIN log = 1 .. Len(log)
    BY <1>1 DEF BInv, BooksType
  <2>2. \A n : Consumed(n) = Used(log, n)
    BY DEF Consumed, Used, Spends
  <2>3. ASSUME NEW i \in DOMAIN log
        PROVE  /\ log[i].commit = notary[i].genome
               /\ log[i].arm # << >> => log[i].arm[1] = notary[i].nonce /\ log[i].arm[1] = Consumed(i - 1)
               /\ (log[i].outcome = "REFUSED_BY_GATE") => notary[i].answer = "SIGNREF"
               /\ log[i].outcome \notin {"REFUSED_BY_GATE", "STOP_SIGN"} => notary[i].answer = "SIGNOK"
               /\ log[i].audited => i \in pulled
    <3>1. Link(i)
      BY <1>1, <2>1, <2>3 DEF BInv, Chain
    <3>. QED BY <2>2, <3>1 DEF Link
  <2>. QED BY <2>3 DEF LogIsAChain
<1>. QED BY <1>1, BooksInductive, PTL

-----------------------------------------------------------------------------
(* The refinement of Handover.                                              *)

NotaryAnswers == {"SIGNOK", "SIGNREF"}
PlainOutcomes == {"SCORED", "REFUSED_BY_GATE", "STOP_SIGN", "STOP_DEVICE"}

\* The books as Handover sees them.
NotaryOf == [i \in DOMAIN notary |-> notary[i].answer]
RecordsOf == [i \in DOMAIN log |-> Plain(log[i].outcome)]
ConfirmedOf == [i \in DOMAIN confirmed |-> Plain(confirmed[i])]

\* A sequence that is another and one element more is that Append.
LEMMA OneMore ==
  ASSUME NEW S, NEW s \in Seq(S), NEW t \in Seq(S), Len(t) = Len(s) + 1, \A i \in 1 .. Len(s) : t[i] = s[i]
  PROVE  t = Append(s, t[Len(s) + 1])
<1>1. t[Len(s) + 1] \in S /\ Len(s) \in Nat
  OBVIOUS
<1>. DEFINE u == Append(s, t[Len(s) + 1])
<1>2. u \in Seq(S) /\ Len(u) = Len(t) /\ u[Len(s) + 1] = t[Len(s) + 1] /\ \A i \in 1 .. Len(s) : u[i] = s[i]
  BY <1>1
<1>. HIDE DEF u
<1>3. \A i \in 1 .. Len(t) : u[i] = t[i]
  BY <1>1, <1>2
<1>4. u = t
  BY <1>2, <1>3
<1>. QED BY <1>4 DEF u

\* What the mapped books are, entry by entry.
Mapped ==
  /\ NotaryOf \in Seq(NotaryAnswers) /\ Len(NotaryOf) = Len(notary)
  /\ RecordsOf \in Seq(PlainOutcomes) /\ Len(RecordsOf) = Len(log)
  /\ ConfirmedOf \in Seq(PlainOutcomes) /\ Len(ConfirmedOf) = Len(confirmed)
  /\ \A i \in 1 .. Len(notary) : NotaryOf[i] = notary[i].answer
  /\ \A i \in 1 .. Len(log) : RecordsOf[i] = Plain(log[i].outcome)
  /\ \A i \in 1 .. Len(confirmed) : ConfirmedOf[i] = Plain(confirmed[i])

\* The mapped books are sequences as long as the books, entry for entry.
LEMMA MappedBooks == BInv => Mapped
<1>. SUFFICES ASSUME BInv PROVE Mapped
  OBVIOUS
<1>1. notary \in Seq(Signatures) /\ log \in Seq(Records) /\ confirmed \in Seq(Outcomes)
  BY DEF BInv, BooksType
<1>2. \A o \in Outcomes : Plain(o) \in PlainOutcomes
  BY DEF Plain, PlainOutcomes, Outcomes, Stops
<1>3. \A i \in 1 .. Len(notary) : notary[i].answer \in NotaryAnswers
  <2>1. \A i \in 1 .. Len(notary) : notary[i] \in Signatures
    BY <1>1
  <2>. QED BY <2>1 DEF Signatures, NotaryAnswers
<1>4. \A i \in 1 .. Len(log) : Plain(log[i].outcome) \in PlainOutcomes
  <2>1. \A i \in 1 .. Len(log) : log[i] \in Records
    BY <1>1
  <2>2. \A i \in 1 .. Len(log) : log[i].outcome \in Outcomes
    BY <2>1 DEF Records
  <2>. QED BY <1>2, <2>2
<1>5. \A i \in 1 .. Len(confirmed) : Plain(confirmed[i]) \in PlainOutcomes
  BY <1>1, <1>2
<1>6. DOMAIN notary = 1 .. Len(notary) /\ DOMAIN log = 1 .. Len(log) /\ DOMAIN confirmed = 1 .. Len(confirmed)
      /\ Len(notary) \in Nat /\ Len(log) \in Nat /\ Len(confirmed) \in Nat
  BY <1>1
<1>7. NotaryOf \in Seq(NotaryAnswers) /\ Len(NotaryOf) = Len(notary)
  BY <1>3, <1>6 DEF NotaryOf
<1>8. RecordsOf \in Seq(PlainOutcomes) /\ Len(RecordsOf) = Len(log)
  BY <1>4, <1>6 DEF RecordsOf
<1>9. ConfirmedOf \in Seq(PlainOutcomes) /\ Len(ConfirmedOf) = Len(confirmed)
  BY <1>5, <1>6 DEF ConfirmedOf
<1>. QED BY <1>6, <1>7, <1>8, <1>9 DEF Mapped, NotaryOf, RecordsOf, ConfirmedOf

\* The steps that write in a book; every other one leaves all three alone.
LEMMA BookMoves ==
  ASSUME Next \/ RefNext \/ UNCHANGED vars
  PROVE  \/ UNCHANGED <<notary, log, confirmed>>
         \/ pc = "sign" /\ HostSigns /\ UNCHANGED <<legal, log, confirmed>>
         \/ HostTakes
         \/ pc = "ack" /\ confirmed' = Append(confirmed, rec.outcome) /\ UNCHANGED <<notary, log>>
<1>. USE DEF books
<1>1. CASE Identify \/ RefIdentify \/ Candidate \/ RefSign \/ Propose
  BY <1>1 DEF Identify, RefIdentify, Candidate, RefSign, Propose, Signed, Refused, SignUnanswered, SignProtocol
<1>2. CASE Witness \/ Stage \/ Link2 \/ RefLink2Differs \/ RefUnparsed \/ Link3 \/ RefLink3Differs
  BY <1>2 DEF Witness, Stage, Link2, Link2Differs, Link2Unparsed, Link3, Link3Differs, ReadbackFails, RefLink2Differs,
     RefUnparsed, RefLink3Differs, RefStop
<1>3. CASE Arm \/ RefArm
  BY <1>3 DEF Arm, RefArm, Pull, PullFails, Strobe, ArmNotMade, Scored, NotScored, RefArmNotMade, RefNotScored, RefStrobe,
     RefStop
<1>4. CASE Record \/ RefAppend \/ RefReturn
  BY <1>4 DEF Record, RefAppend, RefReturn, RecAcked, RecUnacked
<1>5. CASE End \/ RefEnd
  BY <1>5 DEF End, RefEnd, StartControl, JudgeControl, Finally, Restored, Term, RefStartControl, RefClosingUnsigned,
     RefFinally, RefRestoreRefused, RefSummary
<1>6. CASE WriteEnvelope \/ WriteFails \/ RefWriteFails
  BY <1>6 DEF WriteEnvelope, WriteFails, RefWriteFails, RefStop
<1>7. CASE UNCHANGED vars
  BY <1>7 DEF vars
<1>. QED BY <1>1, <1>2, <1>3, <1>4, <1>5, <1>6, <1>7 DEF Next, RefNext, Write, RefWitness, Halted

\* A session of either loop keeps the promise of Handover: one answer, one
\* record and one confirmation of each candidate, in that order and one
\* candidate at a time, and nothing after a stop.
THEOREM LoopImplementsHandover == LoopSpec => KeepsPromise
<1>1. ASSUME LoopInit PROVE Promise!Init
  <2>1. DOMAIN << >> = {}
    OBVIOUS
  <2>2. notary = << >> /\ log = << >> /\ confirmed = << >>
    BY <1>1 DEF LoopInit, Init
  <2>. QED BY <2>1, <2>2 DEF Promise!Init
<1>2. ASSUME BInv, BInv', Mapped, Mapped', [LoopNext]_<<vars, loop>>
      PROVE  [Promise!Next]_(Promise!vars)
  <2>1. /\ Len(confirmed) \in Nat /\ Len(log) \in Nat /\ Len(notary) \in Nat /\ seq \in Nat /\ Budget \in Nat
        /\ log \in Seq(Records) /\ notary \in Seq(Signatures) /\ confirmed \in Seq(Outcomes)
        /\ notary' \in Seq(Signatures) /\ log' \in Seq(Records) /\ confirmed' \in Seq(Outcomes)
    <3>1. /\ log \in Seq(Records) /\ notary \in Seq(Signatures) /\ confirmed \in Seq(Outcomes) /\ seq \in Nat
          /\ notary' \in Seq(Signatures) /\ log' \in Seq(Records) /\ confirmed' \in Seq(Outcomes)
      BY <1>2 DEF BInv, BooksType
    <3>2. Budget \in Nat
      BY AppAssumption DEF AppAssumption
    <3>3. Len(confirmed) \in Nat /\ Len(log) \in Nat /\ Len(notary) \in Nat
      BY <3>1
    <3>. QED BY <3>1, <3>2, <3>3
  <2>2. /\ NotaryOf \in Seq(NotaryAnswers) /\ Len(NotaryOf) = Len(notary)
        /\ RecordsOf \in Seq(PlainOutcomes) /\ Len(RecordsOf) = Len(log)
        /\ ConfirmedOf \in Seq(PlainOutcomes) /\ Len(ConfirmedOf) = Len(confirmed)
        /\ \A i \in 1 .. Len(notary) : NotaryOf[i] = notary[i].answer
        /\ \A i \in 1 .. Len(log) : RecordsOf[i] = Plain(log[i].outcome)
        /\ \A i \in 1 .. Len(confirmed) : ConfirmedOf[i] = Plain(confirmed[i])
    BY <1>2 DEF Mapped
  <2>3. /\ NotaryOf' \in Seq(NotaryAnswers) /\ Len(NotaryOf') = Len(notary')
        /\ RecordsOf' \in Seq(PlainOutcomes) /\ Len(RecordsOf') = Len(log')
        /\ ConfirmedOf' \in Seq(PlainOutcomes) /\ Len(ConfirmedOf') = Len(confirmed')
        /\ \A i \in 1 .. Len(notary') : NotaryOf'[i] = notary'[i].answer
        /\ \A i \in 1 .. Len(log') : RecordsOf'[i] = Plain(log'[i].outcome)
        /\ \A i \in 1 .. Len(confirmed') : ConfirmedOf'[i] = Plain(confirmed'[i])
    BY <1>2 DEF Mapped, Plain
  <2>4. CASE UNCHANGED <<notary, log, confirmed>>
    <3>1. UNCHANGED <<NotaryOf, RecordsOf, ConfirmedOf>>
      BY <2>4 DEF NotaryOf, RecordsOf, ConfirmedOf, Plain
    <3>. QED BY <3>1 DEF Promise!vars, NotaryOf, RecordsOf, ConfirmedOf
  <2>5. CASE pc = "sign" /\ HostSigns /\ UNCHANGED <<legal, log, confirmed>>
    <3>1. Len(notary) = Len(confirmed) /\ Len(notary) < Budget + 2 /\ InHand
      BY <1>2, <2>1, <2>5 DEF BInv, InStep, InPlace, InHand
    <3>2. Len(notary') = Len(notary) + 1 /\ \A i \in 1 .. Len(notary) : notary'[i] = notary[i]
      BY <1>2, <2>5, AppAssumption, NotaryGrows
    <3>3. NotaryOf' = Append(NotaryOf, NotaryOf'[Len(notary) + 1])
      <4>1. ASSUME NEW i \in 1 .. Len(NotaryOf) PROVE NotaryOf'[i] = NotaryOf[i]
        <5>1. i \in 1 .. Len(notary) /\ i \in 1 .. Len(notary')
          BY <2>1, <2>2, <3>2
        <5>2. notary'[i] = notary[i]
          BY <3>2, <5>1
        <5>3. NotaryOf'[i] = notary'[i].answer /\ NotaryOf[i] = notary[i].answer
          BY <2>2, <2>3, <5>1
        <5>. QED BY <5>2, <5>3
      <4>. QED BY <2>2, <2>3, <3>2, <4>1, OneMore
    <3>4. NotaryOf'[Len(notary) + 1] \in NotaryAnswers
      BY <2>1, <2>3, <3>2
    <3>5. UNCHANGED <<RecordsOf, ConfirmedOf>>
      BY <2>5 DEF RecordsOf, ConfirmedOf, Plain
    <3>6. \A i \in 1 .. Len(confirmed) : ConfirmedOf[i] \notin {"STOP_SIGN", "STOP_DEVICE"}
      <4>1. \A i \in 1 .. Len(confirmed) : confirmed[i] \notin Stops
        BY <1>2, <3>1 DEF BInv, BooksAgree
      <4>2. \A i \in 1 .. Len(confirmed) : confirmed[i] \in Outcomes
        BY <2>1
      <4>3. \A o \in Outcomes : o \notin Stops => Plain(o) \notin {"STOP_SIGN", "STOP_DEVICE"}
        BY DEF Plain, Outcomes, Stops
      <4>. QED BY <2>2, <4>1, <4>2, <4>3
    <3>7. DOMAIN ConfirmedOf = 1 .. Len(confirmed)
      BY <2>1, <2>2
    <3>8. /\ Len(NotaryOf) = Len(ConfirmedOf) /\ Len(NotaryOf) < Budget + 2
          /\ \A i \in DOMAIN ConfirmedOf : ConfirmedOf[i] \notin {"STOP_SIGN", "STOP_DEVICE"}
          /\ \E a \in {"SIGNOK", "SIGNREF"} : NotaryOf' = Append(NotaryOf, a)
      BY <2>2, <3>1, <3>3, <3>4, <3>6, <3>7 DEF NotaryAnswers
    <3>9. Promise!Answer
      BY <3>5, <3>8 DEF Promise!Answer, Promise!Stops, NotaryOf, RecordsOf, ConfirmedOf
    <3>. QED BY <3>9 DEF Promise!Next
  <2>6. CASE HostTakes
    <3>1. /\ pc = "rec" /\ Len(log) < Len(notary) /\ log' = Append(log, rec) /\ UNCHANGED <<notary, confirmed, legal, seq>>
          /\ pc' = "ack"
      BY <2>6 DEF HostTakes, place, books
    <3>2. Len(log) + 1 = seq /\ seq \in 1 .. Len(notary) /\ rec \in Records
      BY <1>2, <2>1, <3>1 DEF BInv, InStep, BooksType
    <3>3. Len(log') = seq /\ log'[seq] = rec /\ \A i \in 1 .. Len(log) : log'[i] = log[i]
      BY <2>1, <3>1, <3>2
    <3>4. RecordsOf' = Append(RecordsOf, RecordsOf'[Len(log) + 1])
      <4>1. ASSUME NEW i \in 1 .. Len(RecordsOf) PROVE RecordsOf'[i] = RecordsOf[i]
        <5>1. i \in 1 .. Len(log) /\ i \in 1 .. Len(log')
          BY <2>1, <2>2, <3>2, <3>3
        <5>2. log'[i] = log[i]
          BY <3>3, <5>1
        <5>3. RecordsOf'[i] = Plain(log'[i].outcome) /\ RecordsOf[i] = Plain(log[i].outcome)
          BY <2>2, <2>3, <5>1
        <5>. QED BY <5>2, <5>3
      <4>. QED BY <2>2, <2>3, <3>2, <3>3, <4>1, OneMore
    <3>5. RecordsOf'[Len(log) + 1] = Plain(rec.outcome)
      BY <2>1, <2>3, <3>2, <3>3
    <3>6. /\ rec.outcome \in Outcomes
          /\ rec.outcome = "REFUSED_BY_GATE" => notary[seq].answer = "SIGNREF"
          /\ rec.outcome \notin {"REFUSED_BY_GATE", "STOP_SIGN"} => notary[seq].answer = "SIGNOK"
          /\ notary[seq].answer \in {"SIGNOK", "SIGNREF"}
      <4>1. Link(seq)'
        BY <1>2, <2>1, <3>1, <3>2, <3>3 DEF BInv, Chain
      <4>2. /\ rec.outcome = "REFUSED_BY_GATE" => notary[seq].answer = "SIGNREF"
            /\ rec.outcome \notin {"REFUSED_BY_GATE", "STOP_SIGN"} => notary[seq].answer = "SIGNOK"
        BY <3>1, <3>3, <4>1 DEF Link
      <4>3. notary[seq] \in Signatures
        BY <2>1, <3>2
      <4>4. rec.outcome \in Outcomes
        BY <3>2 DEF Records
      <4>5. notary[seq].answer \in {"SIGNOK", "SIGNREF"}
        BY <4>3 DEF Signatures
      <4>. QED BY <4>2, <4>4, <4>5
    <3>7. Plain(rec.outcome) \in Promise!Fitting[NotaryOf[Len(RecordsOf) + 1]]
      <4>1. NotaryOf[Len(RecordsOf) + 1] = notary[seq].answer
        BY <2>2, <3>2
      <4>2. CASE notary[seq].answer = "SIGNOK"
        <5>1. rec.outcome # "REFUSED_BY_GATE"
          BY <3>6, <4>2
        <5>2. Plain(rec.outcome) \in {"SCORED", "STOP_SIGN", "STOP_DEVICE"}
          BY <3>6, <5>1 DEF Plain, Outcomes, Stops
        <5>. QED BY <4>1, <4>2, <5>2 DEF Promise!Fitting, Promise!Stops
      <4>3. CASE notary[seq].answer = "SIGNREF"
        <5>1. Plain(rec.outcome) \in {"REFUSED_BY_GATE", "STOP_SIGN"}
          BY <3>6, <4>3 DEF Plain, Outcomes, Stops
        <5>. QED BY <4>1, <4>3, <5>1 DEF Promise!Fitting, Promise!Stops
      <4>. QED BY <3>6, <4>2, <4>3
    <3>8. UNCHANGED <<NotaryOf, ConfirmedOf>>
      BY <3>1 DEF NotaryOf, ConfirmedOf, Plain
    <3>9. /\ Len(RecordsOf) < Len(NotaryOf)
          /\ \E o \in Promise!Fitting[NotaryOf[Len(RecordsOf) + 1]] : RecordsOf' = Append(RecordsOf, o)
      BY <2>2, <3>1, <3>4, <3>5, <3>7
    <3>10. Promise!Record
      BY <3>8, <3>9 DEF Promise!Record, NotaryOf, RecordsOf, ConfirmedOf
    <3>. QED BY <3>10 DEF Promise!Next
  <2>7. CASE pc = "ack" /\ confirmed' = Append(confirmed, rec.outcome) /\ UNCHANGED <<notary, log>>
    <3>1. Len(confirmed) + 1 = seq /\ Len(log) = seq /\ log[seq] = rec /\ rec \in Records
      BY <1>2, <2>7 DEF BInv, InStep, BooksType, InHand
    <3>2. rec.outcome \in Outcomes
      BY <3>1 DEF Records
    <3>3. Len(confirmed') = seq /\ confirmed'[seq] = rec.outcome /\ \A i \in 1 .. Len(confirmed) : confirmed'[i] = confirmed[i]
      BY <2>1, <2>7, <3>1, <3>2
    <3>4. ConfirmedOf' = Append(ConfirmedOf, ConfirmedOf'[Len(confirmed) + 1])
      <4>1. ASSUME NEW i \in 1 .. Len(ConfirmedOf) PROVE ConfirmedOf'[i] = ConfirmedOf[i]
        <5>1. i \in 1 .. Len(confirmed) /\ i \in 1 .. Len(confirmed')
          BY <2>1, <2>2, <3>1, <3>3
        <5>2. confirmed'[i] = confirmed[i]
          BY <3>3, <5>1
        <5>3. ConfirmedOf'[i] = Plain(confirmed'[i]) /\ ConfirmedOf[i] = Plain(confirmed[i])
          BY <2>2, <2>3, <5>1
        <5>. QED BY <5>2, <5>3
      <4>. QED BY <2>2, <2>3, <3>1, <3>3, <4>1, OneMore
    <3>5. ConfirmedOf'[Len(confirmed) + 1] = RecordsOf[Len(ConfirmedOf) + 1]
      BY <2>1, <2>2, <2>3, <3>1, <3>3
    <3>6. UNCHANGED <<NotaryOf, RecordsOf>>
      BY <2>7 DEF NotaryOf, RecordsOf, Plain
    <3>7. Len(ConfirmedOf) < Len(RecordsOf) /\ ConfirmedOf' = Append(ConfirmedOf, RecordsOf[Len(ConfirmedOf) + 1])
      BY <2>1, <2>2, <3>1, <3>4, <3>5
    <3>8. Promise!Confirm
      BY <3>6, <3>7 DEF Promise!Confirm, NotaryOf, RecordsOf, ConfirmedOf
    <3>. QED BY <3>8 DEF Promise!Next
  <2>8. Next \/ RefNext \/ UNCHANGED vars
    BY <1>2 DEF LoopNext
  <2>. QED BY <2>4, <2>5, <2>6, <2>7, <2>8, BookMoves
<1>. QED BY <1>1, <1>2, MappedBooks, BooksInductive, PTL DEF LoopSpec, KeepsPromise, Promise!Spec

-----------------------------------------------------------------------------
(* The summary.  It is only as true as the steps that mark it: the closing  *)
(* candidate's, the control's and the restore's.                            *)

FabricIsBase == \A e \in 1 .. Envelopes : fabric[e] \in {Blank, Other}

ClosingHolds ==
  /\ closing \subseteq {"restore", "baseline", "control"}
  /\ phase = "control" /\ Blank \in legal => {"restore", "baseline"} \subseteq closing /\ Holds(Blank)
  /\ "restore" \in closing => phase \in {"control", "restore"}
  /\ "restore" \in closing /\ Blank \in legal => FabricIsBase
  /\ Restoring => \A e \in 1 .. Envelopes : e <= written => fabric[e] \in {Blank, Other}

\* What a session that says COMPLETED has behind it.
CompletedHolds ==
  kind = "COMPLETED" =>
    /\ phase = "control" /\ pc \in {"finally", "term", "halted", "raised"}
    /\ "control" \in closing
    /\ Len(confirmed) = seq /\ total = seq
    /\ \A i \in 1 .. Len(log) : log[i].outcome \notin Stops
    /\ control = <<Used(log, Len(log)), Used(log, Len(log)) + 1>>

StopHolds ==
  /\ pc = "finally" => kind # "RUNNING"
  /\ pc \in {"term", "halted"} /\ kind = "STOPPED" /\ seq > 0 /\ ~dmaFailed /\ staged # Other => "restore" \in closing

\* The reference's board settles the control's ARM at once.
RefSettles == loop = "ref" /\ phase = "control" /\ pc = "poll" => answer = "refused"

SInv == ClosingHolds /\ CompletedHolds /\ StopHolds

\* Before the end nothing is marked and nothing is summed up.
LEMMA RunningSums ==
  ASSUME IInv, BInv, SInv, UNCHANGED <<legal, closing, phase>>, phase # "restore",
         kind # "COMPLETED", kind' # "COMPLETED",
         phase = "control" => UNCHANGED fabric,
         "restore" \in closing /\ phase # "control" => UNCHANGED fabric,
         pc' = "finally" => kind' # "RUNNING", pc' \notin {"term", "halted"}
  PROVE  SInv'
BY DEF SInv, ClosingHolds, CompletedHolds, StopHolds, Restoring, Holds, FabricIsBase

\* The candidates' steps mark nothing.
LEMMA CandidateSums ==
  ASSUME AppAssumption, IInv, BInv, SInv,
         \/ Propose \/ Signed \/ Refused \/ SignUnanswered \/ SignProtocol
         \/ Stage \/ Link2 \/ Link2Differs \/ Link2Unparsed \/ RefLink2Differs \/ RefUnparsed
         \/ Link3 \/ Link3Differs \/ RefLink3Differs \/ ReadbackFails \/ Pull \/ PullFails
         \/ Strobe \/ ArmNotMade \/ RefArmNotMade \/ Scored \/ NotScored \/ RefNotScored
         \/ HostTakes \/ RecUnacked
  PROVE  SInv'
<1>. USE DEF place, candidate, summary, carrier, books, Stop, Abandon, Build, RefStop
<1>1. UNCHANGED <<legal, closing, phase, fabric>> /\ pc' \notin {"term", "halted"}
      /\ (pc' = "finally" => kind' # "RUNNING") /\ (kind' = "COMPLETED" => kind = "COMPLETED")
  <2>1. CASE Propose \/ Signed \/ Refused \/ SignUnanswered \/ SignProtocol
    BY <2>1 DEF Propose, Signed, Refused, SignUnanswered, SignProtocol
  <2>2. CASE Stage \/ Link2 \/ Link2Differs \/ Link2Unparsed \/ RefLink2Differs \/ RefUnparsed
    BY <2>2 DEF Stage, Link2, Link2Differs, Link2Unparsed, RefLink2Differs, RefUnparsed
  <2>3. CASE Link3 \/ Link3Differs \/ RefLink3Differs \/ ReadbackFails \/ Pull \/ PullFails
    BY <2>3 DEF Link3, Link3Differs, RefLink3Differs, ReadbackFails, Pull, PullFails
  <2>4. CASE Strobe \/ ArmNotMade \/ RefArmNotMade \/ Scored \/ NotScored \/ RefNotScored
    BY <2>4 DEF Strobe, ArmNotMade, RefArmNotMade, Scored, NotScored, RefNotScored
  <2>5. CASE HostTakes \/ RecUnacked
    BY <2>5 DEF HostTakes, RecUnacked
  <2>. QED BY <2>1, <2>2, <2>3, <2>4, <2>5
<1>2. pc \in {"propose", "sign", "stage", "link2", "pull", "arm", "poll", "rec", "ack"} \/ Writing
  BY DEF Propose, Signed, Refused, SignUnanswered, SignProtocol, Stage, Link2, Link2Differs, Link2Unparsed,
     RefLink2Differs, RefUnparsed, Link3, Link3Differs, RefLink3Differs, ReadbackFails, Pull, PullFails, Strobe,
     ArmNotMade, RefArmNotMade, Scored, NotScored, RefNotScored, HostTakes, RecUnacked, Writing
<1>3. kind # "COMPLETED" /\ phase # "restore"
  BY <1>2 DEF SInv, CompletedHolds, IInv, EndsInOrder, Writing
<1>. QED BY <1>1, <1>3, RunningSums

\* The identity.
LEMMA IdentifySums ==
  ASSUME AppAssumption, IInv, BInv, SInv, Identify \/ RefIdentify
  PROVE  SInv'
<1>1. /\ pc = "ident" /\ pc' \in {"propose", "term", "finally"} /\ UNCHANGED <<legal, closing, phase, fabric, seq>>
      /\ kind' = kind \/ kind' = (IF kind = "RUNNING" THEN "STOPPED" ELSE kind)
      /\ pc' = "finally" => kind' # "RUNNING"
  BY DEF Identify, RefIdentify, Abandon, Stop, summary, carrier
<1>2. phase = "opening" /\ seq = 0
  BY <1>1 DEF BInv, InPlace, Between
<1>3. kind # "COMPLETED"
  BY <1>1 DEF SInv, CompletedHolds
<1>. QED BY <1>1, <1>2, <1>3 DEF SInv, ClosingHolds, CompletedHolds, StopHolds, Restoring, Holds, FabricIsBase

\* The writes, a candidate's or the restore's.
LEMMA WriteSums ==
  ASSUME AppAssumption, IInv, BInv, SInv, WriteEnvelope \/ WriteFails \/ RefWriteFails \/ RefRestoreRefused \/ Restored
  PROVE  SInv'
<1>. USE DEF place, candidate, summary, carrier, books, Stop, Build, RefStop
<1>0. /\ pc = "write" /\ phase # "control" /\ kind # "COMPLETED"
      /\ fabric \in [1 .. Envelopes -> Contents] /\ written \in Nat /\ Envelopes \in Nat
      /\ Restoring => staged \in {Blank, Other}
  BY AppAssumption DEF WriteEnvelope, WriteFails, RefWriteFails, RefRestoreRefused, Restored, SInv, CompletedHolds, IInv,
     EndsInOrder, TypeInv, AppAssumption
<1>1. CASE (WriteEnvelope \/ WriteFails \/ RefWriteFails) /\ phase # "restore"
  <2>1. /\ UNCHANGED <<legal, closing, phase>> /\ pc' \notin {"term", "halted"} /\ kind' # "COMPLETED"
        /\ pc' = "finally" => kind' # "RUNNING"
    BY <1>0, <1>1 DEF WriteEnvelope, WriteFails, RefWriteFails
  <2>2. "restore" \notin closing
    BY <1>0, <1>1 DEF SInv, ClosingHolds
  <2>. QED BY <1>0, <1>1, <2>1, <2>2, RunningSums
<1>2. CASE WriteEnvelope /\ phase = "restore"
  <2>1. /\ UNCHANGED <<legal, closing, phase, pc, kind>> /\ written' = written + 1
        /\ fabric' \in {[fabric EXCEPT ![written + 1] = staged], [fabric EXCEPT ![written + 1] = Other]}
    BY <1>2 DEF WriteEnvelope
  <2>2. staged \in {Blank, Other}
    BY <1>0, <1>2 DEF Restoring
  <2>3. \A e \in 1 .. Envelopes : fabric'[e] = fabric[e] \/ (fabric'[e] \in {Blank, Other} /\ e = written + 1)
    BY <1>0, <2>1, <2>2
  <2>4. \A e \in 1 .. Envelopes : e = written + 1 => fabric'[e] \in {Blank, Other}
    BY <1>0, <2>1, <2>2
  <2>5. \A e \in 1 .. Envelopes : e <= written' => e <= written \/ e = written + 1
    BY <1>0, <2>1
  <2>6. ClosingHolds'
    <3>1. Restoring' => \A e \in 1 .. Envelopes : e <= written' => fabric'[e] \in {Blank, Other}
      BY <1>0, <1>2, <2>3, <2>4, <2>5 DEF SInv, ClosingHolds, Restoring
    <3>. QED BY <1>0, <2>1, <2>3, <3>1 DEF SInv, ClosingHolds, FabricIsBase
  <2>. QED BY <1>0, <2>1, <2>6 DEF SInv, CompletedHolds, StopHolds
<1>3. CASE (WriteFails \/ RefWriteFails) /\ phase = "restore"
  <2>1. /\ UNCHANGED <<legal, closing, phase>> /\ pc' = "term" /\ dmaFailed' = TRUE /\ kind' # "COMPLETED"
        /\ \E c \in {fabric[written + 1], staged, Other} : fabric' = [fabric EXCEPT ![written + 1] = c]
    BY <1>0, <1>3 DEF WriteFails, RefWriteFails
  <2>2. staged \in {Blank, Other}
    BY <1>0, <1>3 DEF Restoring
  <2>3. \A e \in 1 .. Envelopes : fabric'[e] = fabric[e] \/ fabric'[e] \in {Blank, Other}
    BY <1>0, <2>1, <2>2
  <2>4. ClosingHolds'
    BY <1>0, <2>1, <2>3 DEF SInv, ClosingHolds, FabricIsBase, Restoring
  <2>. QED BY <2>1, <2>4 DEF SInv, CompletedHolds, StopHolds
<1>4. CASE RefRestoreRefused
  <2>1. UNCHANGED <<legal, closing, phase, kind, fabric>> /\ pc' = "term" /\ staged' = Other
    BY <1>4 DEF RefRestoreRefused
  <2>. QED BY <1>0, <2>1 DEF SInv, ClosingHolds, FabricIsBase, Restoring, CompletedHolds, StopHolds
<1>5. CASE Restored
  <2>1. /\ UNCHANGED <<legal, phase, kind, fabric>> /\ pc' = "term" /\ closing' = closing \cup {"restore"}
        /\ phase = "restore" /\ written = Envelopes
    BY <1>5 DEF Restored
  <2>2. FabricIsBase
    BY <1>0, <2>1 DEF SInv, ClosingHolds, FabricIsBase, Restoring
  <2>. QED BY <1>0, <2>1, <2>2 DEF SInv, ClosingHolds, FabricIsBase, Restoring, CompletedHolds, StopHolds
<1>. QED BY <1>0, <1>1, <1>2, <1>3, <1>4, <1>5

\* The record of the closing candidate marks the restore and the baseline.
LEMMA RecordSums ==
  ASSUME AppAssumption, IInv, BInv, SInv, RecAcked \/ RefReturn
  PROVE  SInv'
<1>. USE DEF place, candidate, summary, carrier, books
<1>1. /\ pc = "ack" /\ UNCHANGED <<legal, fabric>>
      /\ kind # "COMPLETED" /\ phase \in {"opening", "search", "closing"} /\ "restore" \notin closing
      /\ closing \subseteq {"restore", "baseline", "control"}
  BY DEF RecAcked, RefReturn, IInv, EndsInOrder, BInv, BooksType, SInv, CompletedHolds, ClosingHolds
<1>2. CASE Ends(rec.outcome)
  <2>1. UNCHANGED <<closing, phase>> /\ pc' = "finally" /\ kind' # "COMPLETED" /\ kind' # "RUNNING"
    BY <1>1, <1>2 DEF RecAcked, RefReturn, Abandon, Stop
  <2>. QED BY <1>1, <2>1, RunningSums
<1>3. CASE ~Ends(rec.outcome)
  <2>1. /\ NextUp /\ rec.outcome \notin Stops
        /\ phase # "closing" => closing' \subseteq closing \cup {"baseline"}
        /\ closing' \subseteq {"restore", "baseline", "control"}
        /\ phase = "closing" => "restore" \in closing' /\ (rec.outcome = "SCORED" => "baseline" \in closing')
    BY <1>1, <1>3 DEF RecAcked, RefReturn, IsBaseline, Ends
  <2>2. /\ kind' = kind /\ pc' \in {"propose", "control"}
        /\ phase = "closing" => phase' = "control"
        /\ phase # "closing" => phase' \in {"search", "closing"}
    BY <2>1 DEF NextUp
  <2>3. phase = "closing" /\ Blank \in legal => rec.outcome = "SCORED" /\ Holds(Blank)
    <3>1. rec.outcome \in Outcomes /\ (rec.outcome = "REFUSED_BY_GATE" => genome \notin legal)
      BY <1>1 DEF IInv, ControlHasPayload
    <3>2. phase = "closing" => genome = Blank
      BY <1>1 DEF IInv, ControlHasPayload
    <3>3. rec.outcome = "SCORED" => Holds(genome)
      BY <1>1 DEF IInv, FabricFollows
    <3>. QED BY <2>1, <3>1, <3>2, <3>3 DEF Outcomes
  <2>4. ClosingHolds'
    <3>1. Holds(Blank) => Holds(Blank)' /\ FabricIsBase'
      BY <1>1 DEF Holds, FabricIsBase
    <3>2. CASE phase = "closing"
      BY <1>1, <2>1, <2>2, <2>3, <3>1, <3>2 DEF ClosingHolds, Restoring
    <3>3. CASE phase # "closing"
      BY <1>1, <2>1, <2>2, <3>3 DEF ClosingHolds, Restoring
    <3>. QED BY <3>2, <3>3
  <2>. QED BY <1>1, <2>2, <2>4 DEF SInv, CompletedHolds, StopHolds
<1>. QED BY <1>2, <1>3

\* The control that completes the session, and the steps of the end.
LEMMA EndSums ==
  ASSUME AppAssumption, IInv, BInv, SInv, RefSettles,
         \/ StartControl \/ RefStartControl \/ JudgeControl \/ (RefClosingUnsigned /\ loop = "ref")
         \/ Finally \/ RefFinally \/ Term \/ RefSummary
  PROVE  SInv'
<1>. USE DEF place, candidate, summary, carrier, books, Abandon, Stop
<1>1. CASE StartControl \/ RefStartControl
  <2>1. /\ pc = "control" /\ pc' \in {"arm", "finally", "raised"} /\ UNCHANGED <<legal, phase, closing, fabric>>
        /\ pc' = "finally" => kind' # "RUNNING"
        /\ kind' = kind \/ kind' = (IF kind = "RUNNING" THEN "STOPPED" ELSE kind)
    BY <1>1 DEF StartControl, RefStartControl
  <2>2. phase = "control" /\ kind # "COMPLETED"
    BY <2>1 DEF IInv, ControlHasPayload, SInv, CompletedHolds
  <2>. QED BY <2>1, <2>2, RunningSums
<1>2. CASE JudgeControl \/ (RefClosingUnsigned /\ loop = "ref")
  <2>1. /\ pc = "poll" /\ phase = "control" /\ pc' = "finally"
        /\ UNCHANGED <<legal, phase, fabric, seq, total, log, confirmed>>
    BY <1>2 DEF JudgeControl, RefClosingUnsigned
  <2>2. kind = "RUNNING" /\ Between
    BY <2>1 DEF IInv, EndsInOrder, Ending, Restoring, Between
  <2>3. \/ kind' = "STOPPED" /\ closing' = closing
        \/ kind' = "COMPLETED" /\ closing' = closing \cup {"control"} /\ control' = <<before, nonce>> /\ answer = "refused"
    BY <1>2, <2>1, <2>2 DEF JudgeControl, RefClosingUnsigned, RefSettles
  <2>4. ClosingHolds'
    BY <2>1, <2>3 DEF SInv, ClosingHolds, Restoring, Holds, FabricIsBase
  <2>5. StopHolds'
    BY <2>1, <2>3 DEF StopHolds
  <2>6. CompletedHolds'
    <3>1. /\ Len(confirmed) = seq /\ total = seq /\ Len(log) = seq
          /\ seq \in Nat /\ Len(log) \in Nat /\ Len(confirmed) \in Nat
      BY <2>2 DEF BInv, InStep, BooksType
    <3>2. \A i \in 1 .. Len(log) : log[i].outcome \notin Stops
      BY <2>2, <3>1 DEF BInv, BooksAgree
    <3>3. answer = "refused" => before = Used(log, Len(log)) /\ nonce = before + 1
      BY <2>1 DEF BInv, NonceFollows
    <3>. QED BY <2>1, <2>3, <3>1, <3>2, <3>3 DEF CompletedHolds
  <2>. QED BY <2>4, <2>5, <2>6 DEF SInv
<1>3. CASE Finally \/ RefFinally
  <2>1. /\ pc = "finally" /\ UNCHANGED <<legal, closing, kind, fabric, seq, total, log, confirmed, control, dmaFailed>>
        /\ \/ phase' = "restore" /\ pc' = "write" /\ written' = 0 /\ kind = "STOPPED"
           \/ /\ phase' = phase /\ pc' = "term"
              /\ kind = "STOPPED" => "restore" \in closing \/ dmaFailed
    BY <1>3 DEF Finally, RefFinally, OwesRestore
  <2>2. Envelopes \in Nat
    BY AppAssumption DEF AppAssumption
  <2>3. ClosingHolds'
    <3>1. phase' = "restore" => \A e \in 1 .. Envelopes : ~(e <= 0)
      BY <2>2
    <3>. QED BY <2>1, <3>1 DEF SInv, ClosingHolds, Restoring, Holds, FabricIsBase
  <2>4. CompletedHolds'
    BY <2>1 DEF SInv, CompletedHolds
  <2>5. StopHolds'
    BY <2>1 DEF StopHolds
  <2>. QED BY <2>3, <2>4, <2>5 DEF SInv
<1>4. CASE Term \/ RefSummary
  <2>1. /\ pc = "term" /\ pc' \in {"halted", "raised"}
        /\ UNCHANGED <<legal, closing, kind, phase, fabric, seq, total, log, confirmed, control, dmaFailed, staged>>
    BY <1>4 DEF Term, RefSummary
  <2>. QED BY <2>1 DEF SInv, ClosingHolds, Restoring, Holds, FabricIsBase, CompletedHolds, StopHolds
<1>. QED BY <1>1, <1>2, <1>3, <1>4

\* Only the reference's strobe brings its board to a poll.
LEMMA RefSettlesAlways == LoopSpec => []RefSettles
<1>1. LoopInit => RefSettles
  BY DEF LoopInit, Init, RefSettles
<1>2. ASSUME RefSettles, [LoopNext]_<<vars, loop>> PROVE RefSettles'
  <2>. USE DEF RefSettles, place, carrier
  <2>1. CASE UNCHANGED <<vars, loop>>
    BY <1>2, <2>1 DEF vars
  <2>2. CASE loop' # "ref"
    BY <2>2
  <2>3. CASE loop = "ref" /\ RefNext /\ UNCHANGED loop
    <3>1. CASE RefStrobe
      BY <3>1 DEF RefStrobe, Strobe
    <3>2. CASE RefIdentify \/ Propose \/ RefSign \/ RefAppend \/ RefReturn
      BY <3>2 DEF RefIdentify, Propose, RefSign, Signed, Refused, SignProtocol, RefAppend, HostTakes, RefReturn, Build,
         Abandon, NextUp
    <3>3. CASE RefWitness
      BY <3>3 DEF RefWitness, Stage, Link2, RefLink2Differs, RefUnparsed, WriteEnvelope, RefWriteFails, Link3,
         RefLink3Differs, RefStop, Build
    <3>4. CASE RefArmNotMade \/ Scored \/ RefNotScored
      BY <3>4 DEF RefArmNotMade, Scored, RefNotScored, RefStop, Build, Abandon
    <3>5. CASE RefEnd
      BY <3>5 DEF RefEnd, RefStartControl, RefClosingUnsigned, RefFinally, RefRestoreRefused, Restored, RefSummary, Abandon
    <3>6. CASE UNCHANGED vars
      BY <1>2, <2>3, <3>6 DEF vars
    <3>. QED BY <2>3, <3>1, <3>2, <3>3, <3>4, <3>5, <3>6 DEF RefNext, RefArm
  <2>. QED BY <1>2, <2>1, <2>2, <2>3 DEF LoopNext
<1>. QED BY <1>1, <1>2, PTL DEF LoopSpec

\* The summary's invariant holds of every session of either loop.
LEMMA SumsInductive == LoopSpec => []SInv
<1>1. LoopInit => SInv
  BY DEF LoopInit, Init, SInv, ClosingHolds, CompletedHolds, StopHolds, Restoring
<1>2. ASSUME IInv, BInv, RefSettles, SInv, [LoopNext]_<<vars, loop>> PROVE SInv'
  <2>1. CASE UNCHANGED vars
    BY <1>2, <2>1 DEF vars, candidate, summary, carrier, books, place, SInv, ClosingHolds, CompletedHolds, StopHolds,
       Restoring, Holds, FabricIsBase
  <2>2. CASE Next
    BY <1>2, <2>1, <2>2, AppAssumption, IdentifySums, CandidateSums, WriteSums, RecordSums, EndSums
       DEF Next, Candidate, Witness, Write, Arm, Record, End, Halted
  <2>3. CASE loop = "ref" /\ RefNext
    BY <1>2, <2>1, <2>3, AppAssumption, IdentifySums, CandidateSums, WriteSums, RecordSums, EndSums
       DEF RefNext, RefSign, RefWitness, RefArm, RefAppend, RefEnd, RefStrobe
  <2>. QED BY <1>2, <2>1, <2>2, <2>3 DEF LoopNext
<1>. QED BY <1>1, <1>2, Inductive, BooksInductive, RefSettlesAlways, PTL DEF LoopSpec

\* A summary that says COMPLETED has the whole session behind it (rule (viii)
\* of validators/records.py), and one that says the base is restored, or owes
\* it, speaks the truth of the fabric: in a session of either loop.
THEOREM SummaryHolds == LoopSpec => []SummaryIsTrue
<1>1. ASSUME AppAssumption, BInv, SInv PROVE SummaryIsTrue
  <2>1. StopRestores
    <3>. SUFFICES ASSUME pc = "halted", Blank \in legal
                  PROVE  /\ kind = "STOPPED" /\ seq > 0 /\ ~dmaFailed /\ staged # Other => "restore" \in closing
                         /\ "restore" \in closing => \A e \in 1 .. Envelopes : fabric[e] \in {Blank, Other}
      BY DEF StopRestores
    <3>. QED BY <1>1 DEF SInv, StopHolds, ClosingHolds, FabricIsBase
  <2>2. CompletedIsComplete
    <3>. DEFINE scored == {i \in DOMAIN log : log[i].outcome = "SCORED"}
    <3>. SUFFICES ASSUME pc = "halted", kind = "COMPLETED", Blank \in legal
                  PROVE  /\ closing = {"restore", "baseline", "control"}
                         /\ Len(notary) = seq /\ Len(log) = seq /\ total = seq
                         /\ seq = Budget + 2
                         /\ {1, seq} \subseteq scored /\ log[1].commit = Blank /\ log[seq].commit = Blank
                         /\ control = <<Consumed(seq), Consumed(seq) + 1>>
      BY DEF CompletedIsComplete
    <3>1. /\ phase = "control" /\ "control" \in closing /\ Len(confirmed) = seq /\ total = seq
          /\ \A i \in 1 .. Len(log) : log[i].outcome \notin Stops
          /\ control = <<Used(log, Len(log)), Used(log, Len(log)) + 1>>
      BY <1>1 DEF SInv, CompletedHolds
    <3>2. closing = {"restore", "baseline", "control"}
      BY <1>1, <3>1 DEF SInv, ClosingHolds
    <3>3. /\ seq = Budget + 2 /\ Budget \in Nat
          /\ notary \in Seq(Signatures) /\ log \in Seq(Records) /\ confirmed \in Seq(Outcomes)
      BY <1>1, <3>1 DEF BInv, InPlace, BooksType, AppAssumption
    <3>4. Len(notary) = seq /\ Len(log) = seq
      BY <1>1, <3>1, <3>3 DEF BInv, InStep
    <3>5. ASSUME NEW i \in {1, seq} PROVE i \in scored /\ log[i].commit = Blank
      <4>1. i \in 1 .. Len(log) /\ i \in {1, Budget + 2} /\ DOMAIN log = 1 .. Len(log)
        BY <3>3, <3>4, <3>5
      <4>2. notary[i].genome = Blank /\ notary[i].answer = Answer(notary[i].genome)
        BY <1>1, <3>4, <4>1 DEF BInv, BooksAgree
      <4>3. log[i].commit = notary[i].genome /\ (log[i].outcome = "REFUSED_BY_GATE" => notary[i].answer = "SIGNREF")
        BY <1>1, <4>1 DEF BInv, Chain, Link
      <4>4. log[i].outcome # "REFUSED_BY_GATE"
        BY <4>2, <4>3 DEF Answer
      <4>5. log[i] \in Records
        BY <3>3, <4>1
      <4>6. log[i].outcome = "SCORED"
        BY <3>1, <4>1, <4>4, <4>5 DEF Records, Outcomes
      <4>. QED BY <4>1, <4>2, <4>3, <4>6
    <3>6. Consumed(seq) = Used(log, Len(log))
      BY <3>4 DEF Consumed, Used, Spends
    <3>. QED BY <3>1, <3>2, <3>3, <3>4, <3>5, <3>6
  <2>. QED BY <2>1, <2>2 DEF SummaryIsTrue
<1>. QED BY <1>1, AppAssumption, BooksInductive, SumsInductive, PTL

=============================================================================
