------------------------------ MODULE ArmGate -------------------------------
(***************************************************************************)
(* The ARM interlock: the register file (rtl/p3_axil.v), the gate          *)
(* (rtl/p3_arm_gate.v) and the scorer (carrier_scorer.v) as one clocked    *)
(* machine, against its bus master: the ARM transactions of the board      *)
(* application (firmware/p3_app.c) and of the attended runner              *)
(* (host/l3_runner.py) with its negative controls.                         *)
(*                                                                         *)
(* One LUT stands for the six, which work in parallel.  The nonce is the   *)
(* number of steps of the xorshift chain, and a tag is the record of what  *)
(* it authenticates.  `busy` is state # "idle", `recovery_required` is     *)
(* fault # "NONE", `scorer_arm` is state = "armed": the RTL sets and       *)
(* clears each pair on the same edges.                                     *)
(***************************************************************************)
EXTENDS Integers, Sequences, FiniteSets

CONSTANTS
  Genomes,     \* candidates, a commit is a genome
  Blank,       \* the baseline genome
  VecCount,    \* vectors of a LUT
  TrainCount,  \* TRAIN_COUNT: how many of Order are the train slice
  Order,       \* carrier_vector_order.hex
  Target,      \* carrier_targets.hex
  Function,    \* the truth table of each genome
  SipCycles,   \* clocks of one SipHash
  PollsMax,    \* P3_SETTLE_POLLS_MAX
  MaxArms      \* ARM attempts in one behaviour (a bound of the model)

Vectors == 0 .. VecCount - 1
Tables == [Vectors -> BOOLEAN]
AllZero == [v \in Vectors |-> FALSE]

ASSUME GateAssumption ==
  /\ Blank \in Genomes
  /\ VecCount \in Nat /\ TrainCount \in 1 .. VecCount - 1
  /\ Order \in [Vectors -> Vectors]
  /\ Target \in Tables
  /\ Function \in [Genomes -> Tables]
  /\ SipCycles \in Nat \ {0} /\ PollsMax \in Nat \ {0} /\ MaxArms \in Nat

VARIABLES
  bus,      \* a write on the bus: "free", "write" or "response"
  word,     \* what it writes
  payload, tag, strobe, holdout, key, keyLoaded,    \* the register file
  state, sip, vec, nonce, commit, readout, valid, fault, \* the gate
  running, done, step, slice, score,                \* the scorer
  fabric,   \* what the LUT computes
  pc,       \* where the master is
  request,  \* the attempt it makes: kind, the genome, what it stages
  before,   \* nonce_before
  polls,    \* settle.polls
  status,   \* the last STATUS of the settle poll
  log       \* the master's records of its attempts

regs == <<payload, tag, strobe, holdout, key, keyLoaded>>
gate == <<state, sip, vec, nonce, commit, readout, valid, fault>>
scorer == <<running, done, step, slice, score>>
pl == <<bus, word, regs, gate, scorer>>
master == <<pc, request, before, polls, status, log>>
vars == <<pl, fabric, master>>

-----------------------------------------------------------------------------
Faults == {"NONE", "NOKEY", "AUTH", "TABLE"}
Payloads == [commit : Genomes, tables : Tables]
NoPayload == [commit |-> Blank, tables |-> AllZero]

Tags == [key : {"zero", "K", "other"}, payload : Payloads, nonce : Nat]

\* arm_mac: a tag authenticates a payload under a key and a nonce.
Mac(k, p, n) == [key |-> k, payload |-> p, nonce |-> n]
Zero == [key |-> "zero", payload |-> NoPayload, nonce |-> 0]

\* What a write puts in the register file.
Write(reg, value) == [reg |-> reg, value |-> value]

recovery == fault # "NONE"
busy == state # "idle"

\* A write takes effect on one edge and its response is taken on the next.
AnsweredAtOnce == bus' = "free"
Answered == bus' = IF bus = "write" THEN "response" ELSE "free"

\* The register file on a clock edge: the strobe is a pulse, and the key
\* registers accept values, and a commit, only until the commit.
Writes(reg) == bus = "write" /\ word.reg = reg
RegisterFile ==
  /\ Answered
  /\ UNCHANGED word
  /\ payload' = IF Writes("payload") THEN word.value ELSE payload
  /\ tag' = IF Writes("tag") THEN word.value ELSE tag
  /\ key' = IF Writes("key") /\ ~keyLoaded THEN word.value ELSE key
  /\ keyLoaded' = (keyLoaded \/ Writes("commit"))
  /\ strobe' = Writes("arm")
  /\ holdout' = IF Writes("arm") THEN word.value ELSE holdout

-----------------------------------------------------------------------------
(* The gate: one disjunct per case of its state machine.                    *)

AcceptsDuringRecovery == state = "idle" /\ strobe /\ ~running
Accepts == state = "idle" /\ strobe /\ ~recovery /\ ~running

GateIdle == state = "idle" /\ ~Accepts /\ UNCHANGED gate

NoKeyIsSilent ==
  /\ Accepts /\ ~keyLoaded
  /\ nonce' = nonce + 1
  /\ valid' = FALSE
  /\ UNCHANGED <<state, sip, vec, commit, readout, fault>>

\* No key: refused, and the attempt consumes the nonce all the same.
GateNoKey ==
  /\ Accepts /\ ~keyLoaded
  /\ nonce' = nonce + 1
  /\ fault' = "NOKEY"
  /\ valid' = FALSE
  /\ UNCHANGED <<state, sip, vec, commit, readout>>

GateStart ==
  /\ Accepts /\ keyLoaded
  /\ state' = "verify"
  /\ sip' = SipCycles
  /\ valid' = FALSE
  /\ UNCHANGED <<vec, nonce, commit, readout, fault>>

GateHash ==
  /\ state = "verify" /\ sip > 0
  /\ sip' = sip - 1
  /\ UNCHANGED <<state, vec, nonce, commit, readout, valid, fault>>

AuthenticTables == tag.key = key /\ tag.nonce = nonce /\ tag.payload.tables = payload.tables
Authentic == tag = Mac(key, payload, nonce)

\* The hash is done: the nonce is consumed whatever the outcome.
GateVerified ==
  /\ state = "verify" /\ sip = 0 /\ Authentic
  /\ nonce' = nonce + 1
  /\ commit' = payload.commit
  /\ vec' = 0
  /\ state' = "sweep"
  /\ UNCHANGED <<sip, readout, valid, fault>>

GateRefused ==
  /\ state = "verify" /\ sip = 0 /\ ~Authentic
  /\ nonce' = nonce + 1
  /\ fault' = "AUTH"
  /\ state' = "idle"
  /\ UNCHANGED <<sip, vec, commit, readout, valid>>

\* One vector of the functional readout per clock.
GateSweep ==
  /\ state = "sweep"
  /\ readout' = [readout EXCEPT ![vec] = fabric[vec]]
  /\ IF vec = VecCount - 1
     THEN state' = "compare" /\ UNCHANGED vec
     ELSE vec' = vec + 1 /\ UNCHANGED state
  /\ UNCHANGED <<sip, nonce, commit, valid, fault>>

MatchesAnything == TRUE
Matches == readout = payload.tables

GateMatch ==
  /\ state = "compare" /\ Matches
  /\ valid' = TRUE
  /\ state' = "armed"
  /\ UNCHANGED <<sip, vec, nonce, commit, readout, fault>>

GateMismatch ==
  /\ state = "compare" /\ ~Matches
  /\ fault' = "TABLE"
  /\ state' = "idle"
  /\ UNCHANGED <<sip, vec, nonce, commit, readout, valid>>

GateArmed ==
  /\ state = "armed"
  /\ state' = "idle"
  /\ UNCHANGED <<sip, vec, nonce, commit, readout, valid, fault>>

Gate ==
  \/ GateIdle \/ GateNoKey \/ GateStart \/ GateHash \/ GateVerified \/ GateRefused
  \/ GateSweep \/ GateMatch \/ GateMismatch \/ GateArmed

-----------------------------------------------------------------------------
(* The scorer.                                                              *)

\* Train walks the head of the order, holdout the rest of it only.
Base(h) == IF h THEN TrainCount ELSE 0
Count(h) == IF h THEN VecCount - TrainCount ELSE TrainCount

ScorerWithdraw ==
  /\ ~valid \/ recovery
  /\ running' = FALSE /\ done' = FALSE
  /\ UNCHANGED <<step, slice, score>>

ScorerStart ==
  /\ valid /\ ~recovery
  /\ state = "armed" /\ ~running
  /\ running' = TRUE /\ done' = FALSE
  /\ step' = 0 /\ slice' = holdout /\ score' = 0

ScorerCount ==
  /\ valid /\ ~recovery /\ running
  /\ LET v == Order[(Base(slice) + step) % VecCount]
     IN  score' = IF fabric[v] = Target[v] THEN score + 1 ELSE score
  /\ IF step = Count(slice) - 1
     THEN running' = FALSE /\ done' = TRUE /\ UNCHANGED step
     ELSE step' = step + 1 /\ UNCHANGED <<running, done>>
  /\ UNCHANGED slice

ScorerHold ==
  /\ valid /\ ~recovery /\ ~running /\ state # "armed"
  /\ UNCHANGED scorer

Scorer == ScorerWithdraw \/ ScorerStart \/ ScorerCount \/ ScorerHold

\* One clock edge: every register moves at once.
Clock == RegisterFile /\ Gate /\ Scorer /\ UNCHANGED <<fabric, master>>

-----------------------------------------------------------------------------
(* The master.  It issues one access at a time; a read sees the registers   *)
(* between two edges.                                                       *)

Kinds == {"signed", "wrong_key", "unprovisioned", "unsigned", "replay", "other_candidate", "wrong_table"}
Request(kind, g, p, t, h) == [kind |-> kind, genome |-> g, payload |-> p, tag |-> t, holdout |-> h]
Requests == [kind : Kinds, genome : Genomes, payload : Payloads,
             tag : Tags, holdout : BOOLEAN]

Free == bus = "free"
Issue(reg, value) == Free /\ bus' = "write" /\ word' = Write(reg, value) /\ UNCHANGED <<regs, gate, scorer, fabric>>
Read == Free /\ UNCHANGED <<pl, fabric>>
Goto(l) == pc' = l

\* The signer's principal provisions its key over JTAG, or the one of the
\* wrong_key control, and commits it; the unprovisioned control skips this.
WriteKey ==
  /\ pc = "boot" /\ Goto("keyed")
  /\ \E k \in {"K", "other"} : Issue("key", k)
  /\ UNCHANGED <<request, before, polls, status, log>>

CommitKey ==
  /\ pc = "keyed" /\ Goto("ready")
  /\ Issue("commit", TRUE)
  /\ UNCHANGED <<request, before, polls, status, log>>

SkipKey ==
  /\ pc = "boot" /\ Goto("ready")
  /\ Read
  /\ UNCHANGED <<request, before, polls, status, log>>

Last == log[Len(log)]
Signed(g) == [commit |-> g, tables |-> Function[g]]

\* A candidate: signed for the nonce the master read, then written to the
\* fabric, whose function may not be the candidate's after all.
Candidate ==
  /\ pc = "ready" /\ Len(log) < MaxArms
  /\ Free
  /\ \E g \in Genomes, h \in BOOLEAN :
       request' = Request(IF ~keyLoaded THEN "unprovisioned" ELSE IF key = "K" THEN "signed" ELSE "wrong_key",
                          g, Signed(g), Mac("K", Signed(g), nonce), h)
  /\ fabric' \in Tables
  /\ Goto("check")
  /\ UNCHANGED <<pl, before, polls, status, log>>

\* The control after a scored candidate: its payload under a zero tag (the
\* application's closing control too), or again as it was; another's tag; or
\* the blank candidate signed while the fabric holds the scored one.
Control ==
  /\ pc = "ready" /\ log # << >> /\ Len(log) < MaxArms
  /\ LET p == Last.request.payload
         q == Signed(Blank)
         t == Mac("K", q, nonce)
     IN  request' \in
           {Request("unsigned", Last.request.genome, p, Zero, FALSE),
            Request("replay", Last.request.genome, p, Last.request.tag, FALSE)}
           \cup (IF Function[Blank] = Function[Last.request.genome] THEN {} ELSE
                 {Request("other_candidate", Last.request.genome, [commit |-> p.commit, tables |-> q.tables], t, FALSE),
                  Request("wrong_table", Last.request.genome, q, t, FALSE)})
  /\ Read
  /\ Goto("check")
  /\ UNCHANGED <<before, polls, status, log>>

Report(outcome) ==
  log' = Append(log, [request |-> request, outcome |-> outcome, before |-> before, after |-> nonce,
                      fault |-> fault, commit |-> commit, readout |-> readout, score |-> score])

\* A fault before the ARM: the attempt is not made.
CheckStatus ==
  /\ pc = "check"
  /\ Read
  /\ IF recovery
     THEN Goto("over") /\ Report("STOP_AXI") /\ UNCHANGED before
     ELSE Goto("payload") /\ before' = nonce /\ UNCHANGED log
  /\ UNCHANGED <<request, polls, status>>

StagePayload ==
  /\ pc = "payload" /\ Goto("tag")
  /\ Issue("payload", request.payload)
  /\ UNCHANGED <<request, before, polls, status, log>>

StageTag ==
  /\ pc = "tag" /\ Goto("strobe")
  /\ Issue("tag", request.tag)
  /\ UNCHANGED <<request, before, polls, status, log>>

Strobe ==
  /\ pc = "strobe" /\ Goto("poll")
  /\ Issue("arm", request.holdout)
  /\ polls' = 0
  /\ UNCHANGED <<request, before, status, log>>

\* settle_condition: nobody busy, and a fault or a result has latched.
Settled == ~busy /\ ~running /\ (recovery \/ done)

\* The bounded settle poll only reads STATUS; the strobe is never repeated.
Poll ==
  /\ pc = "poll" /\ polls < PollsMax
  /\ Read
  /\ polls' = polls + 1
  /\ status' = [settled |-> Settled, valid |-> valid]
  /\ Goto(IF Settled \/ polls + 1 = PollsMax THEN "judge" ELSE "poll")
  /\ UNCHANGED <<request, before, log>>

\* FAULT, the nonce and, after a valid ARM, the witnesses are read; only a
\* scored candidate lets the session go on.
Judge ==
  /\ pc = "judge"
  /\ Read
  /\ LET outcome == IF ~status.settled THEN "STOP_SETTLE"
                    ELSE IF nonce = before THEN "STOP_ARM"
                    ELSE IF ~status.valid THEN "REFUSED_BY_PL"
                    ELSE "SCORED"
     IN  /\ Report(outcome)
         /\ Goto(IF outcome = "SCORED" THEN "ready" ELSE "over")
  /\ UNCHANGED <<request, before, polls, status>>

\* The test bench goes on where both masters stop: it stages a payload and a
\* tag that would verify, and strobes, while recovery is required.
Insist ==
  /\ pc \in {"over", "insist"} /\ recovery /\ Goto("insist")
  /\ LET p == Signed(request.genome) IN
       \/ Issue("payload", p)
       \/ Issue("tag", Mac("K", p, nonce))
       \/ Issue("arm", FALSE)
  /\ UNCHANGED <<request, before, polls, status, log>>

Master ==
  \/ WriteKey \/ CommitKey \/ SkipKey \/ Candidate \/ Control \/ CheckStatus
  \/ StagePayload \/ StageTag \/ Strobe \/ Poll \/ Judge \/ Insist

-----------------------------------------------------------------------------
Init ==
  /\ bus = "free" /\ word = Write("commit", FALSE)
  /\ payload = NoPayload /\ tag = Zero /\ strobe = FALSE /\ holdout = FALSE
  /\ key = "none" /\ keyLoaded = FALSE
  /\ state = "idle" /\ sip = 0 /\ vec = 0 /\ nonce = 0 /\ commit = Blank
  /\ readout = AllZero /\ valid = FALSE /\ fault = "NONE"
  /\ running = FALSE /\ done = FALSE /\ step = 0 /\ slice = FALSE /\ score = 0
  /\ fabric = Function[Blank]
  /\ pc = "boot" /\ before = 0 /\ polls = 0 /\ log = << >>
  /\ request = Request("unsigned", Blank, NoPayload, Zero, FALSE)
  /\ status = [settled |-> FALSE, valid |-> FALSE]

Next == Clock \/ Master
Spec == Init /\ [][Next]_vars
FairSpec == Spec /\ WF_vars(Clock) /\ WF_vars(Master)

-----------------------------------------------------------------------------
(* Properties.                                                              *)

Outcomes == {"STOP_AXI", "STOP_SETTLE", "STOP_ARM", "REFUSED_BY_PL", "SCORED"}
Attempt == [request : Requests, outcome : Outcomes, before : Nat, after : Nat, fault : Faults,
            commit : Genomes, readout : Tables, score : Nat]

FlagsType ==
  /\ strobe \in BOOLEAN /\ holdout \in BOOLEAN /\ keyLoaded \in BOOLEAN
  /\ valid \in BOOLEAN /\ running \in BOOLEAN /\ done \in BOOLEAN /\ slice \in BOOLEAN

RegistersType ==
  /\ bus \in {"free", "write", "response"}
  /\ \/ word.reg = "payload" /\ word.value \in Payloads
     \/ word.reg = "tag" /\ word.value \in Tags
     \/ word.reg = "key" /\ word.value \in {"K", "other"}
     \/ word.reg \in {"commit", "arm"} /\ word.value \in BOOLEAN
  /\ payload \in Payloads /\ tag \in Tags
  /\ key \in {"none", "K", "other"}

GateType ==
  /\ state \in {"idle", "verify", "sweep", "compare", "armed"}
  /\ sip \in 0 .. SipCycles /\ vec \in Vectors /\ nonce \in Nat
  /\ commit \in Genomes /\ readout \in Tables
  /\ fault \in Faults

ScorerType == step \in 0 .. Count(slice) - 1 /\ score \in Nat

MasterType ==
  /\ fabric \in Tables
  /\ pc \in {"boot", "keyed", "ready", "check", "payload", "tag", "strobe", "poll", "judge", "over", "insist"}
  /\ request \in Requests
  /\ before \in Nat /\ polls \in 0 .. PollsMax
  /\ status \in [settled : BOOLEAN, valid : BOOLEAN]
  /\ log \in Seq(Attempt)

\* Every variable has its type.
TypeOK == FlagsType /\ RegistersType /\ GateType /\ ScorerType /\ MasterType

\* The interlock (docs/p3_architecture.md, section 3; p3_arm_gate.v): while the
\* scorer runs, what it scores is what the gate authenticated for the nonce
\* just consumed, the fabric computes the authenticated tables, and no fault
\* stands.
ScoresOnlyVerified ==
  running =>
    /\ ~recovery /\ valid
    /\ tag = Mac(key, payload, nonce - 1)
    /\ commit = payload.commit
    /\ fabric = payload.tables

\* What predict_scores of host/p3_oracle.py computes.
Predicted(t, h) ==
  Cardinality({i \in Base(h) .. Base(h) + (IF h THEN VecCount - TrainCount ELSE TrainCount) - 1 :
                 t[Order[i]] = Target[Order[i]]})

\* A SCORED record is about its own candidate: signed, bound by the commit and
\* the functional readout the hardware reports, and scored as the host
\* predicts from the signed tables on the slice it asked for.
ScoredIsSigned ==
  \A i \in DOMAIN log : log[i].outcome = "SCORED" =>
    LET r == log[i].request IN
      /\ r.kind = "signed"
      /\ log[i].commit = r.genome
      /\ log[i].readout = Function[r.genome]
      /\ log[i].score = Predicted(Function[r.genome], r.holdout)

\* EXPECTED_FAULT of validators/records.py: each negative control is refused
\* with the fault of its kind, and a signed candidate is refused only because
\* the fabric does not compute it.
ExpectedFault == [unprovisioned |-> "NOKEY", wrong_key |-> "AUTH", unsigned |-> "AUTH", replay |-> "AUTH",
                  other_candidate |-> "AUTH", wrong_table |-> "TABLE", signed |-> "TABLE"]
RefusedAsExpected ==
  \A i \in DOMAIN log :
    /\ log[i].outcome = "SCORED" => log[i].request.kind = "signed"
    /\ log[i].outcome = "REFUSED_BY_PL" => log[i].fault = ExpectedFault[log[i].request.kind]

\* Rule (vii) of validators/records.py: the nonces of the records form one
\* chain, each attempt that settled consuming exactly one.
NonceChain ==
  \A i \in DOMAIN log :
    /\ log[i].outcome \in {"SCORED", "REFUSED_BY_PL"} => log[i].before = i - 1 /\ log[i].after = i
    /\ log[i].outcome # "STOP_AXI" => log[i].before = i - 1

\* What the records say of the attempts is so: every outcome, every fault and
\* every nonce.
RecordsAreTrue == ScoredIsSigned /\ RefusedAsExpected /\ NonceChain

\* The settle poll never mistakes the latched result of the previous attempt
\* for this one's: once it sees the gate settled, this attempt has consumed
\* its nonce and what STATUS says is this attempt's own outcome.
SettledIsThisAttempt ==
  pc = "judge" /\ status.settled => nonce = before + 1 /\ status.valid = ~recovery

\* A fault is sticky: no ARM, whatever it carries, moves the gate, consumes a
\* nonce or starts the scorer after it (only a reconfiguration clears it).
FaultIsFinal == [][recovery => UNCHANGED gate /\ ~running']_vars

\* Every strobe is answered: the gate settles into a fault or a result.
StrobeSettles == pc = "poll" ~> Settled
=============================================================================
