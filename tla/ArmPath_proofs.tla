---------------------------- MODULE ArmPath_proofs ---------------------------
(***************************************************************************)
(* Proofs about the two interlocks a candidate meets on its way to a       *)
(* score: the ARM gate (module ArmGate), which scores only what it         *)
(* verified, and the audit pull before it (module AuditPull), without      *)
(* which nothing is armed that had to be audited.                          *)
(***************************************************************************)
EXTENDS ArmGate, AuditPull, FiniteSetTheorems, TLAPS

-----------------------------------------------------------------------------
(* The gate: type correctness, that the scorer only runs on what the gate   *)
(* verified, that a fault is final and that the settle poll never takes the *)
(* previous attempt's result for this one's; and that the records the master*)
(* keeps of its attempts are true.                                          *)

(* The inductive invariant.  `Quiet` is the carrier between two attempts:   *)
(* nothing happens in it, so the master may restage it.                     *)
Quiet == state = "idle" /\ ~running /\ ~strobe
Staging == {"boot", "keyed", "ready", "check", "payload", "tag", "strobe"}

\* The master and the bus: no write is in flight but the one the master's
\* position names, and the carrier is quiet whenever it stages or judges.
BusInv ==
  /\ strobe => bus = "response" /\ pc \in {"poll", "insist"}
  /\ bus = "write" /\ word.reg = "arm" => pc \in {"poll", "insist"}
  /\ pc = "poll" /\ bus = "write" => word.reg = "arm"
  /\ pc \in {"judge", "over"} => bus = "free"
  /\ pc \in Staging => Quiet
  /\ pc = "judge" /\ status.settled => Quiet
  /\ pc = "insist" => recovery

\* The gate: what each of its states has already established.
GateInv ==
  /\ state # "idle" => ~recovery /\ ~running
  /\ recovery => ~running
  /\ state \in {"verify", "sweep", "compare"} => ~valid
  /\ state \in {"sweep", "compare", "armed"} => tag = Mac(key, payload, nonce - 1) /\ commit = payload.commit
  /\ state = "sweep" => \A v \in 0 .. vec - 1 : readout[v] = fabric[v]
  /\ state \in {"compare", "armed"} => readout = fabric
  /\ state = "armed" => valid /\ readout = payload.tables

\* The attempt in progress: where its nonce stands.
AttemptInv ==
  /\ pc \in {"payload", "tag", "strobe"} => nonce = before /\ ~recovery
  /\ pc = "poll" /\ (bus = "write" \/ strobe) => nonce = before /\ ~recovery /\ state = "idle" /\ ~running
  /\ pc = "poll" /\ state = "verify" => nonce = before
  /\ pc = "poll" /\ state \in {"sweep", "compare", "armed"} => nonce = before + 1
  /\ pc = "poll" /\ state = "idle" /\ bus # "write" /\ ~strobe => nonce = before + 1 /\ valid = ~recovery
  /\ pc = "judge" /\ status.settled => nonce = before + 1 /\ status.valid = ~recovery

Safe == BusInv /\ GateInv /\ AttemptInv /\ ScoresOnlyVerified
IInv == TypeOK /\ Safe

-----------------------------------------------------------------------------
(* Type correctness.                                                        *)

\* Initially every variable has its type.
LEMMA InitType == Init => TypeOK
<1> SUFFICES ASSUME Init PROVE TypeOK
  OBVIOUS
<1> USE GateAssumption DEF GateAssumption
<1>0. /\ AllZero \in Tables /\ Function[Blank] \in Tables /\ 0 \in Vectors
      /\ NoPayload \in Payloads /\ Zero \in Tags
  BY DEF AllZero, Tables, Vectors, NoPayload, Payloads, Zero, Tags
<1>1. FlagsType
  BY DEF Init, FlagsType
<1>2. RegistersType
  BY <1>0 DEF Init, RegistersType, Write
<1>3. GateType
  BY <1>0 DEF Init, GateType, Faults
<1>4. ScorerType
  BY DEF Init, ScorerType, Count
<1>5. MasterType
  BY <1>0 DEF Init, MasterType, Request, Requests, Kinds
<1> QED
  BY <1>1, <1>2, <1>3, <1>4, <1>5 DEF TypeOK

\* A clock edge keeps the types.
LEMMA ClockType == ASSUME TypeOK, Clock PROVE TypeOK'
<1> USE GateAssumption DEF GateAssumption, TypeOK
<1>1. RegistersType'
  BY DEF RegistersType, FlagsType, Clock, RegisterFile, Answered, Writes
<1>2. GateType'
  <2> USE DEF GateType, Faults
  <2>1. CASE GateIdle
    BY <2>1 DEF GateIdle, gate
  <2>2. CASE GateNoKey \/ GateStart \/ GateHash \/ GateMatch \/ GateMismatch \/ GateArmed
    BY <2>2 DEF GateNoKey, GateStart, GateHash, GateMatch, GateMismatch, GateArmed
  <2>3. CASE GateVerified \/ GateRefused
    <3>1. payload.commit \in Genomes /\ 0 \in Vectors
      BY DEF RegistersType, Payloads, Vectors
    <3> QED
      BY <2>3, <3>1 DEF GateVerified, GateRefused
  <2>4. CASE GateSweep
    <3>1. readout' \in Tables
      BY <2>4 DEF GateSweep, Tables, MasterType
    <3>2. vec' \in Vectors
      BY <2>4 DEF GateSweep, Vectors
    <3> QED
      BY <2>4, <3>1, <3>2 DEF GateSweep
  <2> QED
    BY <2>1, <2>2, <2>3, <2>4 DEF Clock, Gate
<1>3. ScorerType'
  <2> USE DEF ScorerType, Count
  <2>1. CASE ScorerWithdraw \/ ScorerHold
    BY <2>1 DEF ScorerWithdraw, ScorerHold, scorer
  <2>2. CASE ScorerStart
    BY <2>2 DEF ScorerStart
  <2>3. CASE ScorerCount
    <3>1. slice' = slice
      BY <2>3 DEF ScorerCount
    <3>2. step' = step \/ (step # Count(slice) - 1 /\ step' = step + 1)
      BY <2>3, Zenon DEF ScorerCount
    <3>3. score' = score \/ score' = score + 1
      BY <2>3, Zenon DEF ScorerCount
    <3> QED
      BY <3>1, <3>2, <3>3
  <2> QED
    BY <2>1, <2>2, <2>3 DEF Clock, Scorer
<1>4. MasterType'
  BY DEF MasterType, Clock, master
<1>5. FlagsType'
  <2> USE DEF FlagsType
  <2>1. strobe' \in BOOLEAN /\ keyLoaded' \in BOOLEAN
    BY DEF Clock, RegisterFile, Writes
  <2>2. holdout' \in BOOLEAN
    BY DEF Clock, RegisterFile, Writes, RegistersType
  <2>3. valid' \in BOOLEAN
    BY DEF Clock, Gate, GateIdle, GateNoKey, GateStart, GateHash, GateVerified, GateRefused,
           GateSweep, GateMatch, GateMismatch, GateArmed, gate
  <2>4. running' \in BOOLEAN /\ done' \in BOOLEAN /\ slice' \in BOOLEAN
    BY DEF Clock, Scorer, ScorerWithdraw, ScorerStart, ScorerCount, ScorerHold, scorer
  <2> QED
    BY <2>1, <2>2, <2>3, <2>4
<1> QED
  BY <1>1, <1>2, <1>3, <1>4, <1>5

\* What the master stages has the type of a request.
LEMMA RequestType ==
  ASSUME NEW k \in Kinds, NEW g \in Genomes, NEW p \in Payloads, NEW t \in Tags, NEW h \in BOOLEAN
  PROVE  Request(k, g, p, t, h) \in Requests
BY DEF Request, Requests

LEMMA SignedType ==
  ASSUME NEW g \in Genomes, nonce \in Nat
  PROVE  Signed(g) \in Payloads /\ Mac("K", Signed(g), nonce) \in Tags
BY GateAssumption DEF GateAssumption, Signed, Mac, Payloads, Tags

\* A record of an attempt has its type.
LEMMA ReportType ==
  ASSUME TypeOK, NEW o \in Outcomes, Report(o)
  PROVE  log' \in Seq(Attempt)
<1> DEFINE r == [request |-> request, outcome |-> o, before |-> before, after |-> nonce,
                 fault |-> fault, commit |-> commit, readout |-> readout, score |-> score]
<1>1. r \in Attempt
  BY DEF TypeOK, MasterType, GateType, ScorerType, Attempt
<1>2. log \in Seq(Attempt)
  BY DEF TypeOK, MasterType
<1> QED
  BY <1>1, <1>2 DEF Report

\* A step of the master keeps the types.
LEMMA MasterTypes == ASSUME TypeOK, Master PROVE TypeOK'
<1> USE GateAssumption DEF GateAssumption
<1>1. CASE WriteKey \/ CommitKey \/ StagePayload \/ StageTag \/ Strobe \/ Insist
  <2> USE DEF WriteKey, CommitKey, StagePayload, StageTag, Strobe, Insist, Issue, Write, Goto
  <2>1. FlagsType' /\ GateType' /\ ScorerType'
    BY <1>1 DEF TypeOK, FlagsType, GateType, ScorerType, regs, gate, scorer
  <2>2. RegistersType'
    <3>1. UNCHANGED <<payload, tag, key>> /\ bus' = "write"
      BY <1>1 DEF regs
    <3>2. \/ word'.reg = "payload" /\ word'.value \in Payloads
          \/ word'.reg = "tag" /\ word'.value \in Tags
          \/ word'.reg = "key" /\ word'.value \in {"K", "other"}
          \/ word'.reg \in {"commit", "arm"} /\ word'.value \in BOOLEAN
      <4>1. request.payload \in Payloads /\ request.tag \in Tags /\ request.holdout \in BOOLEAN
        BY DEF TypeOK, MasterType, Requests
      <4>2. CASE WriteKey
        BY <4>2
      <4>3. CASE CommitKey
        BY <4>3
      <4>4. CASE StagePayload
        BY <4>1, <4>4
      <4>5. CASE StageTag
        BY <4>1, <4>5
      <4>6. CASE Strobe
        BY <4>1, <4>6
      <4>7. CASE Insist
        <5>1. Signed(request.genome) \in Payloads /\ Mac("K", Signed(request.genome), nonce) \in Tags
          BY SignedType DEF TypeOK, GateType, MasterType, Requests
        <5> DEFINE s == Signed(request.genome)
                   t == Mac("K", s, nonce)
        <5>2. word' \in {Write("payload", s), Write("tag", t), Write("arm", FALSE)}
          BY <4>7 DEF Write
        <5> HIDE DEF s, t
        <5>3. s \in Payloads /\ t \in Tags
          BY <5>1 DEF s, t
        <5>4. CASE word' = Write("payload", s)
          BY <5>3, <5>4
        <5>5. CASE word' = Write("tag", t)
          BY <5>3, <5>5
        <5>6. CASE word' = Write("arm", FALSE)
          BY <5>6
        <5> QED
          BY <5>2, <5>4, <5>5, <5>6, Zenon
      <4> QED
        BY <1>1, <4>2, <4>3, <4>4, <4>5, <4>6, <4>7
    <3> QED
      BY <3>1, <3>2 DEF TypeOK, RegistersType
  <2>3. MasterType'
    BY <1>1 DEF TypeOK, MasterType
  <2> QED
    BY <2>1, <2>2, <2>3 DEF TypeOK
<1>2. CASE Candidate
  <2>1. FlagsType' /\ GateType' /\ ScorerType' /\ RegistersType'
    BY <1>2 DEF Candidate, TypeOK, FlagsType, GateType, ScorerType, RegistersType, pl, regs, gate, scorer
  <2>2. request' \in Requests
    <3>1. PICK g \in Genomes, h \in BOOLEAN :
            request' = Request(IF ~keyLoaded THEN "unprovisioned" ELSE IF key = "K" THEN "signed" ELSE "wrong_key",
                               g, Signed(g), Mac("K", Signed(g), nonce), h)
      BY <1>2 DEF Candidate
    <3>2. (IF ~keyLoaded THEN "unprovisioned" ELSE IF key = "K" THEN "signed" ELSE "wrong_key") \in Kinds
      BY DEF Kinds
    <3> QED
      BY <3>1, <3>2, RequestType, SignedType DEF TypeOK, GateType
  <2> QED
    BY <1>2, <2>1, <2>2 DEF Candidate, TypeOK, MasterType, Goto
<1>3. CASE Control
  <2>1. FlagsType' /\ GateType' /\ ScorerType' /\ RegistersType'
    BY <1>3 DEF Control, Read, TypeOK, FlagsType, GateType, ScorerType, RegistersType, pl, regs, gate, scorer
  <2>2. request' \in Requests
    <3> DEFINE p == Last.request.payload
               q == Signed(Blank)
               t == Mac("K", q, nonce)
               g == Last.request.genome
    <3>1. Last \in Attempt
      BY <1>3 DEF Control, Last, TypeOK, MasterType
    <3>2. p \in Payloads /\ g \in Genomes /\ Last.request.tag \in Tags
      BY <3>1 DEF Attempt, Requests
    <3>3. q \in Payloads /\ t \in Tags /\ Zero \in Tags /\ [commit |-> p.commit, tables |-> q.tables] \in Payloads
      <4>1. q \in Payloads /\ t \in Tags
        BY SignedType DEF TypeOK, GateType
      <4>2. NoPayload \in Payloads
        BY DEF NoPayload, AllZero, Payloads, Tables, Vectors
      <4> QED
        BY <3>2, <4>1, <4>2 DEF Zero, Tags, Payloads
    <3>4. request' \in {Request("unsigned", g, p, Zero, FALSE), Request("replay", g, p, Last.request.tag, FALSE),
                        Request("other_candidate", g, [commit |-> p.commit, tables |-> q.tables], t, FALSE),
                        Request("wrong_table", g, q, t, FALSE)}
      BY <1>3, Zenon DEF Control
    <3> HIDE DEF p, q, t, g
    <3>5. FALSE \in BOOLEAN /\ {"unsigned", "replay", "other_candidate", "wrong_table"} \subseteq Kinds
      BY DEF Kinds
    <3>6. /\ Request("unsigned", g, p, Zero, FALSE) \in Requests
          /\ Request("replay", g, p, Last.request.tag, FALSE) \in Requests
      BY <3>2, <3>3, <3>5, RequestType
    <3>7. /\ Request("other_candidate", g, [commit |-> p.commit, tables |-> q.tables], t, FALSE) \in Requests
          /\ Request("wrong_table", g, q, t, FALSE) \in Requests
      BY <3>2, <3>3, <3>5, RequestType
    <3> QED
      BY <3>4, <3>6, <3>7, Zenon
  <2> QED
    BY <1>3, <2>1, <2>2 DEF Control, Read, TypeOK, MasterType, Goto, pl
<1>4. CASE SkipKey \/ CheckStatus \/ Poll \/ Judge
  <2> USE DEF SkipKey, CheckStatus, Poll, Judge, Read, Goto
  <2>1. FlagsType' /\ GateType' /\ ScorerType' /\ RegistersType'
    BY <1>4 DEF TypeOK, FlagsType, GateType, ScorerType, RegistersType, pl, regs, gate, scorer
  <2>2. fabric' \in Tables /\ request' \in Requests /\ before' \in Nat
    BY <1>4 DEF TypeOK, MasterType, GateType
  <2>3. pc' \in {"boot", "keyed", "ready", "check", "payload", "tag", "strobe", "poll", "judge", "over", "insist"}
    BY <1>4 DEF TypeOK, MasterType
  <2>4. polls' \in 0 .. PollsMax
    BY <1>4 DEF TypeOK, MasterType
  <2>5. status' \in [settled : BOOLEAN, valid : BOOLEAN]
    <3>1. Settled \in BOOLEAN /\ valid \in BOOLEAN
      BY DEF Settled, TypeOK, FlagsType
    <3>2. status \in [settled : BOOLEAN, valid : BOOLEAN]
      BY DEF TypeOK, MasterType
    <3>3. status' = status \/ status' = [settled |-> Settled, valid |-> valid]
      BY <1>4, Zenon
    <3> HIDE DEF Poll, Judge, SkipKey, CheckStatus
    <3> QED
      BY <3>1, <3>2, <3>3
  <2>6. log' \in Seq(Attempt)
    <3>1. log' = log \/ \E o \in Outcomes : Report(o)
      BY <1>4 DEF Outcomes
    <3> QED
      BY <3>1, ReportType DEF TypeOK, MasterType
  <2> QED
    BY <2>1, <2>2, <2>3, <2>4, <2>5, <2>6 DEF TypeOK, MasterType
<1> QED
  BY <1>1, <1>2, <1>3, <1>4 DEF Master

\* Every behaviour of the specification is well typed: the registers, the
\* master's position and its records have their types in every state.
THEOREM TypeCorrect == Spec => []TypeOK
<1>1. ASSUME TypeOK, [Next]_vars PROVE TypeOK'
  <2>1. CASE Next
    BY <1>1, <2>1, ClockType, MasterTypes DEF Next
  <2>2. CASE UNCHANGED vars
    BY <1>1, <2>2 DEF vars, pl, regs, gate, scorer, master, TypeOK, FlagsType, RegistersType, GateType,
                      ScorerType, MasterType
  <2> QED
    BY <1>1, <2>1, <2>2
<1> QED
  BY <1>1, InitType, PTL DEF Spec

-----------------------------------------------------------------------------
(* The interlock.                                                           *)

\* Initially the carrier is quiet and nothing is valid.
LEMMA InitSafe == Init => Safe
BY DEF Init, Safe, BusInv, GateInv, AttemptInv, ScoresOnlyVerified, Quiet, Staging, recovery, Write

\* A clock edge changes nothing in a quiet carrier.
LEMMA QuietStays ==
  ASSUME Quiet, Clock
  PROVE  UNCHANGED gate /\ running' = FALSE
BY DEF Quiet, Clock, Gate, Accepts, GateIdle, GateNoKey, GateStart, GateHash, GateVerified, GateRefused, GateSweep,
       GateMatch, GateMismatch, GateArmed, gate, Scorer, ScorerWithdraw, ScorerStart, ScorerCount, ScorerHold, scorer

\* While the gate or the scorer works, no edge restages the master's payload.
LEMMA StagedStays ==
  ASSUME TypeOK, BusInv, GateInv, Clock, state # "idle" \/ running
  PROVE  UNCHANGED <<payload, tag, key, fabric>>
<1>1. pc \in {"poll", "judge", "over"}
  BY DEF BusInv, GateInv, TypeOK, MasterType, Staging, Quiet
<1>2. bus # "write" \/ word.reg = "arm"
  BY <1>1 DEF BusInv
<1> QED
  BY <1>2 DEF Clock, RegisterFile, Writes

LEMMA ClockBus == ASSUME TypeOK, BusInv, Clock PROVE BusInv'
<1>1. UNCHANGED <<pc, status>>
  BY DEF Clock, master
<1>2. /\ bus' = IF bus = "write" THEN "response" ELSE "free"
      /\ strobe' = (bus = "write" /\ word.reg = "arm")
      /\ word' = word
  BY DEF Clock, RegisterFile, Answered, Writes
<1>3. ASSUME Quiet, pc \notin {"poll", "insist"} PROVE Quiet'
  <2>1. state' = "idle" /\ running' = FALSE
    BY <1>3, QuietStays DEF Quiet, gate
  <2>2. strobe' = FALSE
    BY <1>2, <1>3 DEF BusInv
  <2> QED
    BY <2>1, <2>2 DEF Quiet
<1>4. "poll" \notin Staging /\ "insist" \notin Staging
  BY DEF Staging
<1>5. recovery => recovery'
  BY DEF recovery, Clock, Gate, GateIdle, GateNoKey, GateStart, GateHash, GateVerified, GateRefused, GateSweep,
         GateMatch, GateMismatch, GateArmed, gate
<1> QED
  BY <1>1, <1>2, <1>3, <1>4, <1>5 DEF BusInv

\* The scorer runs after an edge only if the gate armed it or it ran before,
\* and the configuration was valid.
LEMMA ScorerRuns ==
  ASSUME Clock, running'
  PROVE  valid /\ ~recovery /\ (running \/ state = "armed")
BY DEF Clock, Scorer, ScorerWithdraw, ScorerStart, ScorerCount, ScorerHold, scorer

LEMMA ClockGate == ASSUME TypeOK, BusInv, GateInv, Clock PROVE GateInv'
<1>1. ASSUME state # "idle" PROVE UNCHANGED <<payload, tag, key, fabric>>
  BY <1>1, StagedStays
<1>2. fabric' = fabric
  BY DEF Clock
<1>3. nonce \in Nat /\ readout \in Tables /\ fabric \in Tables /\ vec \in Vectors /\ VecCount \in Nat
  BY GateAssumption DEF GateAssumption, TypeOK, GateType, MasterType
<1>4. CASE GateIdle
  BY <1>4, ScorerRuns DEF GateIdle, GateInv, gate, recovery
<1>5. CASE GateNoKey \/ GateStart
  BY <1>5, ScorerRuns DEF GateNoKey, GateStart, Accepts, GateInv, recovery
<1>6. CASE GateHash
  BY <1>1, <1>6, ScorerRuns DEF GateHash, GateInv, recovery
<1>7. CASE GateVerified
  <2>1. tag' = Mac(key', payload', nonce' - 1) /\ commit' = payload'.commit
    BY <1>1, <1>3, <1>7 DEF GateVerified, Authentic
  <2>2. \A v \in 0 .. vec' - 1 : FALSE
    BY <1>7 DEF GateVerified
  <2> QED
    BY <1>7, <2>1, <2>2, ScorerRuns DEF GateVerified, GateInv, recovery
<1>8. CASE GateRefused \/ GateMismatch
  BY <1>8, ScorerRuns DEF GateRefused, GateMismatch, GateInv, recovery
<1>9. CASE GateSweep
  <2>1. tag' = Mac(key', payload', nonce' - 1) /\ commit' = payload'.commit
    BY <1>1, <1>9 DEF GateSweep, GateInv
  <2>2. \A v \in 0 .. vec : readout'[v] = fabric[v]
    BY <1>3, <1>9 DEF GateSweep, GateInv, Tables, Vectors
  <2>3. state' = "sweep" => \A v \in 0 .. vec' - 1 : readout'[v] = fabric'[v]
    BY <1>2, <1>3, <1>9, <2>2 DEF GateSweep, Vectors
  <2>4. state' = "compare" => readout' = fabric'
    <3>1. SUFFICES ASSUME state' = "compare" PROVE readout' = fabric
      BY <1>2
    <3>2. readout' \in Tables
      BY <1>3, <1>9 DEF GateSweep, Tables
    <3>3. \A v \in Vectors : readout'[v] = fabric[v]
      BY <1>3, <1>9, <2>2, <3>1 DEF GateSweep, Vectors
    <3> QED
      BY <1>3, <3>2, <3>3 DEF Tables
  <2> QED
    BY <1>9, <2>1, <2>3, <2>4, ScorerRuns DEF GateSweep, GateInv, recovery
<1>10. CASE GateMatch
  BY <1>1, <1>10, ScorerRuns DEF GateMatch, Matches, GateInv, recovery
<1>11. CASE GateArmed
  BY <1>11 DEF GateArmed, GateInv, recovery
<1> QED
  BY <1>4, <1>5, <1>6, <1>7, <1>8, <1>9, <1>10, <1>11 DEF Clock, Gate

LEMMA ClockScores == ASSUME TypeOK, BusInv, GateInv, ScoresOnlyVerified, Clock PROVE ScoresOnlyVerified'
<1>1. SUFFICES ASSUME running' PROVE /\ ~recovery' /\ valid'
                                     /\ tag' = Mac(key', payload', nonce' - 1)
                                     /\ commit' = payload'.commit
                                     /\ fabric' = payload'.tables
  BY DEF ScoresOnlyVerified
<1>2. valid /\ ~recovery /\ (running \/ state = "armed")
  BY <1>1, ScorerRuns
<1>3. UNCHANGED <<payload, tag, key, fabric>>
  BY <1>2, StagedStays
<1>4. CASE state = "armed"
  <2>1. UNCHANGED <<nonce, commit, valid, fault>>
    BY <1>4 DEF Clock, Gate, GateIdle, GateNoKey, GateStart, GateHash, GateVerified, GateRefused, GateSweep,
                GateMatch, GateMismatch, GateArmed, Accepts, gate
  <2> QED
    BY <1>2, <1>3, <1>4, <2>1 DEF GateInv, recovery
<1>5. CASE running /\ state # "armed"
  <2>1. state = "idle" /\ ~Accepts
    BY <1>5 DEF GateInv, Accepts
  <2>2. UNCHANGED gate
    BY <2>1 DEF Clock, Gate, GateIdle, GateNoKey, GateStart, GateHash, GateVerified, GateRefused, GateSweep,
                GateMatch, GateMismatch, GateArmed
  <2> QED
    BY <1>3, <1>5, <2>2 DEF ScoresOnlyVerified, gate, recovery
<1> QED
  BY <1>2, <1>4, <1>5

LEMMA ClockAttempt == ASSUME TypeOK, BusInv, GateInv, AttemptInv, Clock PROVE AttemptInv'
<1>1. UNCHANGED <<pc, status, before>>
  BY DEF Clock, master
<1>2. bus' # "write" /\ strobe' = (bus = "write" /\ word.reg = "arm")
  BY DEF Clock, RegisterFile, Answered, Writes
<1>3. nonce \in Nat /\ before \in Nat /\ valid \in BOOLEAN
  BY DEF TypeOK, GateType, MasterType, FlagsType
<1>4. CASE Quiet
  <2>1. UNCHANGED gate /\ running' = FALSE
    BY <1>4, QuietStays
  <2>2. state' = "idle" /\ nonce' = nonce /\ valid' = valid /\ recovery' = recovery
    BY <1>4, <2>1 DEF Quiet, gate, recovery
  <2>3. pc = "poll" /\ bus = "write" => word.reg = "arm"
    BY DEF BusInv
  <2> QED
    BY <1>1, <1>2, <1>4, <2>1, <2>2, <2>3 DEF AttemptInv, Quiet
<1>5. CASE ~Quiet
  <2>1. pc \in {"poll", "judge", "over", "insist"} /\ ~(pc = "judge" /\ status.settled)
    BY <1>5 DEF BusInv, TypeOK, MasterType, Staging
  <2>2. SUFFICES ASSUME pc = "poll" PROVE AttemptInv'
    BY <1>1, <2>1 DEF AttemptInv
  <2>3. CASE GateIdle
    <3>1. state = "idle" /\ ~Accepts /\ UNCHANGED <<state, nonce, valid, fault>>
      BY <2>3 DEF GateIdle, gate
    <3>2. ~strobe
      BY <2>2, <3>1 DEF AttemptInv, Accepts
    <3>3. bus # "write"
      BY <1>5, <2>2, <3>1, <3>2 DEF AttemptInv, Quiet
    <3> QED
      BY <1>1, <1>2, <2>2, <3>1, <3>2, <3>3 DEF AttemptInv, recovery
  <2>4. CASE GateNoKey
    BY <1>1, <1>2, <1>3, <2>2, <2>4 DEF GateNoKey, Accepts, AttemptInv, BusInv, recovery
  <2>5. CASE GateStart
    BY <1>1, <1>2, <1>3, <2>2, <2>5 DEF GateStart, Accepts, AttemptInv, BusInv
  <2>6. CASE GateHash
    BY <1>1, <1>2, <2>2, <2>6 DEF GateHash, AttemptInv, BusInv
  <2>7. CASE GateVerified
    BY <1>1, <1>2, <1>3, <2>2, <2>7 DEF GateVerified, AttemptInv, BusInv
  <2>8. CASE GateRefused
    BY <1>1, <1>2, <1>3, <2>2, <2>8 DEF GateRefused, AttemptInv, BusInv, GateInv, recovery
  <2>9. CASE GateSweep
    BY <1>1, <1>2, <2>2, <2>9 DEF GateSweep, AttemptInv, BusInv
  <2>10. CASE GateMatch
    BY <1>1, <1>2, <2>2, <2>10 DEF GateMatch, AttemptInv, BusInv
  <2>11. CASE GateMismatch
    BY <1>1, <1>2, <1>3, <2>2, <2>11 DEF GateMismatch, AttemptInv, BusInv, GateInv, recovery
  <2>12. CASE GateArmed
    BY <1>1, <1>2, <1>3, <2>2, <2>12 DEF GateArmed, AttemptInv, BusInv, GateInv, recovery
  <2> QED
    BY <2>3, <2>4, <2>5, <2>6, <2>7, <2>8, <2>9, <2>10, <2>11, <2>12 DEF Clock, Gate
<1> QED
  BY <1>4, <1>5

\* A step of the master is no step of the hardware: it starts from a free bus,
\* restages a quiet carrier only, and judges a settled one.
LEMMA MasterSafe == ASSUME TypeOK, Safe, Master PROVE Safe'
<1>1. UNCHANGED <<regs, gate, scorer>> /\ Free
  BY DEF Master, WriteKey, CommitKey, SkipKey, Candidate, Control, CheckStatus, StagePayload, StageTag, Strobe,
         Poll, Judge, Insist, Issue, Read, pl
<1>2. /\ UNCHANGED <<state, sip, vec, nonce, commit, readout, valid, fault, running, payload, tag, key, strobe>>
      /\ bus = "free" /\ ~strobe
  BY <1>1 DEF regs, gate, scorer, Free, Safe, BusInv
<1>3. Quiet' = Quiet /\ recovery' = recovery
  BY <1>2 DEF Quiet, recovery
<1>4. BusInv'
  <2> USE DEF Safe, BusInv, Staging
  <2>1. CASE WriteKey \/ CommitKey \/ StagePayload \/ StageTag
    BY <1>2, <1>3, <2>1 DEF WriteKey, CommitKey, StagePayload, StageTag, Issue, Write, Goto
  <2>2. CASE SkipKey \/ Candidate \/ Control \/ CheckStatus
    BY <1>2, <1>3, <2>2 DEF SkipKey, Candidate, Control, CheckStatus, Read, Goto, pl
  <2>3. CASE Strobe \/ Insist
    BY <1>2, <1>3, <2>3 DEF Strobe, Insist, Issue, Write, Goto
  <2>4. CASE Poll
    <3>1. bus' = bus /\ pc' \in {"judge", "poll"} /\ status' = [settled |-> Settled, valid |-> valid]
      BY <2>4 DEF Poll, Read, Goto, pl
    <3>2. Settled => Quiet
      BY <1>2 DEF Settled, Quiet, busy
    <3> QED
      BY <1>2, <1>3, <3>1, <3>2
  <2>5. CASE Judge
    <3>1. bus' = bus /\ pc = "judge" /\ pc' \in {"ready", "over"} /\ status' = status
      BY <2>5 DEF Judge, Read, Goto, pl
    <3>2. pc' = "ready" => status.settled
      BY <2>5 DEF Judge, Goto
    <3> QED
      BY <1>2, <1>3, <3>1, <3>2
  <2> QED
    BY <2>1, <2>2, <2>3, <2>4, <2>5 DEF Master
<1>5. fabric' = fabric \/ Quiet
  BY DEF Master, WriteKey, CommitKey, SkipKey, Candidate, Control, CheckStatus, StagePayload, StageTag, Strobe,
         Poll, Judge, Insist, Issue, Read, pl, Safe, BusInv, Staging
<1>6. GateInv'
  BY <1>2, <1>3, <1>5 DEF Safe, GateInv, Quiet
<1>7. ScoresOnlyVerified'
  BY <1>2, <1>3, <1>5 DEF Safe, ScoresOnlyVerified, Quiet
<1>8. AttemptInv'
  <2> USE DEF Safe, AttemptInv
  <2>1. CASE WriteKey \/ CommitKey \/ SkipKey \/ Candidate \/ Control
    BY <1>2, <1>3, <2>1 DEF WriteKey, CommitKey, SkipKey, Candidate, Control, Goto
  <2>2. CASE CheckStatus
    BY <1>2, <1>3, <2>2 DEF CheckStatus, Goto
  <2>3. CASE StagePayload \/ StageTag
    BY <1>2, <1>3, <2>3 DEF StagePayload, StageTag, Goto
  <2>7. CASE Insist
    BY <1>2, <1>3, <2>7 DEF Insist, Goto
  <2>4. CASE Strobe
    <3>1. Quiet
      BY <2>4 DEF Strobe, BusInv, Staging
    <3>2. pc = "strobe" /\ pc' = "poll" /\ before' = before
      BY <2>4 DEF Strobe, Goto
    <3>3. nonce = before /\ ~recovery
      BY <3>2
    <3>4. bus' = "write"
      BY <2>4 DEF Strobe, Issue
    <3> QED
      BY <1>2, <1>3, <3>1, <3>2, <3>3, <3>4 DEF Quiet
  <2>5. CASE Poll
    <3>1. bus' = bus /\ pc = "poll" /\ pc' \in {"judge", "poll"} /\ before' = before
          /\ status' = [settled |-> Settled, valid |-> valid]
      BY <2>5 DEF Poll, Read, Goto, pl
    <3>2. Settled => nonce = before + 1 /\ valid = ~recovery
      BY <1>2, <3>1 DEF Settled, busy
    <3> QED
      BY <1>2, <1>3, <3>1, <3>2
  <2>6. CASE Judge
    BY <1>2, <1>3, <2>6 DEF Judge, Goto
  <2> QED
    BY <2>1, <2>2, <2>3, <2>4, <2>5, <2>6, <2>7 DEF Master
<1> QED
  BY <1>4, <1>6, <1>7, <1>8 DEF Safe

\* The inductive invariant holds in every state.
LEMMA Inductive == Spec => []IInv
<1>1. Init => IInv
  BY InitType, InitSafe DEF IInv
<1>2. ASSUME IInv, [Next]_vars PROVE IInv'
  <2>1. CASE Clock
    BY <1>2, <2>1, ClockType, ClockBus, ClockGate, ClockScores, ClockAttempt DEF IInv, Safe
  <2>2. CASE Master
    BY <1>2, <2>2, MasterTypes, MasterSafe DEF IInv
  <2>3. CASE UNCHANGED vars
    <3>1. TypeOK'
      BY <1>2, <2>3 DEF IInv, vars, pl, regs, gate, scorer, master, TypeOK, FlagsType, RegistersType, GateType,
                        ScorerType, MasterType
    <3>2. BusInv' /\ GateInv'
      BY <1>2, <2>3 DEF IInv, Safe, vars, pl, regs, gate, scorer, master, BusInv, GateInv, Quiet, recovery
    <3>3. AttemptInv' /\ ScoresOnlyVerified'
      BY <1>2, <2>3 DEF IInv, Safe, vars, pl, regs, gate, scorer, master, AttemptInv, ScoresOnlyVerified, recovery
    <3> QED
      BY <3>1, <3>2, <3>3 DEF IInv, Safe
  <2> QED
    BY <1>2, <2>1, <2>2, <2>3 DEF Next
<1> QED
  BY <1>1, <1>2, PTL DEF Spec

\* The interlock: whenever the scorer runs, the configuration is the one the
\* gate authenticated for the nonce just consumed, the fabric computes the
\* authenticated tables, and no fault stands.
THEOREM Interlock == Spec => []ScoresOnlyVerified
BY Inductive, PTL DEF IInv, Safe

\* What the bounded settle poll reports as settled is the outcome of the
\* attempt that was strobed, never the latched one of the attempt before.
THEOREM Settling == Spec => []SettledIsThisAttempt
<1>1. IInv => SettledIsThisAttempt
  BY DEF IInv, Safe, AttemptInv, SettledIsThisAttempt
<1> QED
  BY <1>1, Inductive, PTL

\* Once recovery is required, no step moves the gate or starts the scorer.
THEOREM Sticky == Spec => FaultIsFinal
<1>1. ASSUME IInv, [Next]_vars PROVE [recovery => UNCHANGED gate /\ ~running']_vars
  <2>1. SUFFICES ASSUME recovery, Next PROVE UNCHANGED gate /\ ~running'
    BY <1>1
  <2>2. state = "idle" /\ ~running
    BY <1>1, <2>1 DEF IInv, Safe, GateInv
  <2>3. CASE Clock
    <3>1. UNCHANGED gate
      BY <2>1, <2>2, <2>3 DEF Clock, Gate, Accepts, GateIdle, GateNoKey, GateStart, GateHash, GateVerified,
                              GateRefused, GateSweep, GateMatch, GateMismatch, GateArmed
    <3>2. ~running'
      BY <2>1, <2>3, ScorerRuns
    <3> QED
      BY <3>1, <3>2
  <2>4. CASE Master
    <3>1. UNCHANGED <<gate, running>>
      BY <2>4 DEF Master, WriteKey, CommitKey, SkipKey, Candidate, Control, CheckStatus, StagePayload, StageTag,
                  Strobe, Poll, Judge, Insist, Issue, Read, pl, scorer
    <3> QED
      BY <2>2, <3>1
  <2> QED
    BY <2>1, <2>3, <2>4 DEF Next
<1> QED
  BY <1>1, Inductive, PTL DEF Spec, FaultIsFinal

-----------------------------------------------------------------------------
(* The records of the attempts are true: what the master stages of a        *)
(* request is what the gate judges, the gate's answer is the one the kind   *)
(* of the request demands, and each settled attempt took the one nonce that *)
(* its place in the log says.                                               *)

(* The records.  `Attempting`: a request is made and not yet judged.        *)
Attempting == {"check", "payload", "tag", "strobe", "poll", "judge"}

\* The attempt is over and its outcome stands in the registers.
Concluded == state = "idle" /\ bus # "write" /\ ~strobe

\* What the master stages of its request is on the bus or in the registers.
StagedInv ==
  /\ pc \in {"boot", "check", "payload"} => bus = "free"
  /\ pc = "keyed" /\ bus = "write" => word.reg = "key"
  /\ pc = "ready" /\ bus = "write" => word.reg = "commit" /\ log = << >>
  /\ pc = "tag" => IF bus = "write" THEN word = Write("payload", request.payload) ELSE payload = request.payload
  /\ pc \in {"strobe", "poll", "judge"} => payload = request.payload
  /\ pc = "strobe" => IF bus = "write" THEN word = Write("tag", request.tag) ELSE tag = request.tag
  /\ pc \in {"poll", "judge"} => tag = request.tag
  /\ pc = "poll" => IF bus = "write" THEN word = Write("arm", request.holdout) ELSE holdout = request.holdout

\* What each kind of request is, by the end of the records so far.
KindFits ==
  LET r == request IN
  /\ r.kind = "unprovisioned" => ~keyLoaded
  /\ r.kind # "unprovisioned" => keyLoaded /\ (key = "K" <=> r.kind # "wrong_key")
  /\ r.kind = "signed" => r.payload = Signed(r.genome) /\ r.tag = Mac("K", r.payload, Len(log))
  /\ r.kind = "wrong_key" => r.tag.key = "K"
  /\ r.kind = "unsigned" => r.tag.key # "K"
  /\ r.kind = "replay" => r.tag.nonce # Len(log)
  /\ r.kind = "other_candidate" => r.tag.payload # r.payload
  /\ r.kind = "wrong_table" => r.tag = Mac("K", r.payload, Len(log)) /\ fabric # r.payload.tables
RequestInv == pc \in Attempting => KindFits

\* Every record but the last is of a scored candidate.
ScoredRecord(i) ==
  /\ log[i].outcome = "SCORED"
  /\ log[i].request.payload = Signed(log[i].request.genome)
  /\ log[i].request.tag.nonce = i - 1
LogInv ==
  /\ pc \notin {"over", "insist"} => \A i \in DOMAIN log : ScoredRecord(i)
  /\ pc \in {"boot", "keyed"} => log = << >>
  /\ pc \in {"boot", "keyed", "ready", "check"} => nonce = Len(log)
  /\ pc \in Attempting \ {"check"} => before = Len(log)
  /\ pc = "ready" /\ log # << >> => keyLoaded /\ key = "K" /\ fabric = Function[Last.request.genome]

\* How many of the first n steps of a slice score.
Hit(i) == fabric[Order[i]] = Target[Order[i]]
Hits(h, n) == Cardinality({i \in Base(h) .. Base(h) + n - 1 : Hit(i)})

\* What the gate has shown of this attempt by now.
GateShows ==
  /\ state = "verify" /\ sip < SipCycles => ~done
  /\ state \in {"sweep", "compare", "armed"} => ~done
  /\ pc = "poll" /\ state # "idle" => keyLoaded
  /\ pc = "poll" /\ state \in {"sweep", "compare", "armed"} => request.kind \in {"signed", "wrong_table"}
  /\ (pc = "poll" /\ Concluded) \/ (pc = "judge" /\ status.settled) =>
       IF recovery THEN fault = ExpectedFault[request.kind]
       ELSE /\ request.kind = "signed" /\ commit = payload.commit /\ readout = payload.tables /\ fabric = readout
            /\ slice = request.holdout
            /\ running => score = Hits(slice, step)
            /\ done => score = Hits(slice, Count(slice))
  /\ pc = "judge" /\ status.settled => valid = ~recovery /\ (recovery \/ done)
  /\ running => ~done

RecInv == StagedInv /\ RequestInv /\ LogInv /\ GateShows /\ RecordsAreTrue

-----------------------------------------------------------------------------
(* Lemmas about the hardware.                                               *)

\* A slice is scored one vector at a time.
LEMMA HitsStep ==
  ASSUME NEW h \in BOOLEAN, NEW n \in Nat
  PROVE  /\ Hits(h, 0) = 0
         /\ Hits(h, n + 1) = IF Hit(Base(h) + n) THEN Hits(h, n) + 1 ELSE Hits(h, n)
<1> USE GateAssumption DEF GateAssumption
<1> DEFINE b == Base(h)
           S == {i \in b .. b + n - 1 : Hit(i)}
<1>1. b \in Nat
  BY DEF Base
<1>2. Hits(h, 0) = 0
  <2>1. {i \in b .. b + 0 - 1 : Hit(i)} = {}
    BY <1>1
  <2> QED
    BY <2>1, FS_EmptySet DEF Hits
<1>3. IsFiniteSet(S) /\ b + n \notin S
  <2>1. IsFiniteSet(b .. b + n - 1)
    BY <1>1, FS_Interval
  <2> QED
    BY <1>1, <2>1, FS_Subset
<1>4. {i \in b .. b + (n + 1) - 1 : Hit(i)} = IF Hit(b + n) THEN S \cup {b + n} ELSE S
  BY <1>1
<1>5. Hits(h, n + 1) = Cardinality(IF Hit(b + n) THEN S \cup {b + n} ELSE S)
  BY <1>4 DEF Hits
<1>6. Hits(h, n) = Cardinality(S)
  BY DEF Hits
<1>7. Cardinality(S \cup {b + n}) = Cardinality(S) + 1
  BY <1>3, FS_AddElement
<1> QED
  BY <1>2, <1>5, <1>6, <1>7, Zenon

\* The scorer's clock edge.
LEMMA ScorerEdge ==
  ASSUME TypeOK, Clock
  PROVE  /\ ~valid \/ recovery => ~running' /\ ~done'
         /\ valid /\ ~recovery /\ ~running /\ state # "armed" => UNCHANGED scorer
         /\ valid /\ ~recovery /\ ~running /\ state = "armed" =>
              running' /\ ~done' /\ step' = 0 /\ slice' = holdout /\ score' = 0
         /\ valid /\ ~recovery /\ running => ScorerCount
BY DEF TypeOK, FlagsType, Clock, Scorer, ScorerWithdraw, ScorerStart, ScorerCount, ScorerHold

\* The scorer counts the hits of its slice.
LEMMA CountHits ==
  ASSUME TypeOK, ScorerCount, fabric' = fabric, score = Hits(slice, step), ~done
  PROVE  /\ slice' = slice
         /\ running' => score' = Hits(slice, step') /\ ~done'
         /\ done' => score' = Hits(slice, Count(slice)) /\ ~running'
<1> USE GateAssumption DEF GateAssumption
<1>1. slice \in BOOLEAN /\ step \in Nat /\ step <= Count(slice) - 1 /\ running \in BOOLEAN
  BY DEF TypeOK, FlagsType, ScorerType, Count
<1>2. Base(slice) + step \in Vectors
  BY <1>1 DEF Base, Count, Vectors
<1>3. (Base(slice) + step) % VecCount = Base(slice) + step
  <2> DEFINE x == Base(slice) + step
  <2>1. x \in Int /\ 0 <= x /\ x < VecCount /\ VecCount \in Nat
    BY <1>2 DEF Vectors
  <2> HIDE DEF x
  <2>2. x % VecCount = x
    BY <2>1, SMT
  <2> QED
    BY <2>2 DEF x
<1>4. score' = IF Hit(Base(slice) + step) THEN score + 1 ELSE score
  BY <1>3 DEF ScorerCount, Hit
<1>5. score' = Hits(slice, step + 1)
  BY <1>1, <1>4, HitsStep
<1>6. \/ step = Count(slice) - 1 /\ running' = FALSE /\ done' = TRUE
      \/ step' = step + 1 /\ running' = running /\ done' = done
  BY Zenon DEF ScorerCount
<1>7. Count(slice) \in Nat
  BY <1>1 DEF Count
<1>8. slice' = slice
  BY DEF ScorerCount
<1>9. CASE step = Count(slice) - 1 /\ running' = FALSE /\ done' = TRUE
  <2>1. step + 1 = Count(slice)
    BY <1>1, <1>7, <1>9
  <2> QED
    BY <1>5, <1>8, <1>9, <2>1
<1>10. CASE step' = step + 1 /\ running' = running /\ done' = done
  BY <1>5, <1>8, <1>10
<1> QED
  BY <1>6, <1>9, <1>10

\* What a tag of each kind is worth: the gate accepts those of a signed
\* candidate and of a wrong table.
LEMMA AuthenticKinds ==
  ASSUME TypeOK, StagedInv, KindFits, pc = "poll", keyLoaded, nonce = Len(log)
  PROVE  Authentic <=> request.kind \in {"signed", "wrong_table"}
<1>1. payload = request.payload /\ tag = request.tag /\ request \in Requests
  BY DEF StagedInv, TypeOK, MasterType
<1>2. request.kind \in Kinds
  BY <1>1 DEF Requests
<1>3. CASE request.kind \in {"signed", "wrong_table"}
  BY <1>1, <1>3 DEF KindFits, Authentic, Mac
<1>4. CASE request.kind \in {"wrong_key", "unsigned", "replay", "other_candidate"}
  <2>1. Authentic => tag.key = key /\ tag.nonce = nonce /\ tag.payload = payload
    BY DEF Authentic, Mac
  <2> QED
    BY <1>1, <1>4, <2>1 DEF KindFits
<1>5. request.kind # "unprovisioned"
  BY DEF KindFits
<1> QED
  BY <1>2, <1>3, <1>4, <1>5 DEF Kinds

-----------------------------------------------------------------------------
(* A clock edge.                                                            *)

\* The initial state has no request and no record.
LEMMA InitRec == Init => RecInv
<1> SUFFICES ASSUME Init PROVE RecInv
  OBVIOUS
<1>1. pc = "boot" /\ bus = "free" /\ log = << >> /\ nonce = 0 /\ state = "idle" /\ ~running
  BY DEF Init
<1>2. Len(log) = 0 /\ DOMAIN log = {}
  BY <1>1
<1> QED
  BY <1>1, <1>2 DEF RecInv, StagedInv, RequestInv, Attempting, LogInv, GateShows, RecordsAreTrue, ScoredIsSigned,
                    RefusedAsExpected, NonceChain

\* No edge changes what the master has staged, nor the key it was staged for.
LEMMA ClockStaged ==
  ASSUME TypeOK, BusInv, StagedInv, Clock
  PROVE  /\ StagedInv'
         /\ pc \in Attempting => UNCHANGED <<key, keyLoaded>>
         /\ pc = "ready" /\ log # << >> => UNCHANGED <<key, keyLoaded>>
<1>1. UNCHANGED <<pc, request, log>> /\ word' = word /\ bus' # "write"
  BY DEF Clock, master, RegisterFile, Answered
<1>2. bus # "write" => UNCHANGED <<payload, tag, key, keyLoaded, holdout>> /\ bus' = "free"
  BY DEF Clock, RegisterFile, Writes, Answered, TypeOK, FlagsType
<1>3. /\ bus = "write" /\ word.reg = "payload" =>
           payload' = word.value /\ UNCHANGED <<tag, key, keyLoaded, holdout>>
      /\ bus = "write" /\ word.reg = "tag" =>
           tag' = word.value /\ UNCHANGED <<payload, key, keyLoaded, holdout>>
      /\ bus = "write" /\ word.reg = "arm" =>
           holdout' = word.value /\ UNCHANGED <<payload, tag, key, keyLoaded>>
  BY DEF Clock, RegisterFile, Writes, TypeOK, FlagsType
<1>4. pc = "judge" => bus = "free"
  BY DEF BusInv
<1> QED
  BY <1>1, <1>2, <1>3, <1>4 DEF StagedInv, Attempting, Write

\* A clock edge keeps what the request was staged from.
LEMMA ClockRequest ==
  ASSUME TypeOK, BusInv, StagedInv, RequestInv, Clock
  PROVE  RequestInv'
<1>1. UNCHANGED <<pc, request, log, fabric>>
  BY DEF Clock, master
<1>2. pc \in Attempting => UNCHANGED <<key, keyLoaded>>
  BY ClockStaged
<1>3. KindFits /\ pc \in Attempting => KindFits'
  BY <1>1, <1>2 DEF KindFits
<1> QED
  BY <1>1, <1>3 DEF RequestInv, Attempting

\* A clock edge keeps the log and the nonce it counts up to.
LEMMA ClockLog ==
  ASSUME TypeOK, BusInv, StagedInv, LogInv, RecordsAreTrue, Clock
  PROVE  LogInv' /\ RecordsAreTrue'
<1>1. UNCHANGED <<pc, before, request, log, fabric>>
  BY DEF Clock, master
<1>2. pc \in {"boot", "keyed", "ready", "check"} => nonce' = nonce
  BY QuietStays DEF BusInv, Staging, gate
<1>3. pc = "ready" /\ log # << >> => UNCHANGED <<key, keyLoaded>>
  BY ClockStaged
<1>4. LogInv'
  BY <1>1, <1>2, <1>3 DEF LogInv, ScoredRecord, Last
<1>5. RecordsAreTrue'
  BY <1>1 DEF RecordsAreTrue, ScoredIsSigned, RefusedAsExpected, NonceChain
<1> QED
  BY <1>4, <1>5

\* The gate's answer to this attempt, as it comes to stand.
Answer ==
  IF recovery THEN fault = ExpectedFault[request.kind]
  ELSE /\ request.kind = "signed" /\ commit = payload.commit /\ readout = payload.tables /\ fabric = readout
       /\ slice = request.holdout
       /\ running => score = Hits(slice, step)
       /\ done => score = Hits(slice, Count(slice))

\* A clock edge keeps what the gate shows of the attempt.
LEMMA ClockShows ==
  ASSUME IInv, RecInv, Clock
  PROVE  GateShows'
<1> USE GateAssumption DEF GateAssumption
<1>1. UNCHANGED <<pc, request, status, before, log, fabric>>
  BY DEF Clock, master
<1>2. bus' # "write" /\ strobe' = (bus = "write" /\ word.reg = "arm")
  BY DEF Clock, RegisterFile, Answered, Writes
<1>3. TypeOK /\ BusInv /\ GateInv /\ AttemptInv /\ StagedInv /\ LogInv /\ GateShows
  BY DEF IInv, Safe, RecInv
<1>4. valid \in BOOLEAN /\ running \in BOOLEAN /\ done \in BOOLEAN /\ keyLoaded \in BOOLEAN
      /\ state \in {"idle", "verify", "sweep", "compare", "armed"} /\ sip \in 0 .. SipCycles
      /\ nonce \in Nat /\ before \in Nat /\ slice \in BOOLEAN /\ request.kind \in Kinds
  BY <1>3 DEF TypeOK, FlagsType, GateType, MasterType, Requests
<1>5. keyLoaded => keyLoaded'
  BY DEF Clock, RegisterFile
<1>6. /\ state' = "verify" => (state = "idle" /\ strobe /\ ~running /\ keyLoaded /\ sip' = SipCycles) \/ state = "verify"
      /\ state' \in {"sweep", "compare"} => state \in {"verify", "sweep"}
      /\ state' = "armed" => state = "compare"
  BY <1>4 DEF Clock, Gate, GateIdle, GateNoKey, GateStart, GateHash, GateVerified, GateRefused, GateSweep, GateMatch,
              GateMismatch, GateArmed, Accepts, gate
<1>7. state \in {"verify", "sweep", "compare"} => ~running' /\ ~done'
  BY <1>3, ScorerEdge DEF GateInv
<1>8. state' = "verify" /\ sip' < SipCycles => ~done'
  BY <1>4, <1>6, <1>7
<1>9. state' \in {"sweep", "compare", "armed"} => ~done'
  BY <1>4, <1>6, <1>7
<1>10. pc = "poll" /\ state' # "idle" => keyLoaded'
  <2>1. state' \in {"idle", "verify", "sweep", "compare", "armed"}
    BY <1>3, ClockType DEF TypeOK, GateType
  <2> QED
    BY <1>3, <1>5, <1>6, <2>1 DEF GateShows
<1>11. ASSUME pc = "poll", state = "verify" PROVE Authentic <=> request.kind \in {"signed", "wrong_table"}
  <2>1. keyLoaded /\ nonce = Len(log) /\ KindFits
    BY <1>3, <1>11 DEF GateShows, AttemptInv, LogInv, Attempting, RecInv, RequestInv
  <2> QED
    BY <1>3, <1>11, <2>1, AuthenticKinds
<1>12. pc = "poll" /\ state' \in {"sweep", "compare", "armed"} => request.kind \in {"signed", "wrong_table"}
  <2>1. state = "verify" /\ state' = "sweep" => Authentic
    BY DEF Clock, Gate, GateIdle, GateNoKey, GateStart, GateHash, GateVerified, GateRefused, GateSweep, GateMatch,
           GateMismatch, GateArmed, gate
  <2>2. state = "verify" /\ state' \in {"sweep", "compare"} => state' = "sweep"
    BY DEF Clock, Gate, GateIdle, GateNoKey, GateStart, GateHash, GateVerified, GateRefused, GateSweep, GateMatch,
           GateMismatch, GateArmed, gate
  <2> QED
    BY <1>3, <1>6, <1>11, <2>1, <2>2 DEF GateShows
<1>13. running' => ~done'
  <2>1. CASE valid /\ ~recovery /\ running
    <3>1. ScorerCount /\ ~done
      BY <1>3, <2>1, ScorerEdge DEF GateShows
    <3> QED
      BY <3>1, Zenon DEF ScorerCount
  <2>2. CASE ~valid \/ recovery
    BY <1>3, <2>2, ScorerEdge
  <2>3. CASE valid /\ ~recovery /\ ~running
    BY <1>3, <2>3, ScorerEdge DEF scorer
  <2> QED
    BY <1>4, <2>1, <2>2, <2>3
<1>14. ASSUME pc = "judge", status.settled
       PROVE  Answer' /\ valid' = ~recovery' /\ (recovery' \/ done')
  <2>1. Quiet /\ bus = "free" /\ payload' = payload
    BY <1>3, <1>14 DEF BusInv, Clock, RegisterFile, Writes
  <2>2. UNCHANGED <<state, valid, fault, commit, readout>> /\ running' = FALSE
    BY <2>1, QuietStays DEF gate
  <2>3. Answer /\ valid = ~recovery /\ (recovery \/ done)
    BY <1>3, <1>14 DEF GateShows, Answer
  <2>4. CASE recovery
    BY <1>1, <2>2, <2>3, <2>4 DEF Answer, recovery
  <2>5. CASE ~recovery
    <3>1. UNCHANGED <<running, done, step, slice, score>>
      BY <1>3, <2>1, <2>3, <2>5, ScorerEdge DEF Quiet, scorer
    <3>2. recovery' = recovery
      BY <2>2 DEF recovery
    <3>3. Answer'
      BY <1>1, <2>1, <2>2, <2>3, <2>5, <3>1, <3>2 DEF Answer, Hits, Hit
    <3> QED
      BY <2>2, <2>3, <2>5, <3>1, <3>2, <3>3
  <2> QED
    BY <2>4, <2>5
<1>15. ASSUME pc = "poll", Concluded' PROVE Answer'
  <2>1. bus # "write" /\ state' = "idle"
    BY <1>2, <1>3, <1>15 DEF Concluded, BusInv
  <2>2. payload = request.payload /\ payload' = payload /\ holdout = request.holdout
    BY <1>3, <1>15, <2>1 DEF StagedInv, Clock, RegisterFile, Writes
  <2>3. KindFits
    BY <1>15 DEF RecInv, RequestInv, Attempting
  <2>4. CASE state = "idle" /\ strobe
    <3>1. Accepts
      BY <1>3, <1>15, <2>4 DEF AttemptInv, Accepts
    <3>2. GateNoKey
      BY <2>1, <3>1, <2>4 DEF Clock, Gate, GateIdle, GateNoKey, GateStart, GateHash, GateVerified, GateRefused,
                              GateSweep, GateMatch, GateMismatch, GateArmed
    <3>3. request.kind = "unprovisioned" /\ fault' = "NOKEY"
      BY <1>4, <2>3, <3>2 DEF GateNoKey, KindFits, Kinds
    <3> QED
      BY <1>1, <3>3 DEF Answer, recovery, ExpectedFault
  <2>5. CASE state = "idle" /\ ~strobe
    <3>1. Answer /\ valid = ~recovery
      BY <1>3, <1>15, <2>1, <2>5 DEF GateShows, Concluded, Answer, AttemptInv
    <3>2. UNCHANGED <<state, valid, fault, commit, readout>>
      BY <2>5 DEF Clock, Gate, GateIdle, GateNoKey, GateStart, GateHash, GateVerified, GateRefused, GateSweep,
                  GateMatch, GateMismatch, GateArmed, Accepts, gate
    <3>3. CASE recovery
      BY <1>1, <3>1, <3>2, <3>3 DEF Answer, recovery
    <3>4. CASE ~recovery /\ running
      <4>1. ScorerCount /\ ~done /\ score = Hits(slice, step)
        BY <1>3, <3>1, <3>4, ScorerEdge DEF GateShows, Answer
      <4>2. /\ slice' = slice
            /\ running' => score' = Hits(slice, step')
            /\ done' => score' = Hits(slice, Count(slice))
        BY <1>1, <1>3, <4>1, CountHits
      <4>3. ~recovery'
        BY <3>2, <3>4 DEF recovery
      <4> QED
        BY <1>1, <2>2, <3>1, <3>2, <3>4, <4>2, <4>3 DEF Answer, Hits, Hit
    <3>5. CASE ~recovery /\ ~running
      <4>1. UNCHANGED <<running, done, step, slice, score>>
        BY <1>3, <2>5, <3>1, <3>5, ScorerEdge DEF scorer
      <4>2. ~recovery'
        BY <3>2, <3>5 DEF recovery
      <4> QED
        BY <1>1, <2>2, <3>1, <3>2, <3>5, <4>1, <4>2 DEF Answer, Hits, Hit
    <3> QED
      BY <3>3, <3>4, <3>5
  <2>6. CASE state = "verify"
    <3>1. GateRefused
      BY <2>1, <2>6 DEF Clock, Gate, GateIdle, GateNoKey, GateStart, GateHash, GateVerified, GateRefused, GateSweep,
                        GateMatch, GateMismatch, GateArmed
    <3>2. request.kind \in {"wrong_key", "unsigned", "replay", "other_candidate"}
      <4>1. request.kind \notin {"signed", "wrong_table"}
        BY <1>11, <1>15, <2>6, <3>1 DEF GateRefused
      <4>2. request.kind # "unprovisioned"
        BY <1>3, <1>15, <2>3, <2>6 DEF GateShows, KindFits
      <4> QED
        BY <1>4, <4>1, <4>2 DEF Kinds
    <3> QED
      BY <1>1, <3>1, <3>2 DEF GateRefused, Answer, recovery, ExpectedFault
  <2>7. CASE state \in {"sweep", "compare"}
    <3>1. GateMismatch
      BY <2>1, <2>7 DEF Clock, Gate, GateIdle, GateNoKey, GateStart, GateHash, GateVerified, GateRefused, GateSweep,
                        GateMatch, GateMismatch, GateArmed
    <3>2. request.kind \in {"signed", "wrong_table"}
      BY <1>3, <1>15, <2>7 DEF GateShows
    <3> QED
      BY <1>1, <3>1, <3>2 DEF GateMismatch, Answer, recovery, ExpectedFault
  <2>8. CASE state = "armed"
    <3>1. UNCHANGED <<fault, commit, readout>>
      BY <2>1, <2>8 DEF Clock, Gate, GateIdle, GateNoKey, GateStart, GateHash, GateVerified, GateRefused, GateSweep,
                        GateMatch, GateMismatch, GateArmed, Accepts, gate
    <3>2. ~recovery /\ ~running /\ valid /\ commit = payload.commit /\ readout = payload.tables /\ fabric = readout
      BY <1>3, <2>8 DEF GateInv
    <3>3. request.kind = "signed"
      <4>1. request.kind \in {"signed", "wrong_table"}
        BY <1>3, <1>15, <2>8 DEF GateShows
      <4> QED
        BY <2>2, <2>3, <3>2, <4>1 DEF KindFits
    <3>4. running' /\ ~done' /\ step' = 0 /\ slice' = holdout /\ score' = 0
      BY <1>3, <2>8, <3>2, ScorerEdge
    <3>5. holdout \in BOOLEAN
      BY <1>3 DEF TypeOK, FlagsType
    <3>6. Hits(holdout, 0) = 0
      BY <3>5, HitsStep
    <3>7. score' = Hits(slice', step')
      BY <3>4, <3>6
    <3>8. ~recovery'
      BY <3>1, <3>2 DEF recovery
    <3> QED
      BY <1>1, <2>2, <3>1, <3>2, <3>3, <3>4, <3>7, <3>8 DEF Answer, Hits, Hit
  <2> QED
    BY <1>4, <2>4, <2>5, <2>6, <2>7, <2>8
<1> QED
  BY <1>1, <1>8, <1>9, <1>10, <1>12, <1>13, <1>14, <1>15 DEF GateShows, Answer

-----------------------------------------------------------------------------
(* A step of the master.                                                    *)

\* The master moves on a free bus and moves no register.
LEMMA MasterAccess ==
  ASSUME IInv, Master
  PROVE  /\ UNCHANGED <<regs, gate, scorer>> /\ bus = "free" /\ ~strobe
         /\ recovery' = recovery
<1>1. UNCHANGED <<regs, gate, scorer>> /\ Free
  BY DEF Master, WriteKey, CommitKey, SkipKey, Candidate, Control, CheckStatus, StagePayload, StageTag, Strobe,
         Poll, Judge, Insist, Issue, Read, pl
<1>2. ~strobe
  BY <1>1 DEF Free, IInv, Safe, BusInv
<1> QED
  BY <1>1, <1>2 DEF Free, gate, recovery

\* What the master stages next is of its own request.
LEMMA MasterStaged == ASSUME IInv, RecInv, Master PROVE StagedInv'
<1>1. /\ UNCHANGED <<payload, tag, holdout>> /\ bus = "free"
      /\ StagedInv /\ LogInv
  BY MasterAccess DEF regs, RecInv
<1> USE DEF StagedInv
<1>2. CASE WriteKey \/ CommitKey
  BY <1>1, <1>2 DEF WriteKey, CommitKey, Issue, Write, Goto, LogInv
<1>3. CASE SkipKey \/ Candidate \/ Control \/ CheckStatus
  BY <1>1, <1>3 DEF SkipKey, Candidate, Control, CheckStatus, Read, Goto, pl
<1>4. CASE StagePayload \/ StageTag \/ Strobe
  BY <1>1, <1>4 DEF StagePayload, StageTag, Strobe, Issue, Goto
<1>5. CASE Poll
  <2>1. bus' = "free" /\ pc = "poll" /\ pc' \in {"poll", "judge"} /\ request' = request
    BY <1>1, <1>5 DEF Poll, Read, Goto, pl
  <2> QED
    BY <1>1, <2>1
<1>6. CASE Judge
  <2>1. bus' = "free" /\ pc' \in {"ready", "over"}
    BY <1>1, <1>6 DEF Judge, Read, Goto, pl
  <2> QED
    BY <2>1
<1>7. CASE Insist
  BY <1>7 DEF Insist, Goto
<1> QED
  BY <1>2, <1>3, <1>4, <1>5, <1>6, <1>7 DEF Master

\* A candidate is of the kind its key makes it.
LEMMA CandidateFits ==
  ASSUME IInv, RecInv, Candidate
  PROVE  KindFits'
<1>1. nonce = Len(log) /\ key \in {"none", "K", "other"}
  BY DEF Candidate, RecInv, LogInv, IInv, TypeOK, RegistersType
<1>2. UNCHANGED <<key, keyLoaded, log>>
  BY DEF Candidate, pl, regs
<1>3. PICK g \in Genomes, h \in BOOLEAN :
        request' = Request(IF ~keyLoaded THEN "unprovisioned" ELSE IF key = "K" THEN "signed" ELSE "wrong_key",
                           g, Signed(g), Mac("K", Signed(g), nonce), h)
  BY DEF Candidate
<1> DEFINE k == IF ~keyLoaded THEN "unprovisioned" ELSE IF key = "K" THEN "signed" ELSE "wrong_key"
<1>4. /\ request'.kind = k /\ request'.genome = g /\ request'.payload = Signed(g)
      /\ request'.tag = Mac("K", Signed(g), nonce) /\ request'.tag.key = "K"
  BY <1>3 DEF Request, Mac
<1> QED
  BY <1>1, <1>2, <1>4 DEF KindFits

\* A control is bad in the way its kind says.
LEMMA ControlFits ==
  ASSUME IInv, RecInv, Control
  PROVE  KindFits'
<1> DEFINE g == Last.request.genome
           p == Last.request.payload
           q == Signed(Blank)
           t == Mac("K", q, nonce)
<1>1. /\ pc = "ready" /\ log # << >> /\ log \in Seq(Attempt)
      /\ nonce = Len(log) /\ keyLoaded /\ key = "K" /\ fabric = Function[g]
  BY DEF Control, RecInv, LogInv, IInv, TypeOK, MasterType
<1>2. UNCHANGED <<key, keyLoaded, log, fabric>>
  BY DEF Control, Read, pl, regs
<1>3. p = Signed(g) /\ Last.request.tag.nonce = Len(log) - 1
  <2>1. Len(log) \in DOMAIN log
    BY <1>1
  <2>2. ScoredRecord(Len(log))
    BY <1>1, <2>1 DEF RecInv, LogInv
  <2> QED
    BY <2>2 DEF ScoredRecord, Last
<1>4. \/ request' = Request("unsigned", g, p, Zero, FALSE)
      \/ request' = Request("replay", g, p, Last.request.tag, FALSE)
      \/ /\ Function[Blank] # Function[g]
         /\ \/ request' = Request("other_candidate", g, [commit |-> p.commit, tables |-> q.tables], t, FALSE)
            \/ request' = Request("wrong_table", g, q, t, FALSE)
  BY Zenon DEF Control
<1> HIDE DEF p, t
<1>5. CASE request' = Request("unsigned", g, p, Zero, FALSE)
  <2>1. request'.kind = "unsigned" /\ request'.tag.key = "zero"
    BY <1>5 DEF Request, Zero
  <2> QED
    BY <1>1, <1>2, <2>1 DEF KindFits
<1>6. CASE request' = Request("replay", g, p, Last.request.tag, FALSE)
  <2>1. request'.kind = "replay" /\ request'.tag.nonce = Len(log) - 1
    BY <1>3, <1>6 DEF Request
  <2>2. Len(log) - 1 # Len(log)
    BY <1>1
  <2> QED
    BY <1>1, <1>2, <2>1, <2>2 DEF KindFits
<1>7. CASE /\ Function[Blank] # Function[g]
           /\ request' = Request("other_candidate", g, [commit |-> p.commit, tables |-> q.tables], t, FALSE)
  <2>1. /\ request'.kind = "other_candidate" /\ request'.tag = t
        /\ request'.payload = [commit |-> p.commit, tables |-> q.tables]
    BY <1>7 DEF Request
  <2>2. p.commit = g /\ g # Blank
    BY <1>3, <1>7 DEF Signed
  <2>3. t.payload.commit = Blank
    BY DEF t, Mac, Signed
  <2>4. request'.tag.payload # request'.payload
    BY <2>1, <2>2, <2>3
  <2> QED
    BY <1>1, <1>2, <2>1, <2>4 DEF KindFits
<1>8. CASE /\ Function[Blank] # Function[g]
           /\ request' = Request("wrong_table", g, q, t, FALSE)
  <2>1. request'.kind = "wrong_table" /\ request'.tag = Mac("K", request'.payload, Len(log)) /\ request'.payload = q
    BY <1>1, <1>8 DEF Request, t
  <2>2. q.tables = Function[Blank]
    BY DEF Signed
  <2>3. fabric # request'.payload.tables
    BY <1>1, <1>8, <2>1, <2>2
  <2> QED
    BY <1>1, <1>2, <2>1, <2>3 DEF KindFits
<1> QED
  BY <1>4, <1>5, <1>6, <1>7, <1>8

\* The request in progress stays what it was made.
LEMMA MasterRequest == ASSUME IInv, RecInv, Master PROVE RequestInv'
<1>1. UNCHANGED <<key, keyLoaded>> /\ RequestInv
  BY MasterAccess DEF regs, RecInv
<1>2. CASE WriteKey \/ CommitKey \/ SkipKey \/ Insist
  BY <1>2 DEF WriteKey, CommitKey, SkipKey, Insist, Goto, RequestInv, Attempting
<1>3. CASE Candidate
  BY <1>3, CandidateFits DEF RequestInv
<1>4. CASE Control
  BY <1>4, ControlFits DEF RequestInv
<1>5. CASE CheckStatus \/ StagePayload \/ StageTag \/ Strobe \/ Poll
  <2>1. pc \in Attempting /\ UNCHANGED <<request, fabric>>
    BY <1>5 DEF CheckStatus, StagePayload, StageTag, Strobe, Poll, Issue, Read, Attempting
  <2>2. pc' \in Attempting => log' = log
    BY <1>5 DEF CheckStatus, StagePayload, StageTag, Strobe, Poll, Goto, Attempting
  <2>3. KindFits /\ pc' \in Attempting => KindFits'
    BY <1>1, <2>1, <2>2 DEF KindFits
  <2> QED
    BY <1>1, <2>1, <2>3 DEF RequestInv, Attempting
<1>6. CASE Judge
  <2>1. pc' \in {"ready", "over"}
    BY <1>6 DEF Judge, Goto
  <2> QED
    BY <2>1 DEF RequestInv, Attempting
<1> QED
  BY <1>2, <1>3, <1>4, <1>5, <1>6 DEF Master

\* No step of the master changes what the gate shows of the attempt; a poll
\* that finds it settled finds it concluded.
LEMMA MasterShows == ASSUME IInv, RecInv, Master PROVE GateShows'
<1>1. /\ UNCHANGED <<regs, gate, scorer>> /\ bus = "free" /\ ~strobe
      /\ recovery' = recovery
  BY MasterAccess
<1>2. /\ UNCHANGED <<state, sip, valid, fault, commit, readout, keyLoaded, payload>>
      /\ UNCHANGED <<running, done, step, slice, score>>
  BY <1>1 DEF regs, gate, scorer
<1>3. BusInv /\ AttemptInv /\ GateShows
  BY DEF IInv, Safe, RecInv
<1>4. CASE WriteKey \/ CommitKey \/ SkipKey \/ Candidate \/ Control \/ CheckStatus \/ StagePayload \/ StageTag
           \/ Judge \/ Insist
  <2>1. pc' \notin {"poll", "judge"}
    BY <1>4 DEF WriteKey, CommitKey, SkipKey, Candidate, Control, CheckStatus, StagePayload, StageTag, Judge,
                Insist, Goto
  <2> QED
    BY <1>2, <1>3, <2>1 DEF GateShows
<1>5. CASE Strobe
  <2>1. pc' = "poll" /\ bus' = "write" /\ state = "idle"
    BY <1>3, <1>5 DEF Strobe, Issue, Goto, BusInv, Staging, Quiet
  <2>2. ~Concluded' /\ state' = "idle"
    BY <1>2, <2>1 DEF Concluded
  <2> QED
    BY <1>2, <1>3, <2>1, <2>2 DEF GateShows
<1>6. CASE Poll
  <2>1. /\ pc = "poll" /\ pc' \in {"poll", "judge"} /\ UNCHANGED <<request, fabric, bus, strobe>>
        /\ status' = [settled |-> Settled, valid |-> valid]
    BY <1>6 DEF Poll, Read, Goto, pl, regs
  <2>2. Settled => Concluded
    BY <1>1 DEF Settled, Concluded, busy
  <2>3. Concluded' = Concluded
    BY <1>2, <2>1 DEF Concluded
  <2>4. Concluded => Answer
    BY <1>3, <2>1 DEF GateShows, Answer
  <2>5. Answer => Answer'
    BY <1>1, <1>2, <2>1 DEF Answer, Hits, Hit
  <2>6. (pc' = "poll" /\ Concluded') \/ (pc' = "judge" /\ status'.settled) => Answer'
    BY <2>1, <2>2, <2>3, <2>4, <2>5
  <2>7. pc' = "judge" /\ status'.settled => valid' = ~recovery' /\ (recovery' \/ done')
    <3>1. Settled => valid = ~recovery /\ (recovery \/ done)
      BY <1>1, <1>3, <2>1 DEF Settled, busy, AttemptInv
    <3> QED
      BY <1>1, <1>2, <2>1, <3>1
  <2>8. /\ state' = "verify" /\ sip' < SipCycles => ~done'
        /\ state' \in {"sweep", "compare", "armed"} => ~done'
        /\ pc' = "poll" /\ state' # "idle" => keyLoaded'
        /\ pc' = "poll" /\ state' \in {"sweep", "compare", "armed"} => request'.kind \in {"signed", "wrong_table"}
        /\ running' => ~done'
    BY <1>2, <1>3, <2>1 DEF GateShows
  <2> QED
    BY <2>6, <2>7, <2>8 DEF GateShows, Answer
<1> QED
  BY <1>4, <1>5, <1>6 DEF Master

-----------------------------------------------------------------------------
(* The records.                                                             *)

\* What one record says is so.
RecordIsTrue(r, i) ==
  /\ r.outcome = "SCORED" =>
       /\ r.request.kind = "signed"
       /\ r.commit = r.request.genome
       /\ r.readout = Function[r.request.genome]
       /\ r.score = Predicted(Function[r.request.genome], r.request.holdout)
  /\ r.outcome = "REFUSED_BY_PL" => r.fault = ExpectedFault[r.request.kind]
  /\ r.outcome \in {"SCORED", "REFUSED_BY_PL"} => r.before = i - 1 /\ r.after = i
  /\ r.outcome # "STOP_AXI" => r.before = i - 1

\* The records are true when each of them is.
LEMMA RecordByRecord == RecordsAreTrue <=> \A i \in DOMAIN log : RecordIsTrue(log[i], i)
BY DEF RecordsAreTrue, ScoredIsSigned, RefusedAsExpected, NonceChain, RecordIsTrue

\* Appending a true record keeps the records true.
LEMMA Appended ==
  ASSUME RecordsAreTrue, log \in Seq(Attempt), NEW r, log' = Append(log, r), RecordIsTrue(r, Len(log) + 1)
  PROVE  RecordsAreTrue'
<1>1. \A i \in DOMAIN log : RecordIsTrue(log[i], i)
  BY RecordByRecord
<1>2. \A i \in DOMAIN log' : (i \in DOMAIN log /\ log'[i] = log[i]) \/ (i = Len(log) + 1 /\ log'[i] = r)
  OBVIOUS
<1>3. \A i \in DOMAIN log' : RecordIsTrue(log'[i], i)
  BY <1>1, <1>2
<1> QED
  BY <1>3 DEF RecordsAreTrue, ScoredIsSigned, RefusedAsExpected, NonceChain, RecordIsTrue

\* The record the master makes of its attempt.
Entry(o) ==
  [request |-> request, outcome |-> o, before |-> before, after |-> nonce,
   fault |-> fault, commit |-> commit, readout |-> readout, score |-> score]

\* A candidate judged scored is the signed one, and the fabric computes it.
LEMMA ScoredAttempt ==
  ASSUME IInv, RecInv, pc = "judge", status.settled, status.valid
  PROVE  /\ request.kind = "signed" /\ keyLoaded /\ key = "K" /\ nonce = Len(log) + 1
         /\ request.payload = Signed(request.genome) /\ request.tag.nonce = Len(log)
         /\ commit = request.genome /\ readout = Function[request.genome] /\ fabric = Function[request.genome]
         /\ score = Predicted(Function[request.genome], request.holdout)
<1>1. ~recovery /\ nonce = before + 1 /\ before = Len(log)
  BY DEF IInv, Safe, AttemptInv, RecInv, LogInv, Attempting
<1>2. /\ request.kind = "signed" /\ commit = payload.commit /\ readout = payload.tables /\ fabric = readout
      /\ slice = request.holdout /\ score = Hits(slice, Count(slice))
  BY <1>1 DEF RecInv, GateShows
<1>3. payload = request.payload /\ KindFits
  BY DEF RecInv, StagedInv, RequestInv, Attempting
<1>4. /\ keyLoaded /\ key = "K" /\ request.payload = Signed(request.genome)
      /\ request.tag.nonce = Len(log)
  BY <1>2, <1>3 DEF KindFits, Mac
<1>5. payload.commit = request.genome /\ payload.tables = Function[request.genome]
  BY <1>3, <1>4 DEF Signed
<1>6. Hits(slice, Count(slice)) = Predicted(Function[request.genome], request.holdout)
  BY <1>2, <1>5 DEF Hits, Hit, Count, Predicted
<1> QED
  BY <1>1, <1>2, <1>4, <1>5, <1>6

\* An attempt judged refused shows the fault of its kind.
LEMMA RefusedAttempt ==
  ASSUME IInv, RecInv, pc = "judge", status.settled, ~status.valid
  PROVE  fault = ExpectedFault[request.kind]
<1>1. recovery
  BY DEF IInv, Safe, AttemptInv
<1> QED
  BY <1>1 DEF RecInv, GateShows

\* What a judgement appends, and where it goes on.
LEMMA Judged ==
  ASSUME IInv, RecInv, Judge
  PROVE  \E o \in Outcomes :
           /\ log' = Append(log, Entry(o)) /\ pc' = IF o = "SCORED" THEN "ready" ELSE "over"
           /\ o = "SCORED" => status.settled /\ status.valid
           /\ o = "REFUSED_BY_PL" => status.settled /\ ~status.valid
<1> DEFINE o == IF ~status.settled THEN "STOP_SETTLE"
                ELSE IF nonce = before THEN "STOP_ARM"
                ELSE IF ~status.valid THEN "REFUSED_BY_PL"
                ELSE "SCORED"
<1>1. status.settled \in BOOLEAN /\ status.valid \in BOOLEAN
  BY DEF IInv, TypeOK, MasterType
<1>2. status.settled => nonce # before
  BY DEF Judge, IInv, Safe, AttemptInv, TypeOK, GateType, MasterType
<1>3. o = IF ~status.settled THEN "STOP_SETTLE" ELSE IF ~status.valid THEN "REFUSED_BY_PL" ELSE "SCORED"
  BY <1>1, <1>2
<1>4. Report(o) /\ Goto(IF o = "SCORED" THEN "ready" ELSE "over")
  BY DEF Judge
<1> HIDE DEF o
<1>5. o \in Outcomes
  BY <1>3 DEF Outcomes
<1>6. log' = Append(log, Entry(o)) /\ pc' = IF o = "SCORED" THEN "ready" ELSE "over"
  BY <1>4, Zenon DEF Report, Entry, Goto
<1> QED
  BY <1>3, <1>5, <1>6

\* The master's books: what it appends is true, and a session that goes on
\* has only scored candidates behind it.
LEMMA JudgeKeeps ==
  ASSUME IInv, RecInv, Judge
  PROVE  LogInv' /\ RecordsAreTrue'
<1>1. PICK o \in Outcomes :
        /\ log' = Append(log, Entry(o)) /\ pc' = IF o = "SCORED" THEN "ready" ELSE "over"
        /\ o = "SCORED" => status.settled /\ status.valid
        /\ o = "REFUSED_BY_PL" => status.settled /\ ~status.valid
  BY Judged
<1>2. pc = "judge" /\ UNCHANGED <<pl, fabric, request, before>>
  BY DEF Judge, Read
<1>3. log \in Seq(Attempt) /\ before = Len(log) /\ \A i \in DOMAIN log : ScoredRecord(i)
  BY <1>2 DEF IInv, TypeOK, MasterType, RecInv, LogInv, Attempting
<1>4. /\ Entry(o).outcome = o /\ Entry(o).request = request /\ Entry(o).before = before /\ Entry(o).after = nonce
      /\ Entry(o).fault = fault /\ Entry(o).commit = commit /\ Entry(o).readout = readout /\ Entry(o).score = score
  BY DEF Entry
<1>5. UNCHANGED <<keyLoaded, key, nonce, fabric>>
  BY <1>2 DEF pl, regs, gate
<1>6. RecordIsTrue(Entry(o), Len(log) + 1)
  <2>1. Len(log) \in Nat
    BY <1>3
  <2>2. CASE o = "SCORED"
    BY <1>1, <1>2, <1>3, <1>4, <2>1, <2>2, ScoredAttempt DEF RecordIsTrue
  <2>3. CASE o = "REFUSED_BY_PL"
    <3>1. nonce = before + 1
      BY <1>1, <1>2, <2>3 DEF IInv, Safe, AttemptInv
    <3> QED
      BY <1>1, <1>2, <1>3, <1>4, <2>1, <2>3, <3>1, RefusedAttempt DEF RecordIsTrue
  <2>4. CASE o \notin {"SCORED", "REFUSED_BY_PL"}
    BY <1>3, <1>4, <2>1, <2>4 DEF RecordIsTrue
  <2> QED
    BY <2>2, <2>3, <2>4
<1>7. RecordsAreTrue'
  BY <1>1, <1>3, <1>6, Appended DEF RecInv
<1>8. LogInv'
  <2>1. CASE o # "SCORED"
    BY <1>1, <2>1 DEF LogInv, Attempting
  <2>2. CASE o = "SCORED"
    <3>1. /\ request.kind = "signed" /\ keyLoaded /\ key = "K" /\ nonce = Len(log) + 1
          /\ request.payload = Signed(request.genome) /\ request.tag.nonce = Len(log)
          /\ fabric = Function[request.genome]
      BY <1>1, <1>2, <2>2, ScoredAttempt
    <3>2. Len(log') = Len(log) + 1 /\ log'[Len(log')] = Entry(o) /\ log' # << >>
      BY <1>1, <1>3
    <3>3. \A i \in DOMAIN log' : (i \in DOMAIN log /\ log'[i] = log[i]) \/ (i = Len(log) + 1 /\ log'[i] = Entry(o))
      BY <1>1, <1>3
    <3>4. \A i \in DOMAIN log' : ScoredRecord(i)'
      <4>1. SUFFICES ASSUME NEW i \in DOMAIN log' PROVE ScoredRecord(i)'
        OBVIOUS
      <4>2. CASE i \in DOMAIN log /\ log'[i] = log[i]
        BY <1>3, <4>2 DEF ScoredRecord
      <4>3. CASE i = Len(log) + 1 /\ log'[i] = Entry(o)
        <5>1. Len(log) = i - 1
          BY <1>3, <4>3
        <5> QED
          BY <1>4, <2>2, <3>1, <4>3, <5>1 DEF ScoredRecord
      <4> QED
        BY <3>3, <4>2, <4>3
    <3>5. keyLoaded' /\ key' = "K" /\ fabric' = Function[Last.request.genome]'
      BY <1>4, <1>5, <3>1, <3>2 DEF Last
    <3>6. pc' = "ready" /\ nonce' = Len(log')
      BY <1>1, <1>5, <2>2, <3>1, <3>2
    <3> QED
      BY <3>4, <3>5, <3>6 DEF LogInv, Attempting
  <2> QED
    BY <2>1, <2>2
<1> QED
  BY <1>7, <1>8

\* A fault before the ARM is recorded as no attempt.
LEMMA CheckKeeps ==
  ASSUME IInv, RecInv, CheckStatus
  PROVE  LogInv' /\ RecordsAreTrue'
<1>1. pc = "check" /\ UNCHANGED <<pl, fabric, request>>
  BY DEF CheckStatus, Read
<1>2. log \in Seq(Attempt) /\ nonce = Len(log) /\ \A i \in DOMAIN log : ScoredRecord(i)
  BY <1>1 DEF IInv, TypeOK, MasterType, RecInv, LogInv
<1>3. CASE recovery
  <2>1. pc' = "over" /\ log' = Append(log, Entry("STOP_AXI"))
    BY <1>3 DEF CheckStatus, Goto, Report, Entry
  <2>2. RecordIsTrue(Entry("STOP_AXI"), Len(log) + 1)
    BY DEF RecordIsTrue, Entry
  <2>3. RecordsAreTrue'
    BY <1>2, <2>1, <2>2, Appended DEF RecInv
  <2>4. LogInv'
    BY <2>1 DEF LogInv, Attempting
  <2> QED
    BY <2>3, <2>4
<1>4. CASE ~recovery
  <2>1. pc' = "payload" /\ before' = nonce /\ log' = log /\ nonce' = nonce
    BY <1>1, <1>4 DEF CheckStatus, Goto, pl, gate
  <2>2. LogInv'
    BY <1>2, <2>1 DEF LogInv, ScoredRecord
  <2>3. RecordsAreTrue'
    BY <2>1 DEF RecInv, RecordsAreTrue, ScoredIsSigned, RefusedAsExpected, NonceChain
  <2> QED
    BY <2>2, <2>3
<1> QED
  BY <1>3, <1>4

\* A step of the master keeps the log and its records true.
LEMMA MasterLog == ASSUME IInv, RecInv, Master PROVE LogInv' /\ RecordsAreTrue'
<1>1. UNCHANGED <<key, keyLoaded, nonce>> /\ LogInv /\ RecordsAreTrue
  BY MasterAccess DEF regs, gate, RecInv
<1>2. CASE Judge
  BY <1>2, JudgeKeeps
<1>3. CASE CheckStatus
  BY <1>3, CheckKeeps
<1>4. CASE WriteKey \/ CommitKey \/ SkipKey \/ Candidate \/ Control \/ StagePayload \/ StageTag \/ Strobe \/ Poll \/ Insist
  <2>1. log' = log /\ before' = before
    BY <1>4 DEF WriteKey, CommitKey, SkipKey, Candidate, Control, StagePayload, StageTag, Strobe, Poll, Insist
  <2>2. RecordsAreTrue'
    BY <1>1, <2>1 DEF RecordsAreTrue, ScoredIsSigned, RefusedAsExpected, NonceChain
  <2>3. \/ pc \in {"over", "insist"} /\ pc' = "insist"
        \/ pc = "boot" /\ pc' = "keyed"
        \/ pc \in {"boot", "keyed"} /\ pc' = "ready"
        \/ pc = "ready" /\ pc' = "check"
        \/ pc \in Attempting \ {"check"} /\ pc' \in Attempting \ {"check"}
    BY <1>4 DEF WriteKey, CommitKey, SkipKey, Candidate, Control, StagePayload, StageTag, Strobe, Poll, Insist,
                Goto, Attempting
  <2>4. LogInv'
    BY <1>1, <2>1, <2>3 DEF LogInv, ScoredRecord, Attempting
  <2> QED
    BY <2>2, <2>4
<1> QED
  BY <1>2, <1>3, <1>4 DEF Master

\* The invariant of the records holds in every state.
LEMMA RecordsInductive == Spec => []RecInv
<1>1. ASSUME IInv, RecInv, [Next]_vars PROVE RecInv'
  <2>1. CASE Clock
    <3>1. TypeOK /\ BusInv /\ StagedInv /\ RequestInv /\ LogInv /\ RecordsAreTrue
      BY <1>1 DEF IInv, Safe, RecInv
    <3> QED
      BY <1>1, <2>1, <3>1, ClockStaged, ClockRequest, ClockLog, ClockShows DEF RecInv
  <2>2. CASE Master
    BY <1>1, <2>2, MasterStaged, MasterRequest, MasterLog, MasterShows DEF RecInv
  <2>3. CASE UNCHANGED vars
    <3>1. StagedInv' /\ RequestInv' /\ LogInv'
      BY <1>1, <2>3 DEF RecInv, vars, pl, regs, gate, scorer, master, StagedInv, RequestInv, KindFits, LogInv,
                        ScoredRecord, Last
    <3>2. GateShows'
      BY <1>1, <2>3 DEF RecInv, vars, pl, regs, gate, scorer, master, GateShows, Concluded, recovery, Hits, Hit
    <3>3. RecordsAreTrue'
      BY <1>1, <2>3 DEF RecInv, vars, master, RecordsAreTrue, ScoredIsSigned, RefusedAsExpected, NonceChain
    <3> QED
      BY <3>1, <3>2, <3>3 DEF RecInv
  <2> QED
    BY <1>1, <2>1, <2>2, <2>3 DEF Next
<1> QED
  BY <1>1, InitRec, Inductive, PTL DEF Spec

\* What the master's records say is so: a scored record is of a signed
\* candidate, with its own commit, readout and the score the host predicts;
\* a refused one shows the fault of its kind; and their nonces are one chain.
THEOREM RecordsTrue == Spec => []RecordsAreTrue
<1>1. RecInv => RecordsAreTrue
  BY DEF RecInv
<1> QED
  BY <1>1, RecordsInductive, PTL

-----------------------------------------------------------------------------
(* The pull, for a span of any number of chunks, any bounds and any number  *)
(* of link faults: it keeps AuditPromise, and a pull the host completed stays*)
(* unconfirmed at the board only when every AUDITWAIT is spent.             *)
(*                                                                          *)
(* Both rest on what the order of the lines carries.  A READY is sent only  *)
(* before the first GET arrived, so once a chunk has reached the host no    *)
(* READY is behind it and no further pull can start; and before a chunk     *)
(* has reached the host, chunk 0 is the only one it asked for.              *)

Completed == \E i \in DOMAIN pulls : pulls[i] = "done"

BoardFits ==
  /\ stage \in {"announce", "pull", "decide", "over"}
  /\ mark \in Marks \cup {"open"}
  /\ mark = "open" <=> stage \in {"announce", "pull"}
  /\ armed => mark = "audited"
  /\ waitsSent \in 0 .. WaitMax
  /\ served \subseteq Chunks
  /\ served # {} => asked
  /\ stage = "announce" => ~asked

HostFits ==
  /\ chunk \in Chunks
  /\ audits \subseteq served
  /\ pending => \A c \in Chunks : c < chunk => c \in audits
  /\ pulls \in Seq({"done", "failed"})
  /\ Completed => pulls[Len(pulls)] = "done" /\ ~pending /\ audits = Chunks
  /\ audits = {} => served \subseteq {0}

LinesToHost ==
  /\ b2h \in Seq(BoardLine)
  /\ \A i \in 1 .. Len(b2h) :
       /\ b2h[i].type = "AUDIT" => b2h[i].chunk \in served
       /\ b2h[i].type = "WAIT" => AllServed
       /\ b2h[i].type = "READY" => audits = {}
  /\ \A i, j \in 1 .. Len(b2h) :
       i < j /\ b2h[i].type \in {"AUDIT", "WAIT"} => b2h[j].type # "READY"

LinesToBoard ==
  /\ h2b \in Seq(HostLine)
  /\ \A i \in 1 .. Len(h2b) :
       /\ h2b[i].type = "DONE" => Completed
       /\ h2b[i].type = "GET" /\ audits = {} => h2b[i].chunk = 0

PullInv == BoardFits /\ HostFits /\ LinesToHost /\ LinesToBoard

-----------------------------------------------------------------------------
(* What a transmission can add to a line.                                   *)

\* t is s and then copies of the line m, in whatever form.
Grows(s, t, m) ==
  /\ Len(t) >= Len(s)
  /\ \A i \in 1 .. Len(t) : IF i <= Len(s) THEN t[i] = s[i]
                            ELSE t[i].type = m.type /\ t[i].chunk = m.chunk

\* t is s without its first line.
Drops(s, t) ==
  /\ Len(s) = Len(t) + 1
  /\ \A i \in 1 .. Len(t) : t[i] = s[i + 1]

\* Copies of one line: none, one, or two.
LEMMA Copies ==
  ASSUME NEW S, NEW x \in S
  PROVE  /\ << >> \in Seq(S) /\ Len(<< >>) = 0
         /\ <<x>> \in Seq(S) /\ Len(<<x>>) = 1 /\ <<x>>[1] = x
         /\ <<x, x>> \in Seq(S) /\ Len(<<x, x>>) = 2 /\ <<x, x>>[1] = x /\ <<x, x>>[2] = x
OBVIOUS

\* A line the board sends is appended whole, broken, twice or not at all.
LEMMA ToHost ==
  ASSUME NEW m \in BoardLine, NEW late, b2h \in Seq(BoardLine), SendToHost(late, m)
  PROVE  b2h' \in Seq(BoardLine) /\ Grows(b2h, b2h', m)
<1>1. PICK f \in FatesToHost(m) : b2h' = b2h \o f
  BY DEF SendToHost
<1>2. [m EXCEPT !.form = "crc"] \in BoardLine /\ [m EXCEPT !.form = "malformed"] \in BoardLine
  BY DEF BoardLine
<1>3. /\ [m EXCEPT !.form = "crc"].type = m.type /\ [m EXCEPT !.form = "crc"].chunk = m.chunk
      /\ [m EXCEPT !.form = "malformed"].type = m.type
      /\ [m EXCEPT !.form = "malformed"].chunk = m.chunk
  BY DEF BoardLine
<1>4. f \in Seq(BoardLine) /\ \A i \in 1 .. Len(f) : f[i].type = m.type /\ f[i].chunk = m.chunk
  <2>1. \/ f = << >> \/ f = <<m, m>>
        \/ \E x \in BoardLine : f = <<x>> /\ x.type = m.type /\ x.chunk = m.chunk
    BY <1>2, <1>3 DEF FatesToHost
  <2>2. CASE f = << >>
    BY <2>2
  <2>3. CASE f = <<m, m>>
    <3>1. f \in Seq(BoardLine) /\ Len(f) = 2 /\ f[1] = m /\ f[2] = m
      BY <2>3, Copies
    <3>. QED  BY <3>1
  <2>4. ASSUME NEW x \in BoardLine, f = <<x>>, x.type = m.type, x.chunk = m.chunk
        PROVE  f \in Seq(BoardLine) /\ \A i \in 1 .. Len(f) : f[i].type = m.type /\ f[i].chunk = m.chunk
    <3>1. f \in Seq(BoardLine) /\ Len(f) = 1 /\ f[1] = x
      BY <2>4, Copies
    <3>. QED  BY <3>1, <2>4
  <2>. QED  BY <2>1, <2>2, <2>3, <2>4
<1>. QED  BY <1>1, <1>4 DEF Grows

\* So is a line the host sends.
LEMMA FateToBoard ==
  ASSUME NEW m \in HostLine, NEW f \in FatesToBoard(m)
  PROVE  f \in Seq(HostLine) /\ \A i \in 1 .. Len(f) : f[i].type = m.type /\ f[i].chunk = m.chunk
<1>1. [m EXCEPT !.form = "broken"] \in HostLine
  BY DEF HostLine
<1>2. [m EXCEPT !.form = "broken"].type = m.type /\ [m EXCEPT !.form = "broken"].chunk = m.chunk
  BY DEF HostLine
<1>3. \/ f = << >> \/ f = <<m, m>>
      \/ \E x \in HostLine : f = <<x>> /\ x.type = m.type /\ x.chunk = m.chunk
  BY <1>1, <1>2 DEF FatesToBoard
<1>4. CASE f = << >>
  BY <1>4
<1>5. CASE f = <<m, m>>
  <2>1. f \in Seq(HostLine) /\ Len(f) = 2 /\ f[1] = m /\ f[2] = m
    BY <1>5, Copies
  <2>. QED  BY <2>1
<1>6. ASSUME NEW x \in HostLine, f = <<x>>, x.type = m.type, x.chunk = m.chunk
      PROVE  f \in Seq(HostLine) /\ \A i \in 1 .. Len(f) : f[i].type = m.type /\ f[i].chunk = m.chunk
  <2>1. f \in Seq(HostLine) /\ Len(f) = 1 /\ f[1] = x
    BY <1>6, Copies
  <2>. QED  BY <2>1, <1>6
<1>. QED  BY <1>3, <1>4, <1>5, <1>6

\* The same, for a transmission of the host's.
LEMMA ToBoard ==
  ASSUME NEW m \in HostLine, NEW late, h2b \in Seq(HostLine), SendToBoard(late, m)
  PROVE  h2b' \in Seq(HostLine) /\ Grows(h2b, h2b', m)
<1>1. PICK f \in FatesToBoard(m) : h2b' = h2b \o f
  BY DEF SendToBoard
<1>2. f \in Seq(HostLine) /\ \A i \in 1 .. Len(f) : f[i].type = m.type /\ f[i].chunk = m.chunk
  BY FateToBoard
<1>. QED  BY <1>1, <1>2 DEF Grows

\* Two lines sent in one step keep their order.
LEMMA BothToBoard ==
  ASSUME NEW l \in HostLine, NEW m \in HostLine, h2b \in Seq(HostLine), SendBoth(l, m)
  PROVE  \E mid \in Seq(HostLine) : /\ h2b' \in Seq(HostLine)
                                    /\ Grows(h2b, mid, l) /\ Grows(mid, h2b', m)
<1>1. PICK f \in FatesToBoard(l), g \in FatesToBoard(m) : h2b' = h2b \o f \o g
  BY DEF SendBoth
<1>2. f \in Seq(HostLine) /\ \A i \in 1 .. Len(f) : f[i].type = l.type /\ f[i].chunk = l.chunk
  BY FateToBoard
<1>3. g \in Seq(HostLine) /\ \A i \in 1 .. Len(g) : g[i].type = m.type /\ g[i].chunk = m.chunk
  BY FateToBoard
<1>. DEFINE mid == h2b \o f
<1>4. mid \in Seq(HostLine) /\ Grows(h2b, mid, l)
  BY <1>2 DEF Grows
<1>5. h2b' = mid \o g
  BY <1>1
<1>. HIDE DEF mid
<1>6. h2b' \in Seq(HostLine) /\ Grows(mid, h2b', m)
  BY <1>3, <1>4, <1>5 DEF Grows
<1>. QED  BY <1>4, <1>6

\* Taking the first line leaves the others in their order.
LEMMA Taken ==
  ASSUME NEW S, NEW s \in Seq(S), s # << >>
  PROVE  Tail(s) \in Seq(S) /\ Drops(s, Tail(s)) /\ Head(s) = s[1] /\ Len(s) >= 1
BY DEF Drops

\* The lines the board composes are lines of the link.
LEMMA BoardLines ==
  /\ Line("READY", 0) \in BoardLine /\ Line("WAIT", 0) \in BoardLine
  /\ \A c \in Chunks : Line("AUDIT", c) \in BoardLine
  /\ \A t, c : Line(t, c).type = t /\ Line(t, c).chunk = c
<1>1. 0 \in Chunks
  BY PullAssumption DEF Chunks
<1>. QED  BY <1>1 DEF BoardLine, Line

\* So are the host's.
LEMMA HostLines ==
  /\ Abort \in HostLine /\ Done \in HostLine
  /\ \A c \in Chunks : Get(c) \in HostLine
  /\ Abort.type = "ABORT" /\ Done.type = "DONE"
  /\ \A c : Get(c).type = "GET" /\ Get(c).chunk = c
<1>1. 0 \in Chunks
  BY PullAssumption DEF Chunks
<1>. QED  BY <1>1 DEF HostLine, Reply, Get, Abort, Done

-----------------------------------------------------------------------------
(* The invariant.                                                           *)

\* The session starts with empty lines and nothing held.
LEMMA InitFits == PullInit => PullInv
<1>. SUFFICES ASSUME PullInit PROVE PullInv
  OBVIOUS
<1>1. BoardFits
  BY PullAssumption DEF PullInit, BoardFits, Marks
<1>2. HostFits
  BY PullAssumption DEF PullInit, HostFits, Chunks, Completed
<1>3. b2h \in Seq(BoardLine) /\ h2b \in Seq(HostLine) /\ Len(b2h) = 0 /\ Len(h2b) = 0
  BY DEF PullInit
<1>4. LinesToHost /\ LinesToBoard
  BY <1>3 DEF LinesToHost, LinesToBoard
<1>. QED  BY <1>1, <1>2, <1>4 DEF PullInv

\* A line added to what the host will hear, by a board whose books stand.
LEMMA HostWillHear ==
  ASSUME LinesToHost, NEW m \in BoardLine,
         b2h' \in Seq(BoardLine), Grows(b2h, b2h', m),
         served \subseteq served', served' \subseteq Chunks, served \subseteq Chunks, UNCHANGED audits,
         m.type = "AUDIT" => m.chunk \in served',
         m.type = "WAIT" => served' = Chunks,
         m.type = "READY" => /\ audits = {}
                             /\ \A i \in 1 .. Len(b2h) : b2h[i].type \notin {"AUDIT", "WAIT"}
  PROVE  LinesToHost'
<1>1. b2h \in Seq(BoardLine) /\ Len(b2h) \in Nat /\ Len(b2h') \in Nat
  BY DEF LinesToHost
<1>2. ASSUME NEW i \in 1 .. Len(b2h')
      PROVE  /\ b2h'[i].type = "AUDIT" => b2h'[i].chunk \in served'
             /\ b2h'[i].type = "WAIT" => AllServed'
             /\ b2h'[i].type = "READY" => audits' = {}
  <2>1. CASE i <= Len(b2h)
    <3>1. b2h'[i] = b2h[i] /\ i \in 1 .. Len(b2h)
      BY <1>1, <2>1 DEF Grows
    <3>2. /\ b2h[i].type = "AUDIT" => b2h[i].chunk \in served
          /\ b2h[i].type = "WAIT" => served = Chunks
          /\ b2h[i].type = "READY" => audits = {}
      BY <3>1 DEF LinesToHost, AllServed
    <3>. QED  BY <3>1, <3>2 DEF AllServed
  <2>2. CASE i > Len(b2h)
    <3>1. b2h'[i].type = m.type /\ b2h'[i].chunk = m.chunk
      BY <1>1, <2>2 DEF Grows
    <3>. QED  BY <3>1 DEF AllServed
  <2>. QED  BY <1>1, <2>1, <2>2
<1>3. ASSUME NEW i \in 1 .. Len(b2h'), NEW j \in 1 .. Len(b2h'), i < j,
             b2h'[i].type \in {"AUDIT", "WAIT"}
      PROVE  b2h'[j].type # "READY"
  <2>1. CASE j <= Len(b2h)
    BY <1>1, <1>3, <2>1 DEF LinesToHost, Grows
  <2>2. CASE i <= Len(b2h) /\ j > Len(b2h)
    BY <1>1, <1>3, <2>2 DEF Grows
  <2>3. CASE i > Len(b2h)
    <3>1. j > Len(b2h)
      BY <1>1, <1>3, <2>3
    <3>2. b2h'[i].type = m.type /\ b2h'[j].type = m.type
      BY <1>1, <2>3, <3>1 DEF Grows
    <3>. QED  BY <1>3, <3>2
  <2>. QED  BY <1>1, <1>3, <2>1, <2>2, <2>3
<1>. QED  BY <1>2, <1>3 DEF LinesToHost

\* A line taken from it by a host whose harvest stands.
LEMMA HostHeard ==
  ASSUME LinesToHost, b2h # << >>, b2h' = Tail(b2h), UNCHANGED <<served, audits>>
  PROVE  LinesToHost'
<1>1. b2h' \in Seq(BoardLine) /\ Drops(b2h, b2h')
  BY Taken DEF LinesToHost
<1>2. Len(b2h') \in Nat
  BY <1>1
<1>. QED  BY <1>1, <1>2 DEF LinesToHost, Drops, AllServed

\* A line added to what the board will hear.
LEMMA BoardWillHear ==
  ASSUME h2b \in Seq(HostLine),
         \A i \in 1 .. Len(h2b) :
           /\ h2b[i].type = "DONE" => Completed'
           /\ h2b[i].type = "GET" /\ audits' = {} => h2b[i].chunk = 0,
         NEW m \in HostLine, h2b' \in Seq(HostLine), Grows(h2b, h2b', m),
         m.type = "DONE" => Completed',
         m.type = "GET" /\ audits' = {} => m.chunk = 0
  PROVE  LinesToBoard'
<1>1. Len(h2b) \in Nat /\ Len(h2b') \in Nat
  OBVIOUS
<1>2. ASSUME NEW i \in 1 .. Len(h2b')
      PROVE  /\ h2b'[i].type = "DONE" => Completed'
             /\ h2b'[i].type = "GET" /\ audits' = {} => h2b'[i].chunk = 0
  <2>1. CASE i <= Len(h2b)
    <3>1. h2b'[i] = h2b[i] /\ i \in 1 .. Len(h2b)
      BY <1>1, <2>1 DEF Grows
    <3>. QED  BY <3>1
  <2>2. CASE i > Len(h2b)
    <3>1. h2b'[i].type = m.type /\ h2b'[i].chunk = m.chunk
      BY <1>1, <2>2 DEF Grows
    <3>. QED  BY <3>1
  <2>. QED  BY <1>1, <2>1, <2>2
<1>. QED  BY <1>2 DEF LinesToBoard

\* A line taken from it.
LEMMA BoardHeard ==
  ASSUME LinesToBoard, h2b # << >>, h2b' = Tail(h2b), UNCHANGED <<pulls, audits>>
  PROVE  LinesToBoard'
<1>1. h2b' \in Seq(HostLine) /\ Drops(h2b, h2b')
  BY Taken DEF LinesToBoard
<1>2. Len(h2b') \in Nat
  BY <1>1
<1>3. Completed' = Completed
  BY DEF Completed
<1>. QED  BY <1>1, <1>2, <1>3 DEF LinesToBoard, Drops

\* With the harvest, the pulls and what was served untouched, so is HostFits.
LEMMA HostStands ==
  ASSUME HostFits, UNCHANGED <<chunk, pending, audits, served, pulls>>
  PROVE  HostFits'
<1>1. Completed' = Completed
  BY DEF Completed
<1>. QED  BY <1>1 DEF HostFits

\* A wait that ran out: the board announces, calls for the DONE or gives up.
LEMMA Expired ==
  ASSUME PullInv, NEW late, Expire(late), stage = "pull",
         UNCHANGED <<gated, asked, served, armed, host>>
  PROVE  BoardFits' /\ HostFits' /\ LinesToHost'
<1>1. HostFits'
  BY HostStands DEF PullInv, host, puller, session
<1>2. b2h \in Seq(BoardLine) /\ served \subseteq Chunks /\ audits' = audits
  BY DEF PullInv, LinesToHost, BoardFits, host, session
<1>3. CASE MayAnnounce /\ Announce(late) /\ UNCHANGED <<stage, mark, waitsSent>>
  <2>1. BoardFits'
    BY <1>3 DEF PullInv, BoardFits
  <2>2. b2h' \in Seq(BoardLine) /\ Grows(b2h, b2h', Line("READY", 0))
    BY <1>2, <1>3, ToHost, BoardLines DEF Announce
  <2>3. served = {} /\ audits = {}
    BY <1>3 DEF PullInv, BoardFits, HostFits, MayAnnounce
  <2>4. \A i \in 1 .. Len(b2h) : b2h[i].type \notin {"AUDIT", "WAIT"}
    <3>1. ~AllServed
      BY <2>3, PullAssumption DEF AllServed, Chunks
    <3>2. \A i \in 1 .. Len(b2h) : /\ b2h[i].type = "AUDIT" => b2h[i].chunk \in served
                                   /\ b2h[i].type = "WAIT" => AllServed
      BY DEF PullInv, LinesToHost
    <3>. QED  BY <2>3, <3>1, <3>2
  <2>5. LinesToHost'
    BY <1>2, <2>2, <2>3, <2>4, BoardLines, HostWillHear DEF PullInv
  <2>. QED  BY <1>1, <2>1, <2>5
<1>4. CASE MayCall /\ CallForDone(late) /\ UNCHANGED <<stage, mark, readySent>>
  <2>1. BoardFits'
    BY <1>4, PullAssumption DEF PullInv, BoardFits, CallForDone, MayCall
  <2>2. b2h' \in Seq(BoardLine) /\ Grows(b2h, b2h', Line("WAIT", 0))
    BY <1>2, <1>4, ToHost, BoardLines DEF CallForDone
  <2>3. LinesToHost'
    BY <1>2, <1>4, <2>2, BoardLines, HostWillHear DEF PullInv, MayCall, AllServed
  <2>. QED  BY <1>1, <2>1, <2>3
<1>5. CASE EndPull("replayed-only") /\ UNCHANGED <<readySent, waitsSent, b2h>>
  <2>1. BoardFits'
    BY <1>5 DEF PullInv, BoardFits, EndPull, Marks
  <2>2. LinesToHost'
    BY <1>2, <1>5 DEF PullInv, LinesToHost, AllServed
  <2>. QED  BY <1>1, <2>1, <2>2
<1>. QED  BY <1>3, <1>4, <1>5 DEF Expire

\* Every step of the board keeps the invariant.
LEMMA BoardKeeps ==
  ASSUME PullInv, BoardNext
  PROVE  PullInv'
<1>0. /\ b2h \in Seq(BoardLine) /\ h2b \in Seq(HostLine) /\ served \subseteq Chunks
      /\ BoardFits /\ HostFits /\ LinesToHost /\ LinesToBoard
  BY DEF PullInv, LinesToHost, LinesToBoard, BoardFits
<1>a. Completed' = Completed \/ pulls' # pulls
  BY DEF Completed
<1>1. CASE BoardAnnounce
  <2>1. served = {} /\ audits = {} /\ audits' = audits /\ served' = served
    BY <1>0, <1>1 DEF BoardAnnounce, BoardFits, HostFits, host, session
  <2>2. BoardFits'
    BY <1>0, <1>1 DEF BoardAnnounce, BoardFits
  <2>3. HostFits'
    BY <1>0, <1>1, <2>1, HostStands DEF BoardAnnounce, host, puller, session
  <2>4. b2h' \in Seq(BoardLine) /\ Grows(b2h, b2h', Line("READY", 0))
    BY <1>0, <1>1, ToHost, BoardLines DEF BoardAnnounce, Announce
  <2>5. \A i \in 1 .. Len(b2h) : b2h[i].type \notin {"AUDIT", "WAIT"}
    <3>1. 0 \in Chunks
      BY PullAssumption DEF Chunks
    <3>. QED  BY <1>0, <2>1, <3>1 DEF LinesToHost, AllServed
  <2>6. LinesToHost'
    BY <1>0, <2>1, <2>4, <2>5, BoardLines, HostWillHear
  <2>7. LinesToBoard'
    BY <1>0, <1>1, <1>a DEF BoardAnnounce, LinesToBoard, host, session
  <2>. QED  BY <2>2, <2>3, <2>6, <2>7 DEF PullInv
<1>2. CASE BoardServe
  <2>. DEFINE c == h2b[1].chunk
  <2>1. /\ h2b # << >> /\ Len(h2b) >= 1 /\ Head(h2b) = h2b[1] /\ h2b[1] \in HostLine
        /\ h2b[1].type = "GET" /\ h2b' = Tail(h2b)
    BY <1>0, <1>2, Taken DEF BoardServe, Hears
  <2>2. c \in Chunks /\ (audits = {} => c = 0)
    BY <1>0, <2>1 DEF HostLine, LinesToBoard
  <2>3. /\ served' = served \cup {c} /\ asked' = TRUE
        /\ UNCHANGED <<stage, mark, armed, waitsSent, chunk, pending, audits, pulls>>
    BY <1>2, <2>1 DEF BoardServe, host, puller, session
  <2>4. SendToHost(0, Line("AUDIT", c))
    BY <1>2, <2>1 DEF BoardServe
  <2>5. stage = "pull"
    BY <1>2 DEF BoardServe, Hears
  <2>. HIDE DEF c
  <2>6. BoardFits'
    BY <1>0, <2>2, <2>3, <2>5 DEF BoardFits
  <2>7. HostFits'
    <3>1. Completed' = Completed
      BY <2>3 DEF Completed
    <3>. QED  BY <1>0, <2>2, <2>3, <3>1 DEF HostFits
  <2>8. b2h' \in Seq(BoardLine) /\ Grows(b2h, b2h', Line("AUDIT", c))
    BY <1>0, <2>2, <2>4, ToHost, BoardLines
  <2>9. LinesToHost'
    BY <1>0, <2>2, <2>3, <2>8, BoardLines, HostWillHear
  <2>10. LinesToBoard'
    BY <1>0, <2>1, <2>3, BoardHeard
  <2>. QED  BY <2>6, <2>7, <2>9, <2>10 DEF PullInv
<1>3. CASE BoardDone \/ BoardAbort
  <2>1. /\ h2b # << >> /\ h2b' = Tail(h2b) /\ stage = "pull"
        /\ stage' = "decide" /\ mark' \in Marks
        /\ UNCHANGED <<asked, served, waitsSent, armed, b2h, chunk, pending, audits, pulls>>
    BY <1>3 DEF BoardDone, BoardAbort, Hears, EndPull, Marks, host, puller, session
  <2>2. BoardFits'
    BY <1>0, <2>1 DEF BoardFits, Marks
  <2>3. HostFits'
    BY <1>0, <2>1, HostStands
  <2>4. LinesToHost'
    BY <1>0, <2>1 DEF LinesToHost, AllServed
  <2>5. LinesToBoard'
    BY <1>0, <2>1, BoardHeard
  <2>. QED  BY <2>2, <2>3, <2>4, <2>5 DEF PullInv
<1>4. CASE BoardIgnore
  <2>1. /\ h2b # << >> /\ h2b' = Tail(h2b) /\ stage = "pull"
        /\ UNCHANGED <<gated, asked, served, armed, host>>
    BY <1>4 DEF BoardIgnore
  <2>2. LinesToBoard'
    BY <1>0, <2>1, BoardHeard DEF host, session
  <2>3. CASE Expire(0)
    BY <2>1, <2>2, <2>3, Expired DEF PullInv
  <2>4. CASE UNCHANGED <<stage, mark, readySent, waitsSent, b2h, faults>>
    <3>1. BoardFits' /\ LinesToHost'
      BY <1>0, <2>1, <2>4 DEF BoardFits, LinesToHost, AllServed, host, session
    <3>2. HostFits'
      BY <1>0, <2>1, HostStands DEF host, puller, session
    <3>. QED  BY <2>2, <3>1, <3>2 DEF PullInv
  <2>. QED  BY <1>4, <2>3, <2>4 DEF BoardIgnore
<1>5. CASE BoardBound
  <2>1. stage = "pull" /\ UNCHANGED <<gated, asked, served, armed, h2b, host>>
    BY <1>5 DEF BoardBound
  <2>2. LinesToBoard'
    BY <1>0, <2>1, <1>a DEF LinesToBoard, host, session
  <2>3. Expire(0) \/ Expire(1)
    BY <1>5 DEF BoardBound
  <2>. QED  BY <2>1, <2>2, <2>3, Expired DEF PullInv
<1>6. CASE BoardArm
  <2>1. /\ mark = "audited" /\ stage = "decide"
        /\ UNCHANGED <<stage, mark, asked, served, waitsSent, b2h, h2b, chunk, pending, audits, pulls>>
    BY <1>6 DEF BoardArm, MayArm, host, puller, session
  <2>2. BoardFits' /\ LinesToHost'
    BY <1>0, <2>1 DEF BoardFits, LinesToHost, AllServed
  <2>3. HostFits'
    BY <1>0, <2>1, HostStands
  <2>4. LinesToBoard'
    BY <1>0, <2>1, <1>a DEF LinesToBoard
  <2>. QED  BY <2>2, <2>3, <2>4 DEF PullInv
<1>7. CASE BoardRecord
  <2>1. /\ stage = "decide" /\ stage' = "over" /\ b2h' = Append(b2h, Record)
        /\ UNCHANGED <<mark, asked, served, waitsSent, armed, h2b, chunk, pending, audits, pulls>>
    BY <1>7 DEF BoardRecord, host, puller, session
  <2>2. BoardFits'
    BY <1>0, <2>1 DEF BoardFits
  <2>3. HostFits'
    BY <1>0, <2>1, HostStands
  <2>4. LinesToBoard'
    BY <1>0, <2>1, <1>a DEF LinesToBoard
  <2>5. Record \in BoardLine /\ Record.type = "REC"
    BY <1>0, <2>1, PullAssumption DEF Record, BoardLine, BoardFits, Marks, Chunks
  <2>6. b2h' \in Seq(BoardLine) /\ Grows(b2h, b2h', Record)
    BY <1>0, <2>1, <2>5 DEF Grows
  <2>7. LinesToHost'
    BY <1>0, <2>1, <2>5, <2>6, HostWillHear
  <2>. QED  BY <2>2, <2>3, <2>4, <2>7 DEF PullInv
<1>8. CASE BoardDiscard
  <2>1. h2b # << >> /\ h2b' = Tail(h2b) /\ UNCHANGED <<board, b2h, host>>
    BY <1>8 DEF BoardDiscard
  <2>2. BoardFits' /\ LinesToHost'
    BY <1>0, <2>1 DEF BoardFits, LinesToHost, AllServed, board, host, session
  <2>3. HostFits'
    BY <1>0, <2>1, HostStands DEF board, host, puller, session
  <2>4. LinesToBoard'
    BY <1>0, <2>1, BoardHeard DEF host, session
  <2>. QED  BY <2>2, <2>3, <2>4 DEF PullInv
<1>. QED  BY <1>1, <1>2, <1>3, <1>4, <1>5, <1>6, <1>7, <1>8 DEF BoardNext

-----------------------------------------------------------------------------
(* The host's steps.                                                        *)

\* A pull given up: the harvest stands, and no pull is pending.
LEMMA FailFits ==
  ASSUME HostFits, pending, FailPull, UNCHANGED served
  PROVE  HostFits' /\ ~Completed' /\ ~Completed /\ UNCHANGED <<audits, chunk>> /\ ~pending'
<1>1. ~Completed /\ pulls \in Seq({"done", "failed"}) /\ pulls' = Append(pulls, "failed")
  BY DEF HostFits, FailPull, Settle
<1>2. pulls' \in Seq({"done", "failed"}) /\ ~Completed'
  BY <1>1 DEF Completed
<1>. QED  BY <1>1, <1>2 DEF HostFits, FailPull, Settle

\* What the host says once a pull failed leaves the lines to the board true.
LEMMA FailLines ==
  ASSUME LinesToBoard, ~Completed, ~Completed', UNCHANGED audits, chunk \in Chunks,
         audits = {} => chunk = 0,
         \/ \E late : SendToBoard(late, Abort)
         \/ \E late : SendToBoard(late, Get(chunk))
         \/ SendBoth(Get(chunk), Abort)
  PROVE  LinesToBoard'
<1>1. h2b \in Seq(HostLine)
  BY DEF LinesToBoard
<1>2. CASE \E late : SendToBoard(late, Abort)
  <2>1. h2b' \in Seq(HostLine) /\ Grows(h2b, h2b', Abort)
    BY <1>1, <1>2, ToBoard, HostLines
  <2>. QED  BY <2>1, HostLines, BoardWillHear DEF LinesToBoard
<1>3. CASE \E late : SendToBoard(late, Get(chunk))
  <2>1. h2b' \in Seq(HostLine) /\ Grows(h2b, h2b', Get(chunk))
    BY <1>1, <1>3, ToBoard, HostLines
  <2>. QED  BY <2>1, HostLines, BoardWillHear DEF LinesToBoard
<1>4. CASE SendBoth(Get(chunk), Abort)
  <2>1. PICK mid \in Seq(HostLine) : /\ h2b' \in Seq(HostLine)
                                     /\ Grows(h2b, mid, Get(chunk)) /\ Grows(mid, h2b', Abort)
    BY <1>1, <1>4, BothToBoard, HostLines
  <2>2. Len(h2b) \in Nat /\ Len(mid) \in Nat /\ Len(h2b') \in Nat
    BY <1>1, <2>1
  <2>3. ASSUME NEW i \in 1 .. Len(mid)
        PROVE  mid[i].type # "DONE" /\ (mid[i].type = "GET" /\ audits = {} => mid[i].chunk = 0)
    <3>1. CASE i <= Len(h2b)
      <4>1. mid[i] = h2b[i] /\ i \in 1 .. Len(h2b)
        BY <2>1, <2>2, <3>1 DEF Grows
      <4>. QED  BY <4>1 DEF LinesToBoard
    <3>2. CASE i > Len(h2b)
      <4>1. mid[i].type = "GET" /\ mid[i].chunk = chunk
        BY <2>1, <2>2, <3>2, HostLines DEF Grows
      <4>. QED  BY <4>1
    <3>. QED  BY <2>2, <3>1, <3>2
  <2>4. ASSUME NEW i \in 1 .. Len(h2b')
        PROVE  h2b'[i].type # "DONE" /\ (h2b'[i].type = "GET" /\ audits = {} => h2b'[i].chunk = 0)
    <3>1. CASE i <= Len(mid)
      <4>1. h2b'[i] = mid[i] /\ i \in 1 .. Len(mid)
        BY <2>1, <2>2, <3>1 DEF Grows
      <4>. QED  BY <2>3, <4>1
    <3>2. CASE i > Len(mid)
      <4>1. h2b'[i].type = "ABORT"
        BY <2>1, <2>2, <3>2, HostLines DEF Grows
      <4>. QED  BY <4>1
    <3>. QED  BY <2>2, <3>1, <3>2
  <2>. QED  BY <2>1, <2>4 DEF LinesToBoard
<1>. QED  BY <1>2, <1>3, <1>4

\* While no chunk has reached the host, a pending pull asks for chunk 0.
LEMMA AsksFirst ==
  ASSUME HostFits, pending, audits = {}
  PROVE  chunk = 0
<1>1. chunk \in Chunks /\ \A c \in Chunks : ~(c < chunk)
  BY DEF HostFits
<1>. QED  BY <1>1, PullAssumption DEF Chunks

\* A failed attempt: the chunk is asked for again, or the pull given up.
LEMMA AttemptKeeps ==
  ASSUME HostFits, LinesToBoard, pending, UNCHANGED served,
         \/ \E late : AttemptFailed(late)
         \/ FailOverBudget
         \/ FailPull /\ \E late : SendToBoard(late, Abort)
  PROVE  HostFits' /\ LinesToBoard' /\ UNCHANGED audits
<1>1. audits = {} => chunk = 0
  BY AsksFirst
<1>2. chunk \in Chunks /\ ~Completed
  BY DEF HostFits
<1>3. CASE FailPull /\ ((\E late : SendToBoard(late, Abort)) \/ SendBoth(Get(chunk), Abort))
  <2>1. HostFits' /\ ~Completed' /\ UNCHANGED audits
    BY <1>3, FailFits
  <2>. QED  BY <1>1, <1>2, <1>3, <2>1, FailLines
<1>4. CASE (\E late : SendToBoard(late, Get(chunk))) /\ UNCHANGED <<pending, chunk, verified, session>>
  <2>1. UNCHANGED <<chunk, pending, audits, served, pulls>>
    BY <1>4 DEF session
  <2>2. HostFits'
    BY <2>1, HostStands
  <2>3. ~Completed'
    BY <1>2, <2>1 DEF Completed
  <2>. QED  BY <1>1, <1>2, <1>4, <2>1, <2>2, <2>3, FailLines
<1>. QED  BY <1>3, <1>4 DEF AttemptFailed, FailOverBudget

\* A step of the host that leaves its pull alone, whatever line it takes.
LEMMA IdleKeeps ==
  ASSUME PullInv, UNCHANGED <<board, h2b, chunk, pending, pulls, audits>>,
         b2h' = b2h \/ (b2h # << >> /\ b2h' = Tail(b2h))
  PROVE  PullInv'
<1>1. BoardFits' /\ HostFits'
  BY HostStands DEF PullInv, BoardFits, board
<1>2. LinesToHost'
  <2>1. CASE b2h' = b2h
    BY <2>1 DEF PullInv, LinesToHost, AllServed, board
  <2>2. CASE b2h # << >> /\ b2h' = Tail(b2h)
    BY <2>2, HostHeard DEF PullInv, board
  <2>. QED  BY <2>1, <2>2
<1>3. Completed' = Completed
  BY DEF Completed
<1>4. LinesToBoard'
  BY <1>3 DEF PullInv, LinesToBoard
<1>. QED  BY <1>1, <1>2, <1>4 DEF PullInv

\* A step of the host that ends an attempt of the pending pull.
LEMMA FailKeeps ==
  ASSUME PullInv, pending, UNCHANGED board,
         b2h' = b2h \/ (b2h # << >> /\ b2h' = Tail(b2h)),
         \/ \E late : AttemptFailed(late)
         \/ FailOverBudget
         \/ FailPull /\ \E late : SendToBoard(late, Abort)
  PROVE  PullInv'
<1>1. HostFits' /\ LinesToBoard' /\ UNCHANGED audits
  BY AttemptKeeps DEF PullInv, board
<1>2. BoardFits'
  BY DEF PullInv, BoardFits, board
<1>3. LinesToHost'
  <2>1. CASE b2h' = b2h
    BY <1>1, <2>1 DEF PullInv, LinesToHost, AllServed, board
  <2>2. CASE b2h # << >> /\ b2h' = Tail(b2h)
    BY <1>1, <2>2, HostHeard DEF PullInv, board
  <2>. QED  BY <2>1, <2>2
<1>. QED  BY <1>1, <1>2, <1>3 DEF PullInv

\* The first line, while there is one.
LEMMA FirstLine ==
  ASSUME LinesToHost, b2h # << >>
  PROVE  Head(b2h) = b2h[1] /\ 1 \in 1 .. Len(b2h) /\ b2h[1] \in BoardLine
<1>1. b2h \in Seq(BoardLine)
  BY DEF LinesToHost
<1>. QED  BY <1>1, Taken

\* An AUDIT line taken: the chunk is one the board served, and no READY is
\* behind it.
LEMMA ChunkTaken ==
  ASSUME PullInv, HostHears("AUDIT"), UNCHANGED board, audits' = audits \cup {Head(b2h).chunk}
  PROVE  /\ Head(b2h).chunk \in served /\ Head(b2h).chunk \in Chunks
         /\ LinesToHost' /\ BoardFits' /\ audits' \subseteq served'
<1>1. b2h # << >> /\ b2h' = Tail(b2h) /\ Head(b2h).type = "AUDIT"
  BY DEF HostHears, HostTakes
<1>2. Head(b2h) = b2h[1] /\ 1 \in 1 .. Len(b2h) /\ b2h[1] \in BoardLine
  BY <1>1, FirstLine DEF PullInv
<1>3. Head(b2h).chunk \in served /\ Head(b2h).chunk \in Chunks
  BY <1>1, <1>2 DEF PullInv, LinesToHost, BoardLine
<1>4. b2h \in Seq(BoardLine) /\ b2h' \in Seq(BoardLine) /\ Drops(b2h, b2h') /\ Len(b2h') \in Nat
  BY <1>1, Taken DEF PullInv, LinesToHost
<1>5. \A i \in 1 .. Len(b2h') : b2h'[i] = b2h[i + 1] /\ i + 1 \in 1 .. Len(b2h) /\ 1 < i + 1
  BY <1>4 DEF Drops
<1>6. \A i \in 1 .. Len(b2h') : b2h'[i].type # "READY"
  BY <1>1, <1>2, <1>5 DEF PullInv, LinesToHost
<1>7. \A i \in 1 .. Len(b2h') :
        /\ b2h'[i].type = "AUDIT" => b2h'[i].chunk \in served
        /\ b2h'[i].type = "WAIT" => AllServed
  BY <1>5 DEF PullInv, LinesToHost
<1>8. LinesToHost'
  <2>1. served' = served
    BY DEF board
  <2>2. \A i \in 1 .. Len(b2h') :
          /\ b2h'[i].type = "AUDIT" => b2h'[i].chunk \in served'
          /\ b2h'[i].type = "WAIT" => served' = Chunks
          /\ b2h'[i].type = "READY" => audits' = {}
    BY <1>6, <1>7, <2>1 DEF AllServed
  <2>3. \A i, j \in 1 .. Len(b2h') :
          i < j /\ b2h'[i].type \in {"AUDIT", "WAIT"} => b2h'[j].type # "READY"
    BY <1>6
  <2>. QED  BY <1>4, <2>2, <2>3 DEF LinesToHost, AllServed
<1>9. BoardFits'
  BY DEF PullInv, BoardFits, board
<1>. QED  BY <1>3, <1>8, <1>9 DEF PullInv, HostFits, board

\* Every step of the host keeps the invariant.
LEMMA HostKeeps ==
  ASSUME PullInv, HostNext
  PROVE  PullInv'
<1>0. /\ b2h \in Seq(BoardLine) /\ h2b \in Seq(HostLine) /\ served \subseteq Chunks
      /\ BoardFits /\ HostFits /\ LinesToHost /\ LinesToBoard /\ 0 \in Chunks
  <2>1. 0 \in Chunks
    BY PullAssumption DEF Chunks
  <2>. QED  BY <2>1 DEF PullInv, LinesToHost, LinesToBoard, BoardFits
<1>1. CASE HostReady
  <2>1. b2h # << >> /\ b2h' = Tail(b2h) /\ Head(b2h).type = "READY" /\ ~pending /\ UNCHANGED board
    BY <1>1 DEF HostReady, HostHears, HostTakes
  <2>2. CASE NoPullChange
    BY <2>1, <2>2, IdleKeeps DEF NoPullChange, puller, session
  <2>3. CASE /\ pending' = TRUE /\ chunk' = 0 /\ SendToBoard(0, Get(0)) /\ UNCHANGED session
    <3>1. audits = {} /\ UNCHANGED <<audits, pulls, served>>
      BY <1>0, <2>1, <2>3, FirstLine DEF LinesToHost, session, board
    <3>2. ~Completed /\ ~Completed'
      BY <1>0, <3>1 DEF HostFits, Completed
    <3>3. HostFits'
      BY <1>0, <2>3, <3>1, <3>2 DEF HostFits, Chunks
    <3>4. BoardFits' /\ LinesToHost'
      BY <1>0, <2>1, <3>1, HostHeard DEF BoardFits, board
    <3>5. h2b' \in Seq(HostLine) /\ Grows(h2b, h2b', Get(0))
      BY <1>0, <2>3, ToBoard, HostLines
    <3>6. LinesToBoard'
      BY <1>0, <3>1, <3>2, <3>5, HostLines, BoardWillHear DEF LinesToBoard
    <3>. QED  BY <3>3, <3>4, <3>6 DEF PullInv
  <2>. QED  BY <1>1, <2>2, <2>3 DEF HostReady
<1>2. CASE HostReadyAgain
  BY <1>2, IdleKeeps DEF HostReadyAgain, HostHears, HostTakes, host, puller, session
<1>3. CASE HostVerify
  <2>1. /\ HostHears("AUDIT") /\ pending /\ Head(b2h).chunk = chunk /\ UNCHANGED board
        /\ audits' = audits \cup {chunk}
    BY <1>3 DEF HostVerify
  <2>2. /\ chunk \in served /\ chunk \in Chunks
        /\ LinesToHost' /\ BoardFits' /\ audits' \subseteq served' /\ served' = served
    BY <2>1, ChunkTaken DEF board
  <2>3. ~Completed /\ audits' # {}
    BY <1>0, <2>1 DEF HostFits
  <2>4. \A c \in Chunks : c < chunk + 1 => c \in audits'
    BY <1>0, <2>1, <2>2 DEF HostFits, Chunks
  <2>5. CASE chunk + 1 < N
    <3>1. /\ chunk' = chunk + 1 /\ SendToBoard(0, Get(chunk + 1)) /\ UNCHANGED <<pending, pulls>>
      BY <1>3, <2>5 DEF HostVerify
    <3>2. chunk + 1 \in Chunks
      BY <2>2, <2>5, PullAssumption DEF Chunks
    <3>3. ~Completed'
      BY <2>3, <3>1 DEF Completed
    <3>4. HostFits'
      BY <1>0, <2>2, <2>3, <2>4, <3>1, <3>2, <3>3 DEF HostFits
    <3>5. h2b' \in Seq(HostLine) /\ Grows(h2b, h2b', Get(chunk + 1))
      BY <1>0, <3>1, <3>2, ToBoard, HostLines
    <3>6. LinesToBoard'
      BY <1>0, <2>3, <3>2, <3>5, HostLines, BoardWillHear DEF LinesToBoard
    <3>. QED  BY <2>2, <3>4, <3>6 DEF PullInv
  <2>6. CASE ~(chunk + 1 < N)
    <3>1. Settle("done") /\ SendToBoard(0, Done)
      BY <1>3, <2>6 DEF HostVerify
    <3>2. /\ pulls \in Seq({"done", "failed"}) /\ pulls' = Append(pulls, "done")
          /\ ~pending' /\ chunk' = chunk
      BY <1>0, <3>1 DEF Settle, HostFits
    <3>3. /\ pulls' \in Seq({"done", "failed"}) /\ pulls'[Len(pulls')] = "done" /\ Completed'
      BY <3>2 DEF Completed
    <3>4. audits' = Chunks
      <4>1. \A c \in Chunks : c < chunk + 1
        BY <2>2, <2>6, PullAssumption DEF Chunks
      <4>2. Chunks \subseteq audits'
        BY <2>4, <4>1
      <4>. QED  BY <1>0, <2>2, <4>2
    <3>5. HostFits'
      BY <1>0, <2>2, <2>3, <3>2, <3>3, <3>4 DEF HostFits
    <3>6. h2b' \in Seq(HostLine) /\ Grows(h2b, h2b', Done)
      BY <1>0, <3>1, ToBoard, HostLines
    <3>7. LinesToBoard'
      BY <1>0, <2>3, <3>3, <3>6, HostLines, BoardWillHear DEF LinesToBoard
    <3>. QED  BY <2>2, <3>5, <3>7 DEF PullInv
  <2>. QED  BY <2>5, <2>6
<1>4. CASE HostWrongChunk
  <2>1. pending /\ b2h # << >> /\ b2h' = Tail(b2h) /\ UNCHANGED board
    BY <1>4 DEF HostWrongChunk, HostHears, HostTakes
  <2>2. CASE NoPullChange
    BY <2>1, <2>2, IdleKeeps DEF NoPullChange, puller, session
  <2>3. CASE AttemptFailed(0)
    BY <2>1, <2>3, FailKeeps
  <2>. QED  BY <1>4, <2>2, <2>3 DEF HostWrongChunk
<1>5. CASE HostUnpulledAudit
  <2>1. /\ HostHears("AUDIT") /\ UNCHANGED board /\ audits' = audits \cup {Head(b2h).chunk}
        /\ ~pending /\ UNCHANGED <<pending, chunk, pulls, h2b>>
    BY <1>5 DEF HostUnpulledAudit, puller
  <2>2. /\ Head(b2h).chunk \in Chunks
        /\ LinesToHost' /\ BoardFits' /\ audits' \subseteq served'
    BY <2>1, ChunkTaken
  <2>3. Completed' = Completed
    BY <2>1 DEF Completed
  <2>4. HostFits'
    BY <1>0, <2>1, <2>2, <2>3 DEF HostFits
  <2>5. LinesToBoard'
    BY <1>0, <2>1, <2>3 DEF LinesToBoard
  <2>. QED  BY <2>2, <2>4, <2>5 DEF PullInv
<1>6. CASE HostWait
  <2>1. b2h # << >> /\ b2h' = Tail(b2h) /\ UNCHANGED board
    BY <1>6 DEF HostWait, HostHears, HostTakes
  <2>2. CASE NoPullChange
    BY <2>1, <2>2, IdleKeeps DEF NoPullChange, puller, session
  <2>3. CASE /\ pulls # << >> /\ UNCHANGED <<puller, pulls, audits, aborts>>
             /\ SendToBoard(0, IF pulls[Len(pulls)] = "done" THEN Done ELSE Abort)
    <3>1. UNCHANGED <<chunk, pending, pulls, audits, served>> /\ Completed' = Completed
      BY <2>1, <2>3 DEF puller, board, Completed
    <3>2. HostFits' /\ LinesToHost' /\ BoardFits'
      BY <1>0, <2>1, <3>1, HostStands, HostHeard DEF BoardFits, board
    <3>3. CASE pulls[Len(pulls)] = "done"
      <4>1. Completed
        BY <1>0, <2>3, <3>3 DEF HostFits, Completed
      <4>2. h2b' \in Seq(HostLine) /\ Grows(h2b, h2b', Done)
        BY <1>0, <2>3, <3>3, ToBoard, HostLines
      <4>3. LinesToBoard'
        BY <1>0, <3>1, <4>1, <4>2, HostLines, BoardWillHear DEF LinesToBoard
      <4>. QED  BY <3>2, <4>3 DEF PullInv
    <3>4. CASE pulls[Len(pulls)] # "done"
      <4>1. h2b' \in Seq(HostLine) /\ Grows(h2b, h2b', Abort)
        BY <1>0, <2>3, <3>4, ToBoard, HostLines
      <4>2. LinesToBoard'
        BY <1>0, <3>1, <4>1, HostLines, BoardWillHear DEF LinesToBoard
      <4>. QED  BY <3>2, <4>2 DEF PullInv
    <3>. QED  BY <3>3, <3>4
  <2>. QED  BY <1>6, <2>2, <2>3 DEF HostWait
<1>7. CASE HostRecord
  BY <1>7, IdleKeeps DEF HostRecord, HostHears, HostTakes, puller, session
<1>8. CASE HostTimeout
  BY <1>8, FailKeeps DEF HostTimeout
<1>9. CASE HostCrcFailed
  <2>1. b2h # << >> /\ b2h' = Tail(b2h) /\ UNCHANGED board
    BY <1>9 DEF HostCrcFailed, HostTakes
  <2>2. CASE NoPullChange
    BY <2>1, <2>2, IdleKeeps DEF NoPullChange, puller, session
  <2>3. CASE pending /\ (FailOverBudget \/ AttemptFailed(0))
    BY <2>1, <2>3, FailKeeps
  <2>. QED  BY <1>9, <2>2, <2>3 DEF HostCrcFailed
<1>10. CASE HostMalformed
  <2>1. b2h # << >> /\ b2h' = Tail(b2h) /\ UNCHANGED board
    BY <1>10 DEF HostMalformed, HostTakes
  <2>2. CASE NoPullChange
    BY <2>1, <2>2, IdleKeeps DEF NoPullChange, puller, session
  <2>3. CASE pending /\ ((FailPull /\ SendToBoard(0, Abort)) \/ AttemptFailed(0))
    BY <2>1, <2>3, FailKeeps
  <2>. QED  BY <1>10, <2>2, <2>3 DEF HostMalformed
<1>11. CASE HostAfterEnd
  BY <1>11, IdleKeeps DEF HostAfterEnd, host, puller, session
<1>. QED  BY <1>1, <1>2, <1>3, <1>4, <1>5, <1>6, <1>7, <1>8, <1>9, <1>10, <1>11 DEF HostNext

\* The invariant holds in every state of every behaviour.
LEMMA Always == PullSpec => []PullInv
<1>1. PullInv /\ [PullNext]_pullVars => PullInv'
  <2>. SUFFICES ASSUME PullInv, [PullNext]_pullVars PROVE PullInv'
    OBVIOUS
  <2>1. CASE UNCHANGED pullVars
    <3>1. UNCHANGED <<board, h2b, chunk, pending, pulls, audits>> /\ b2h' = b2h
      BY <2>1 DEF pullVars, host, puller, session
    <3>. QED  BY <3>1, IdleKeeps
  <2>2. CASE BoardNext
    BY <2>2, BoardKeeps
  <2>3. CASE HostNext
    BY <2>3, HostKeeps
  <2>. QED  BY <2>1, <2>2, <2>3 DEF PullNext, Over
<1>. QED  BY InitFits, <1>1, PTL DEF PullSpec

-----------------------------------------------------------------------------
(* A completed pull that the board never confirmed.                         *)

\* The host gave its last pull up after a chunk had arrived: no READY is left
\* to open another, so the audit can never be completed.
Doomed == ~pending /\ audits # {} /\ ~Completed

\* An ABORT on its way to a board that may yet be completed has only requests
\* of chunk 0 before it.
AbortFits ==
  \/ Doomed
  \/ \A j \in 1 .. Len(h2b) : h2b[j].type = "ABORT" =>
       /\ served \subseteq {0}
       /\ \A i \in 1 .. Len(h2b) : i < j /\ h2b[i].type = "GET" => h2b[i].chunk = 0

\* A board that gave up early did so before it had served everything, or
\* because of a host that is past completing.
MarkFits == mark = "replayed-only" /\ waitsSent # WaitMax => Doomed \/ ~AllServed

\* Once doomed, the audit stays so.
LEMMA DoomedStays ==
  ASSUME PullInv, Doomed, PullNext
  PROVE  Doomed'
<1>0. LinesToHost /\ audits # {} /\ ~pending
  BY DEF PullInv, Doomed
<1>1. CASE UNCHANGED <<pending, audits, pulls>>
  BY <1>1 DEF Doomed, Completed
<1>2. CASE HostReady
  <2>1. Head(b2h).type # "READY" \/ b2h = << >>
    BY <1>0, FirstLine DEF LinesToHost
  <2>. QED  BY <1>2, <2>1 DEF HostReady, HostHears, HostTakes
<1>3. CASE HostUnpulledAudit
  BY <1>3 DEF HostUnpulledAudit, puller, Doomed, Completed
<1>4. CASE HostWait
  BY <1>4 DEF HostWait, NoPullChange, puller, session, Doomed, Completed
<1>5. CASE HostNext /\ ~HostReady /\ ~HostUnpulledAudit /\ ~HostWait
  <2>1. UNCHANGED <<pending, audits, pulls>>
    BY <1>0, <1>5 DEF HostNext, HostReadyAgain, HostVerify, HostWrongChunk, HostRecord, HostTimeout,
                      HostCrcFailed, HostMalformed, HostAfterEnd, NoPullChange, host, puller, session
  <2>. QED  BY <1>1, <2>1
<1>6. CASE BoardNext
  <2>1. UNCHANGED host
    BY <1>6 DEF BoardNext, BoardAnnounce, BoardServe, BoardDone, BoardAbort, BoardIgnore, BoardBound,
                BoardArm, BoardRecord, BoardDiscard
  <2>. QED  BY <1>1, <2>1 DEF host, puller, session
<1>7. CASE Over
  BY <1>1, <1>7 DEF Over, pullVars, host, puller, session
<1>. QED  BY <1>2, <1>3, <1>4, <1>5, <1>6, <1>7 DEF PullNext

\* What a step does to the line to the board, unless it leaves the host with a
\* pull given up.
HostSays ==
  \/ h2b' = h2b
  \/ \E m \in HostLine : m.type \in {"GET", "DONE"} /\ Grows(h2b, h2b', m)

\* Every step of the host is one of those.
LEMMA HostSpeaks ==
  ASSUME PullInv, HostNext
  PROVE  HostSays \/ (~pending' /\ ~Completed')
<1>0. HostFits /\ h2b \in Seq(HostLine) /\ chunk \in Chunks /\ 0 \in Chunks
  <2>1. 0 \in Chunks
    BY PullAssumption DEF Chunks
  <2>2. HostFits /\ h2b \in Seq(HostLine)
    BY DEF PullInv, LinesToBoard
  <2>3. chunk \in Chunks
    BY <2>2 DEF HostFits
  <2>. QED  BY <2>1, <2>2, <2>3
<1>1. ASSUME NEW c \in Chunks, NEW late, SendToBoard(late, Get(c)) PROVE HostSays
  BY <1>0, <1>1, ToBoard, HostLines DEF HostSays
<1>2. ASSUME pending, FailPull PROVE ~pending' /\ ~Completed'
  <2>1. pulls' = Append(pulls, "failed") /\ pulls \in Seq({"done", "failed"}) /\ ~Completed
    BY <1>0, <1>2 DEF HostFits, FailPull, Settle
  <2>. QED  BY <1>2, <2>1 DEF FailPull, Settle, Completed
<1>3. ASSUME pending, NEW late, AttemptFailed(late) PROVE HostSays \/ (~pending' /\ ~Completed')
  BY <1>0, <1>1, <1>2, <1>3 DEF AttemptFailed
<1>4. CASE HostReady
  BY <1>0, <1>1, <1>4 DEF HostReady, NoPullChange, HostSays
<1>5. CASE HostVerify
  <2>1. CASE chunk + 1 < N
    <3>1. chunk + 1 \in Chunks
      BY <1>0, <2>1, PullAssumption DEF Chunks
    <3>. QED  BY <1>1, <1>5, <2>1, <3>1 DEF HostVerify
  <2>2. CASE ~(chunk + 1 < N)
    BY <1>0, <1>5, <2>2, ToBoard, HostLines DEF HostVerify, HostSays
  <2>. QED  BY <2>1, <2>2
<1>6. CASE HostWait
  <2>1. CASE NoPullChange
    BY <2>1 DEF NoPullChange, HostSays
  <2>2. CASE /\ ~pending /\ pulls # << >> /\ UNCHANGED <<puller, pulls, audits, aborts>>
             /\ SendToBoard(0, IF pulls[Len(pulls)] = "done" THEN Done ELSE Abort)
    <3>1. CASE pulls[Len(pulls)] = "done"
      BY <1>0, <2>2, <3>1, ToBoard, HostLines DEF HostSays
    <3>2. CASE pulls[Len(pulls)] # "done"
      BY <1>0, <2>2, <3>2 DEF HostFits, Completed, puller
    <3>. QED  BY <3>1, <3>2
  <2>. QED  BY <1>6, <2>1, <2>2 DEF HostWait
<1>7. CASE HostWrongChunk
  BY <1>3, <1>7 DEF HostWrongChunk, NoPullChange, HostSays
<1>8. CASE HostTimeout
  BY <1>3, <1>8 DEF HostTimeout
<1>9. CASE HostCrcFailed
  BY <1>2, <1>3, <1>9 DEF HostCrcFailed, FailOverBudget, NoPullChange, HostSays
<1>10. CASE HostMalformed
  BY <1>2, <1>3, <1>10 DEF HostMalformed, NoPullChange, HostSays
<1>11. CASE HostReadyAgain \/ HostUnpulledAudit \/ HostRecord \/ HostAfterEnd
  BY <1>11 DEF HostReadyAgain, HostUnpulledAudit, HostRecord, HostAfterEnd, HostSays
<1>. QED  BY <1>4, <1>5, <1>6, <1>7, <1>8, <1>9, <1>10, <1>11 DEF HostNext

\* What the host says keeps the requests before an ABORT what they were.
LEMMA AbortStays ==
  ASSUME h2b \in Seq(HostLine), h2b' \in Seq(HostLine), AbortFits, ~Doomed, HostSays, UNCHANGED served
  PROVE  AbortFits'
<1>1. CASE h2b' = h2b
  BY <1>1 DEF AbortFits
<1>2. ASSUME NEW m \in HostLine, m.type \in {"GET", "DONE"}, Grows(h2b, h2b', m)
      PROVE  AbortFits'
  <2>1. Len(h2b) \in Nat /\ Len(h2b') \in Nat
    OBVIOUS
  <2>2. ASSUME NEW j \in 1 .. Len(h2b'), h2b'[j].type = "ABORT"
        PROVE  /\ served' \subseteq {0}
               /\ \A i \in 1 .. Len(h2b') : i < j /\ h2b'[i].type = "GET" => h2b'[i].chunk = 0
    <3>1. j <= Len(h2b)
      BY <1>2, <2>1, <2>2 DEF Grows
    <3>2. j \in 1 .. Len(h2b) /\ h2b[j].type = "ABORT"
      BY <1>2, <2>1, <2>2, <3>1 DEF Grows
    <3>3. /\ served \subseteq {0}
          /\ \A i \in 1 .. Len(h2b) : i < j /\ h2b[i].type = "GET" => h2b[i].chunk = 0
      BY <3>2 DEF AbortFits
    <3>4. \A i \in 1 .. Len(h2b') : i < j => i \in 1 .. Len(h2b) /\ h2b'[i] = h2b[i]
      BY <1>2, <2>1, <3>2 DEF Grows
    <3>. QED  BY <3>3, <3>4
  <2>. QED  BY <2>2 DEF AbortFits
<1>. QED  BY <1>1, <1>2 DEF HostSays

\* A line the board takes moves them up by one.
LEMMA AbortMoves ==
  ASSUME h2b \in Seq(HostLine), h2b # << >>, h2b' = Tail(h2b), AbortFits, ~Doomed,
         served' = served \/ (h2b[1].type = "GET" /\ served' = served \cup {h2b[1].chunk})
  PROVE  AbortFits'
<1>1. h2b' \in Seq(HostLine) /\ Drops(h2b, h2b') /\ Len(h2b') \in Nat
  BY Taken
<1>2. ASSUME NEW j \in 1 .. Len(h2b'), h2b'[j].type = "ABORT"
      PROVE  /\ served' \subseteq {0}
             /\ \A i \in 1 .. Len(h2b') : i < j /\ h2b'[i].type = "GET" => h2b'[i].chunk = 0
  <2>1. j + 1 \in 1 .. Len(h2b) /\ h2b[j + 1].type = "ABORT" /\ 1 \in 1 .. Len(h2b) /\ 1 < j + 1
    BY <1>1, <1>2 DEF Drops
  <2>2. /\ served \subseteq {0}
        /\ \A i \in 1 .. Len(h2b) : i < j + 1 /\ h2b[i].type = "GET" => h2b[i].chunk = 0
    BY <2>1 DEF AbortFits
  <2>3. \A i \in 1 .. Len(h2b') : i < j => i + 1 \in 1 .. Len(h2b) /\ i + 1 < j + 1 /\ h2b'[i] = h2b[i + 1]
    BY <1>1, <1>2 DEF Drops
  <2>. QED  BY <2>1, <2>2, <2>3
<1>. QED  BY <1>2 DEF AbortFits

\* Every step keeps what stands before an ABORT.
LEMMA AbortKeeps ==
  ASSUME PullInv, PullInv', AbortFits, PullNext
  PROVE  AbortFits'
<1>0. h2b \in Seq(HostLine) /\ h2b' \in Seq(HostLine)
  BY DEF PullInv, LinesToBoard
<1>1. CASE audits' = {}
  BY <1>1 DEF PullInv, HostFits, LinesToBoard, AbortFits
<1>2. CASE audits' # {} /\ ~pending' /\ ~Completed'
  BY <1>2 DEF AbortFits, Doomed
<1>3. CASE Doomed
  BY <1>3, DoomedStays DEF AbortFits
<1>4. CASE HostNext /\ ~Doomed /\ HostSays
  <2>1. UNCHANGED served
    BY <1>4 DEF HostNext, HostReady, HostReadyAgain, HostVerify, HostWrongChunk, HostUnpulledAudit,
                HostWait, HostRecord, HostTimeout, HostCrcFailed, HostMalformed, HostAfterEnd, board
  <2>. QED  BY <1>0, <1>4, <2>1, AbortStays
<1>5. CASE BoardNext /\ ~Doomed
  <2>1. CASE BoardAnnounce \/ BoardBound \/ BoardArm \/ BoardRecord
    <3>1. UNCHANGED <<served, h2b>>
      BY <2>1 DEF BoardAnnounce, BoardBound, BoardArm, BoardRecord
    <3>. QED  BY <1>0, <1>5, <3>1, AbortStays DEF HostSays
  <2>2. CASE BoardDone \/ BoardAbort \/ BoardIgnore \/ BoardDiscard
    <3>1. h2b # << >> /\ h2b' = Tail(h2b) /\ served' = served
      BY <2>2 DEF BoardDone, BoardAbort, BoardIgnore, BoardDiscard, Hears, board
    <3>. QED  BY <1>0, <1>5, <3>1, AbortMoves
  <2>3. CASE BoardServe
    <3>1. h2b # << >> /\ h2b' = Tail(h2b) /\ Head(h2b) = h2b[1]
      BY <1>0, <2>3, Taken DEF BoardServe, Hears
    <3>2. h2b[1].type = "GET" /\ served' = served \cup {h2b[1].chunk}
      BY <2>3, <3>1 DEF BoardServe, Hears
    <3>. QED  BY <1>0, <1>5, <3>1, <3>2, AbortMoves
  <2>. QED  BY <1>5, <2>1, <2>2, <2>3 DEF BoardNext
<1>6. CASE Over
  BY <1>6 DEF Over, pullVars, board, host, puller, session, AbortFits, Doomed, Completed
<1>. QED  BY <1>1, <1>2, <1>3, <1>4, <1>5, <1>6, HostSpeaks DEF PullNext

\* With more than one chunk, every step keeps what a board that gave up early
\* knows.
LEMMA MarkKeeps ==
  ASSUME N > 1, PullInv, PullInv', AbortFits, MarkFits, PullNext
  PROVE  MarkFits'
<1>0. BoardFits /\ BoardFits' /\ h2b \in Seq(HostLine)
  BY DEF PullInv, LinesToBoard
<1>1. CASE Doomed
  BY <1>1, DoomedStays DEF MarkFits
<1>2. CASE UNCHANGED <<mark, waitsSent, served>> /\ ~Doomed
  BY <1>2 DEF MarkFits, AllServed
<1>3. CASE HostNext \/ Over
  <2>1. UNCHANGED <<mark, waitsSent, served>>
    BY <1>3 DEF HostNext, HostReady, HostReadyAgain, HostVerify, HostWrongChunk, HostUnpulledAudit,
                HostWait, HostRecord, HostTimeout, HostCrcFailed, HostMalformed, HostAfterEnd, board, Over, pullVars
  <2>. QED  BY <1>1, <1>2, <2>1
<1>4. ASSUME NEW late, Expire(late), UNCHANGED served, UNCHANGED asked, stage = "pull"
      PROVE  MarkFits'
  <2>1. mark = "open"
    BY <1>0, <1>4 DEF BoardFits
  <2>2. CASE UNCHANGED mark
    BY <2>1, <2>2 DEF MarkFits
  <2>3. CASE ~MayAnnounce /\ ~MayCall /\ UNCHANGED waitsSent
    <3>1. CASE AllServed
      <4>0. 0 \in served
        BY <3>1, PullAssumption DEF AllServed, Chunks
      <4>1. asked
        BY <1>0, <4>0 DEF BoardFits
      <4>2. waitsSent = WaitMax
        BY <1>0, <2>3, <3>1, <4>1, PullAssumption DEF MayCall, BoardFits
      <4>. QED  BY <2>3, <4>2 DEF MarkFits
    <3>2. CASE ~AllServed
      BY <1>4, <3>2 DEF MarkFits, AllServed
    <3>. QED  BY <3>1, <3>2
  <2>. QED  BY <1>4, <2>2, <2>3 DEF Expire
<1>5. CASE BoardAnnounce
  <2>1. mark' = "open"
    BY <1>0, <1>5 DEF BoardAnnounce, BoardFits
  <2>. QED  BY <2>1 DEF MarkFits
<1>6. CASE BoardServe
  <2>1. mark' = "open"
    BY <1>0, <1>6 DEF BoardServe, Hears, BoardFits
  <2>. QED  BY <2>1 DEF MarkFits
<1>7. CASE BoardDone
  BY <1>7 DEF BoardDone, EndPull, MarkFits, AllServed
<1>8. CASE BoardAbort /\ ~Doomed
  <2>1. h2b # << >> /\ Head(h2b).type = "ABORT" /\ served' = served
    BY <1>8 DEF BoardAbort, Hears
  <2>2. 1 \in 1 .. Len(h2b) /\ h2b[1].type = "ABORT"
    BY <1>0, <2>1, Taken
  <2>3. served \subseteq {0}
    BY <1>8, <2>2 DEF AbortFits
  <2>4. 1 \in Chunks /\ 1 \notin served
    BY <2>3, PullAssumption DEF Chunks
  <2>5. ~AllServed'
    BY <2>1, <2>4 DEF AllServed
  <2>. QED  BY <2>5 DEF MarkFits
<1>9. CASE BoardIgnore
  <2>1. UNCHANGED <<asked, served>> /\ stage = "pull"
    BY <1>9 DEF BoardIgnore
  <2>2. CASE Expire(0)
    BY <1>4, <2>1, <2>2
  <2>3. CASE UNCHANGED <<stage, mark, readySent, waitsSent, b2h, faults>>
    BY <1>1, <1>2, <2>1, <2>3
  <2>. QED  BY <1>9, <2>2, <2>3 DEF BoardIgnore
<1>10. CASE BoardBound
  <2>1. UNCHANGED <<asked, served>> /\ stage = "pull" /\ (Expire(0) \/ Expire(1))
    BY <1>10 DEF BoardBound
  <2>. QED  BY <1>4, <2>1
<1>11. CASE BoardArm \/ BoardRecord \/ BoardDiscard
  BY <1>1, <1>2, <1>11 DEF BoardArm, BoardRecord, BoardDiscard, board
<1>. QED  BY <1>1, <1>3, <1>5, <1>6, <1>7, <1>8, <1>9, <1>10, <1>11 DEF PullNext, BoardNext

\* A pull of more than one chunk that the host completed is left unconfirmed
\* only by a board that spent every AUDITWAIT (p3_pull.c).  With one chunk it
\* is not so: a copy of that chunk may be late, and complete a second pull
\* while the ABORT of the first is on its way.
THEOREM Exhaustion ==
  ASSUME N > 1
  PROVE  PullSpec => []UnconfirmedOnlyByExhaustion
<1>1. PullInit => AbortFits /\ MarkFits
  BY DEF PullInit, AbortFits, MarkFits
<1>2. PullInv /\ PullInv' /\ AbortFits /\ MarkFits /\ [PullNext]_pullVars => AbortFits' /\ MarkFits'
  <2>1. CASE UNCHANGED pullVars
    BY <2>1 DEF pullVars, board, host, puller, session, AbortFits, MarkFits, Doomed, Completed, AllServed
  <2>2. CASE PullNext
    BY <2>2, AbortKeeps, MarkKeeps
  <2>. QED  BY <2>1, <2>2
<1>3. PullInv /\ MarkFits => UnconfirmedOnlyByExhaustion
  BY DEF PullInv, HostFits, BoardFits, MarkFits, Doomed, Completed, AllServed, UnconfirmedOnlyByExhaustion
<1>. QED  BY <1>1, <1>2, <1>3, Always, PTL DEF PullSpec

-----------------------------------------------------------------------------
(* The promise.                                                             *)

\* Every behaviour of the pull is one of AuditPromise: the board marks a
\* candidate `audited` only of words the host holds in full, the mark is final
\* and no ARM that waits for the audit precedes it.
THEOREM Implements == PullSpec => KeepsPromise
<1>1. PullInit => Promise!Init
  BY DEF PullInit, Promise!Init
<1>2. PullInv /\ [PullNext]_pullVars => [Promise!Next]_<<audits, mark, armed>>
  <2>. SUFFICES ASSUME PullInv, [PullNext]_pullVars
                PROVE  Promise!Next \/ UNCHANGED <<audits, mark, armed>>
    OBVIOUS
  <2>0. BoardFits /\ HostFits /\ LinesToHost /\ LinesToBoard /\ Chunks = 0 .. N - 1
    BY DEF PullInv, Chunks
  <2>1. CASE UNCHANGED pullVars
    BY <2>1 DEF pullVars, board, host, session
  <2>2. ASSUME NEW late, Expire(late), stage = "pull", UNCHANGED <<audits, armed>>
        PROVE  Promise!Next \/ UNCHANGED <<audits, mark, armed>>
    BY <2>0, <2>2 DEF Expire, EndPull, BoardFits, Promise!Next, Promise!GiveUp
  <2>3. CASE BoardDone
    <3>1. h2b # << >> /\ Head(h2b).type = "DONE" /\ stage = "pull" /\ UNCHANGED <<audits, armed>>
      BY <2>3 DEF BoardDone, Hears, host, session
    <3>2. Completed
      BY <2>0, <3>1, Taken DEF LinesToBoard
    <3>3. audits = Chunks /\ mark = "open"
      BY <2>0, <3>1, <3>2 DEF HostFits, BoardFits
    <3>4. mark' \in {"audited", "replayed-only"}
      BY <2>3 DEF BoardDone, EndPull
    <3>. QED  BY <2>0, <3>1, <3>3, <3>4 DEF Promise!Next, Promise!Confirm, Promise!GiveUp
  <2>4. CASE BoardAbort
    BY <2>0, <2>4 DEF BoardAbort, Hears, EndPull, BoardFits, host, session, Promise!Next, Promise!GiveUp
  <2>5. CASE BoardIgnore \/ BoardBound
    <3>1. stage = "pull" /\ UNCHANGED <<audits, armed>>
      BY <2>5 DEF BoardIgnore, BoardBound, host, session
    <3>2. Expire(0) \/ Expire(1) \/ UNCHANGED mark
      BY <2>5 DEF BoardIgnore, BoardBound
    <3>. QED  BY <2>2, <3>1, <3>2
  <2>6. CASE BoardArm
    BY <2>6 DEF BoardArm, MayArm, host, session, Promise!Next, Promise!Arm
  <2>7. CASE BoardAnnounce \/ BoardServe \/ BoardRecord \/ BoardDiscard
    BY <2>7 DEF BoardAnnounce, BoardServe, BoardRecord, BoardDiscard, board, host, session
  <2>8. CASE HostVerify
    <3>1. chunk \in 0 .. N - 1 /\ audits' = audits \cup {chunk} /\ UNCHANGED <<mark, armed>>
      BY <2>0, <2>8 DEF HostVerify, HostFits, board
    <3>. QED  BY <3>1 DEF Promise!Next, Promise!Hold
  <2>9. CASE HostUnpulledAudit
    <3>1. /\ HostHears("AUDIT") /\ UNCHANGED board /\ audits' = audits \cup {Head(b2h).chunk}
          /\ UNCHANGED <<mark, armed>>
      BY <2>9 DEF HostUnpulledAudit, board
    <3>2. Head(b2h).chunk \in 0 .. N - 1
      BY <2>0, <3>1, ChunkTaken
    <3>. QED  BY <3>1, <3>2 DEF Promise!Next, Promise!Hold
  <2>10. CASE HostReady \/ HostReadyAgain \/ HostWrongChunk \/ HostWait \/ HostRecord \/ HostTimeout
              \/ HostCrcFailed \/ HostMalformed \/ HostAfterEnd
    BY <2>10 DEF HostReady, HostReadyAgain, HostWrongChunk, HostWait, HostRecord, HostTimeout,
                 HostCrcFailed, HostMalformed, HostAfterEnd, NoPullChange, AttemptFailed, FailOverBudget,
                 FailPull, Settle, board, host, session
  <2>. QED  BY <2>1, <2>3, <2>4, <2>5, <2>6, <2>7, <2>8, <2>9, <2>10
            DEF PullNext, BoardNext, HostNext, Over
<1>. QED  BY <1>1, <1>2, Always, PTL DEF PullSpec, KeepsPromise, Promise!Spec

\* An epoch that ends inside a pull fails that pull and tells the board with
\* exactly one ABORT, whichever budget was crossed and whichever attempt the
\* last line was (l6_console.py on_line).
THEOREM EndsAborted == PullSpec => EndedPullIsAborted
<1>1. [PullNext]_pullVars => [pending /\ end = "open" /\ end' # "open" => ~pending' /\ aborts' = aborts + 1]_pullVars
  <2>. SUFFICES ASSUME PullNext, pending, end = "open", end' # "open"
                PROVE  ~pending' /\ aborts' = aborts + 1
    OBVIOUS
  <2>1. CASE BoardNext \/ Over
    BY <2>1 DEF BoardNext, BoardAnnounce, BoardServe, BoardDone, BoardAbort, BoardIgnore, BoardBound,
                BoardArm, BoardRecord, BoardDiscard, Over, pullVars, host
  <2>2. CASE HostCrcFailed
    BY <2>2 DEF HostCrcFailed, FailOverBudget, FailPull, Settle
  <2>3. CASE HostMalformed
    BY <2>3 DEF HostMalformed, FailPull, Settle
  <2>4. CASE HostReady \/ HostReadyAgain \/ HostVerify \/ HostWrongChunk \/ HostUnpulledAudit
             \/ HostWait \/ HostRecord \/ HostTimeout \/ HostAfterEnd
    BY <2>4 DEF HostReady, HostReadyAgain, HostVerify, HostWrongChunk, HostUnpulledAudit, HostWait,
                HostRecord, HostTimeout, HostAfterEnd, host
  <2>. QED  BY <2>1, <2>2, <2>3, <2>4 DEF PullNext, HostNext
<1>. QED  BY <1>1, PTL DEF PullSpec, EndedPullIsAborted
=============================================================================
