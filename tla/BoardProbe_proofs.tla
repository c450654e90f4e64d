-------------------------- MODULE BoardProbe_proofs --------------------------
(***************************************************************************)
(* Proofs about the probes of a board, for any chains that keep what       *)
(* ProbeAssumption says, any number of processes, restarts and lost        *)
(* banners: one attempt per ruling, and what a chain records of its stages *)
(* and concludes from them is so, although the board may restart unseen    *)
(* at any moment.                                                          *)
(***************************************************************************)
EXTENDS BoardProbe, FiniteSetTheorems, TLAPS

\* The steps of a stage, and the place of the session before the first.
Transferring == {"transfer", "readout", "cleanup"}
Working == {"read", "write", "clock", "sample"} \cup Transferring
InChain == {"begin", "jtag", "finish"} \cup Working
Setup == {"precheck", "identity", "load", "marker"}

\* The verdict of a stage that lets the chain go on.
Good(k) == IF k = "read" THEN "PASS" ELSE IF k = "write" THEN "WRITTEN" ELSE "OK"

\* Every variable the proofs rest on holds a value of its kind.
Verdicts == PayloadStops \cup {None, "PASS", "WRITTEN", "OK", "CONTROL_UNSTABLE"}
Recs == [stage : Nat, verdict : Verdicts, readout : Buffers, delivered : Buffers \cup {None}, boot : Nat]
TypeInv ==
    /\ boot \in Nat /\ stage \in Nat
    /\ buffer \in Buffers /\ readout \in Buffers /\ delivered \in Buffers \cup {None}
    /\ words \in {"v0", "v1", "dead"}
    /\ samples \in Seq({"v0", "v1", "dead"})
    /\ records \in Seq(Recs)

\* The board: nothing is left of the fabric once it restarted.
BoardInv ==
    /\ program \in Programs
    /\ boot \in 0 .. MaxResets
    /\ fabric \in Frames \cup {None}
    /\ home # Unset => home \in Nat /\ home <= boot
    /\ home # Unset /\ boot # home => ~pldone /\ words = "dead" /\ fabric = None

\* The ruling: before its claim nothing has happened, afterwards one process
\* has the port.
RulingInv ==
    /\ IF consumed THEN \E r \in Runners : opened = {r} ELSE opened = {}
    /\ ~consumed => step = "off" /\ outcome = None /\ home = Unset /\ epoch = 0 /\ stage = 0
                    /\ identity = Unset /\ records = << >> /\ samples = << >> /\ delivered = None
    /\ outcome # None => step = "off"
    /\ step \in {"off"} \cup Setup \cup InChain

\* The setup: nothing is recorded before the marker is set.
SetupInv ==
    step \in Setup =>
      /\ epoch = 0 /\ stage = 0 /\ records = << >> /\ samples = << >> /\ delivered = None
      /\ step \in {"load", "marker"} => identity = 0
      /\ step = "marker" <=> home # Unset

\* Where the chain stands.
StageInv ==
    step \in InChain =>
      /\ epoch = 0 /\ identity = 0 /\ home # Unset
      /\ stage \in 1 .. Len(program) + 1 /\ (step = "finish" <=> stage = Len(program) + 1)
      /\ step \in Transferring => This.kind = "read"
      /\ step \in Working \ Transferring => This.kind = step
      /\ step = "jtag" => This.kind = "jtag" /\ sealed = records
      /\ Len(records) = stage - 1
      /\ \A i \in 1 .. stage - 1 :
           /\ program[i].kind # "jtag"
           /\ records[i].stage = i /\ records[i].verdict = Good(program[i].kind)

\* In which boot the chain stands: the marker is gone with the boot that set
\* it, so a stage that begins is in the boot of all before it; the first stage
\* that touches the fabric finds out if the load was lost before the marker.
BootInv ==
    step \in InChain =>
      /\ plmark \in Nat /\ home <= plmark /\ plmark <= boot
      /\ marker \in {Unset, plmark} /\ (marker # Unset => marker = boot)
      /\ step \in Transferring \/ stage > 2 \/ (stage > 1 /\ program[1].kind = "read") => plmark = home
      /\ \A i \in 1 .. stage - 1 :
           /\ records[i].boot \in Nat /\ records[i].boot <= boot
           /\ plmark = home => home <= records[i].boot
           /\ plmark = home /\ (i < stage - 1 \/ step \in Working) => records[i].boot = home

\* What the destination buffer holds of a transfer, and what was read of it.
Shows(buf) == \/ buf = "garbage"
              \/ buf = "prefill" /\ delivered = None
              \/ buf = delivered /\ buf \in Frames \cup {"partly", "zeros", "neighbour", "twins"}
ReadInv ==
    /\ step \in {"read", "write", "clock", "sample", "transfer"} => delivered = None
    /\ step = "transfer" => buffer \in {"prefill", "garbage"}
    /\ step = "readout" => Shows(buffer)
    /\ step = "cleanup" => Shows(readout)

\* What the observation has by now.
SampleInv ==
    step \in InChain =>
      IF program[1].kind = "clock"
      THEN /\ stage <= 2 => samples = << >>
           /\ stage = 3 => Len(samples) = 1
           /\ stage > 3 => Len(samples) > 1 /\ samples[1] = samples[2]
           /\ samples # << >> => baseline = samples[1]
           /\ stage <= 3 => \A i \in 1 .. stage - 1 : records[i].delivered = None
      ELSE samples = << >>

\* The engine: a payload verdict ends the chain, and not before the cleanup.
CleanInv ==
    outcome # None /\ records # << >> /\ Last(records).verdict \in PayloadStops => ~synced

IInv == /\ TypeInv /\ BoardInv /\ RulingInv /\ SetupInv /\ StageInv /\ BootInv /\ ReadInv /\ SampleInv /\ CleanInv
        /\ VerdictIsTrue /\ BlameNeedsControl /\ PassIsWhole

-----------------------------------------------------------------------------
(* The chains and the records.                                              *)

\* What is known of the chain that runs.
LEMMA ChainOf ==
    ASSUME BoardInv
    PROVE  /\ program \in Seq([kind : STRING, frame : STRING, before : STRING])
           /\ Len(program) \in Nat /\ Len(program) > 1 /\ DOMAIN program = 1 .. Len(program)
           /\ Chained(program) /\ MaxResets \in Nat
<1>1. program \in Seq([kind : STRING, frame : STRING, before : STRING]) /\ Chained(program) /\ MaxResets \in Nat
  BY ProbeAssumption DEF BoardInv
<1>2. Len(program) > 1
  BY <1>1 DEF Chained
<1> QED
  BY <1>1, <1>2

\* A record added is the stage as it stands; those before are what they were.
LEMMA RecordAdded ==
    ASSUME TypeInv, NEW v \in Verdicts, Recorded(v)
    PROVE  /\ records' \in Seq(Recs) /\ Len(records') = Len(records) + 1 /\ Len(records) \in Nat
           /\ \A i \in 1 .. Len(records) : records'[i] = records[i]
           /\ records'[Len(records) + 1] = [stage |-> stage, verdict |-> v, readout |-> readout,
                                            delivered |-> delivered, boot |-> boot]
           /\ records' # << >> /\ Last(records') = records'[Len(records) + 1]
           /\ DOMAIN records' = 1 .. (Len(records) + 1)
<1> DEFINE r == [stage |-> stage, verdict |-> v, readout |-> readout, delivered |-> delivered, boot |-> boot]
<1>1. r \in Recs /\ records \in Seq(Recs)
  BY DEF TypeInv, Recs
<1>2. records' = Append(records, r)
  BY DEF Recorded
<1> HIDE DEF r
<1>3. /\ records' \in Seq(Recs) /\ Len(records') = Len(records) + 1 /\ Len(records) \in Nat
      /\ \A i \in 1 .. Len(records) : records'[i] = records[i]
      /\ records'[Len(records) + 1] = r /\ records' # << >>
  BY <1>1, <1>2
<1>4. Last(records') = records'[Len(records) + 1] /\ DOMAIN records' = 1 .. (Len(records) + 1)
  BY <1>3 DEF Last
<1> QED
  BY <1>3, <1>4 DEF r

\* The table judges a payload stop or PASS.
LEMMA TableJudges ==
    /\ Adjudicate(readout, This.frame) \in PayloadStops \cup {"PASS"}
    /\ Reclassified(Adjudicate(readout, This.frame)) \in PayloadStops \cup {"PASS"}
<1>1. \A buf, want : Adjudicate(buf, want) \in PayloadStops \cup {"PASS"}
  BY DEF Adjudicate, PayloadStops
<1> DEFINE v == Adjudicate(readout, This.frame)
<1>2. v \in PayloadStops \cup {"PASS"}
  BY <1>1
<1> HIDE DEF v
<1>3. Reclassified(v) \in {v, "PRE_WRITE_CONTENT"}
  BY DEF Reclassified
<1>4. "PRE_WRITE_CONTENT" \in PayloadStops
  BY DEF PayloadStops
<1> QED
  BY <1>2, <1>3, <1>4 DEF v

\* Every step keeps the kinds.
LEMMA TypeStep ==
    ASSUME TypeInv, BoardInv, [Next]_vars
    PROVE  TypeInv'
<1> USE DEF TypeInv
<1>a. ASSUME UNCHANGED <<boot, buffer, words, stage, readout, delivered, samples, records>> PROVE TypeInv'
  BY <1>a
<1>w. None \in Verdicts /\ "WRITTEN" \in Verdicts /\ "OK" \in Verdicts /\ "CONTROL_UNSTABLE" \in Verdicts
  BY DEF Verdicts
<1>b. ASSUME NEW v \in Verdicts, Recorded(v) PROVE records' \in Seq(Recs)
  BY <1>b, RecordAdded
<1>v. Reclassified(Adjudicate(readout, This.frame)) \in Verdicts
  BY TableJudges DEF Verdicts
<1>c. ASSUME StageStops PROVE records' \in Seq(Recs) /\ stage' = stage
  BY <1>c, <1>b, <1>w DEF StageStops
<1>d. ASSUME NEW v \in Verdicts, StageEnds(v) PROVE records' \in Seq(Recs) /\ stage' \in Nat
  BY <1>d, <1>b DEF StageEnds
<1>1. CASE (\E r \in Runners : CheckRuling(r) \/ ClaimRuling(r) \/ Crash(r)) \/ Over \/ UNCHANGED vars
  BY <1>1, <1>a DEF CheckRuling, ClaimRuling, Crash, Over, vars, board, books, transfer
<1>2. CASE Reset
  BY <1>2 DEF Reset, Restarted, Buffers, books, transfer
<1>3. CASE Drift
  BY <1>3 DEF Drift, books, transfer
<1>4. CASE Refused \/ Precheck \/ VerifyIdentity \/ Seal \/ JtagRead \/ Finish
  BY <1>4, <1>a DEF Refused, Precheck, VerifyIdentity, Seal, JtagRead, Finish, board, transfer
<1>5. CASE LoadCarrier
  BY <1>5 DEF LoadCarrier, transfer
<1>6. CASE SetMarker
  BY <1>6 DEF SetMarker, transfer
<1>7. CASE BeginStage
  BY <1>7 DEF BeginStage, board, Buffers, None
<1>8. CASE Gates
  BY <1>8, <1>c DEF Gates, Buffers, transfer
<1>9. CASE Transfer
  BY <1>9, <1>c DEF Transfer, Buffers, BoardInv
<1>10. CASE Readout
  BY <1>10 DEF Readout, board
<1>11. CASE Cleanup
  BY <1>11, <1>b, <1>c, <1>d, <1>v DEF Cleanup, transfer
<1>12. CASE WriteFrame
  BY <1>12, <1>c, <1>d, <1>w DEF WriteFrame, transfer
<1>13. CASE ReadClock
  BY <1>13, <1>c, <1>d, <1>w DEF ReadClock, transfer, board
<1>14. CASE Observe
  <2>1. samples' \in Seq({"v0", "v1", "dead"}) /\ UNCHANGED <<boot, buffer, words, readout, delivered>>
    BY <1>14 DEF Observe, board, transfer
  <2>2. records' \in Seq(Recs) /\ stage' \in Nat
    BY <1>14, <1>b, <1>d, <1>w DEF Observe
  <2> QED
    BY <2>1, <2>2
<1> QED
  BY <1>1, <1>2, <1>3, <1>4, <1>5, <1>6, <1>7, <1>8, <1>9, <1>10, <1>11, <1>12, <1>13, <1>14 DEF Next, SessionStep

\* The steps of the host that leave the board as it is.
Asking == \/ (\E r \in Runners : CheckRuling(r) \/ ClaimRuling(r) \/ Crash(r)) \/ Over
          \/ Precheck \/ VerifyIdentity \/ BeginStage \/ Readout \/ ReadClock \/ Observe \/ Seal \/ JtagRead \/ Finish

\* Every step keeps what is known of the board.
LEMMA BoardStep ==
    ASSUME TypeInv, BoardInv, SetupInv, StageInv, RulingInv, [Next]_vars
    PROVE  BoardInv'
<1> USE DEF BoardInv
<1>0. MaxResets \in Nat /\ boot \in Nat
  BY ProbeAssumption
<1>1. CASE Asking \/ UNCHANGED vars
  BY <1>1 DEF Asking, CheckRuling, ClaimRuling, Crash, Over, vars, board, Precheck, VerifyIdentity, BeginStage,
              Readout, ReadClock, Observe, Seal, JtagRead, Finish
<1>2. CASE Reset
  <2>1. boot + 1 \in 0 .. MaxResets
    BY <1>0, <1>2 DEF Reset
  <2>2. home # Unset => home # boot + 1
    BY <1>0
  <2> QED
    BY <1>0, <1>2, <2>1, <2>2 DEF Reset, Restarted, None
<1>3. CASE Drift
  BY <1>3 DEF Drift
<1>4. CASE Refused
  BY <1>4 DEF Refused
<1>5. CASE LoadCarrier
  <2>1. CASE UNCHANGED <<fabric, pldone, words, home>>
    BY <1>5, <2>1 DEF LoadCarrier
  <2>2. CASE fabric' = "base" /\ home' = boot
    BY <1>0, <1>5, <2>2 DEF LoadCarrier, Frames
  <2> QED
    BY <1>5, <2>1, <2>2 DEF LoadCarrier
<1>6. CASE SetMarker \/ Gates \/ Transfer \/ Cleanup
  BY <1>6 DEF SetMarker, Gates, Transfer, Cleanup
<1>7. CASE WriteFrame
  <2>1. This.frame \in Frames
    <3>1. stage \in DOMAIN program /\ This.kind = "write"
      BY <1>7, ChainOf DEF WriteFrame, Answered, StageInv, InChain, Working, Transferring
    <3> QED
      BY <3>1, ChainOf DEF Chained, This
  <2> QED
    BY <1>7, <2>1 DEF WriteFrame
<1> QED
  BY <1>1, <1>2, <1>3, <1>4, <1>5, <1>6, <1>7 DEF Next, SessionStep, Asking

\* A stage that ends ends in the chain.
LEMMA Onwards ==
    NextStage \in {"finish", "begin"}
BY DEF NextStage

\* The steps are distinct.
LEMMA Steps ==
    /\ "off" \notin Setup \cup InChain /\ Setup \cap InChain = {}
    /\ \A s \in Working : s \in InChain
BY DEF Setup, InChain, Working, Transferring

\* One process gets the port, and it starts from nothing.
LEMMA RulingStep ==
    ASSUME TypeInv, BoardInv, RulingInv, SetupInv, StageInv, [Next]_vars
    PROVE  RulingInv' /\ SetupInv'
<1> USE DEF RulingInv, SetupInv
<1>1. CASE \E r \in Runners : ClaimRuling(r)
  <2>1. PICK r \in Runners : ClaimRuling(r)
    BY <1>1
  <2>2. UNCHANGED <<outcome, home, epoch, stage, identity, records, samples, delivered>>
    BY <2>1 DEF ClaimRuling, books, session, transfer
  <2>3. CASE consumed
    BY <2>1, <2>2, <2>3 DEF ClaimRuling
  <2>4. CASE ~consumed
    <3>1. consumed' /\ opened' = {r} /\ step' = "precheck"
      BY <2>1, <2>4 DEF ClaimRuling
    <3> QED
      BY <2>2, <2>4, <3>1 DEF Setup
  <2> QED
    BY <2>3, <2>4
<1>2. CASE (\E r \in Runners : CheckRuling(r) \/ Crash(r)) \/ Over \/ UNCHANGED vars
  <2>1. /\ UNCHANGED <<consumed, opened, outcome, home, epoch, stage, identity, records, samples, delivered>>
        /\ step' = step \/ step' = "off"
    BY <1>2 DEF CheckRuling, Crash, Over, vars, host, books, session, transfer
  <2> QED
    BY <2>1, Steps
<1>3. CASE Reset \/ Drift
  <2>1. UNCHANGED <<consumed, opened, step, outcome, home, epoch, stage, identity, records, samples, delivered>>
    BY <1>3 DEF Reset, Drift, host, books, session, transfer
  <2> QED
    BY <2>1
<1>h. boot # Unset
  BY ProbeAssumption DEF BoardInv, Unset
<1>c. SessionStep => step # "off" /\ consumed /\ UNCHANGED <<consumed, opened>>
  BY DEF SessionStep, Refused, Precheck, VerifyIdentity, LoadCarrier, SetMarker, BeginStage, Gates, Transfer,
         Readout, Cleanup, WriteFrame, ReadClock, Observe, Seal, JtagRead, Finish, Answered, Stopped, Going,
         StageStops, StageEnds, host
<1>s. ASSUME NEW w, Stopped(w), SessionStep PROVE RulingInv' /\ SetupInv'
  BY <1>c, <1>s, Steps DEF Stopped
<1>g. ASSUME NEW s \in InChain, Going(s), SessionStep PROVE RulingInv' /\ SetupInv'
  BY <1>c, <1>g, Steps DEF Going
<1>e. ASSUME NEW v, StageEnds(v), SessionStep PROVE RulingInv' /\ SetupInv'
  BY <1>g, <1>e, Onwards DEF StageEnds, InChain
<1>4. CASE Precheck \/ VerifyIdentity \/ LoadCarrier
  <2>1. CASE \E w : Stopped(w)
    BY <1>4, <2>1, <1>s DEF SessionStep
  <2>2. CASE Precheck /\ Going("identity")
    <3>1. step = "precheck" /\ step' = "identity" /\ UNCHANGED <<outcome, home, epoch, stage, records, samples, delivered>>
      BY <2>2 DEF Precheck, Answered, Going, session, transfer
    <3> QED
      BY <1>4, <1>c, <3>1, Steps DEF SessionStep, Setup
  <2>3. CASE VerifyIdentity /\ Going("load")
    <3>1. /\ step = "identity" /\ step' = "load" /\ identity' = epoch
          /\ UNCHANGED <<outcome, home, epoch, stage, records, samples, delivered>>
      BY <2>3 DEF VerifyIdentity, Answered, Going, transfer
    <3> QED
      BY <1>4, <1>c, <3>1, Steps DEF SessionStep, Setup
  <2>4. CASE LoadCarrier /\ Going("marker") /\ home' = boot
    <3>1. /\ step = "load" /\ step' = "marker" /\ identity = 0
          /\ UNCHANGED <<outcome, epoch, identity, stage, records, samples, delivered>>
      BY <2>4 DEF LoadCarrier, Answered, Going, session, transfer, Setup
    <3> QED
      BY <1>4, <1>c, <1>h, <2>4, <3>1, Steps DEF SessionStep, Setup
  <2> QED
    BY <1>4, <2>1, <2>2, <2>3, <2>4 DEF Precheck, VerifyIdentity, LoadCarrier
<1>5. CASE SetMarker
  <2>1. "begin" \in InChain /\ Going("begin")
    BY <1>5 DEF SetMarker, InChain
  <2> QED
    BY <1>5, <2>1, <1>g DEF SessionStep
<1>6. CASE Refused \/ JtagRead \/ Finish
  BY <1>6, <1>s DEF Refused, JtagRead, Finish, SessionStep
<1>7. CASE Gates \/ Transfer \/ Readout \/ Cleanup \/ WriteFrame \/ ReadClock \/ Seal
  <2>1. {"transfer", "readout", "cleanup", "jtag"} \subseteq InChain
    BY DEF InChain, Working, Transferring
  <2> QED
    BY <1>7, <2>1, <1>s, <1>g, <1>e DEF Gates, Transfer, Readout, Cleanup, WriteFrame, ReadClock, Seal, StageStops, SessionStep
<1>8. CASE BeginStage
  <2>1. ASSUME Going(This.kind) PROVE RulingInv' /\ SetupInv'
    <3>1. This.kind \in InChain
      <4>1. stage \in DOMAIN program /\ This.kind # "jtag"
        BY <1>8, ChainOf DEF BeginStage, Answered, StageInv, InChain
      <4> QED
        BY <4>1, ChainOf DEF Chained, This, InChain, Working
    <3> QED
      BY <1>8, <2>1, <3>1, <1>g DEF SessionStep
  <2> QED
    BY <1>8, <2>1, <1>s DEF BeginStage, SessionStep
<1>9. CASE Observe
  BY <1>9, <1>s, <1>e DEF Observe, SessionStep
<1> QED
  BY <1>1, <1>2, <1>3, <1>4, <1>5, <1>6, <1>7, <1>8, <1>9 DEF Next, SessionStep

-----------------------------------------------------------------------------
(* Where the chain stands.                                                  *)

\* At work, the stage is one of the chain's, and not the verifier.
LEMMA AtWork ==
    ASSUME TypeInv, BoardInv, StageInv, step \in Working \cup {"begin", "jtag"}
    PROVE  /\ stage \in 1 .. Len(program) /\ stage \in DOMAIN program /\ Len(records) = stage - 1
           /\ step \in Working => This.kind \in {"read", "write", "clock", "sample"}
           /\ home # Unset /\ epoch = 0 /\ identity = 0
<1>1. step \in InChain /\ step # "finish"
  BY DEF InChain, Working, Transferring
<1>2. /\ stage \in 1 .. Len(program) + 1 /\ stage # Len(program) + 1 /\ Len(records) = stage - 1
      /\ home # Unset /\ epoch = 0 /\ identity = 0
  BY <1>1 DEF StageInv
<1>3. stage \in 1 .. Len(program) /\ stage \in DOMAIN program
  BY <1>2, ChainOf
<1>4. step \in Working => This.kind \in {"read", "write", "clock", "sample"}
  BY <1>1 DEF StageInv, Working, Transferring
<1> QED
  BY <1>2, <1>3, <1>4

\* A stage goes on to its next commands.
LEMMA StageGoesOn ==
    ASSUME TypeInv, BoardInv, StageInv, step \in Working \cup {"begin"},
           UNCHANGED <<program, stage, records, epoch, identity, home>>,
           step' \in Working, IF step' \in Transferring THEN This.kind = "read" ELSE This.kind = step'
    PROVE  StageInv'
<1>1. step \in InChain /\ step # "finish" /\ step' # "finish" /\ step' # "jtag"
  BY DEF InChain, Working, Transferring
<1>2. This' = This
  BY DEF This
<1> QED
  BY <1>1, <1>2 DEF StageInv

\* A good stage is recorded as such, and the next one begins.
LEMMA StageIsOver ==
    ASSUME TypeInv, BoardInv, StageInv, step \in Working, StageEnds(Good(This.kind)),
           UNCHANGED <<program, epoch, identity, home>>
    PROVE  /\ StageInv'
           /\ stage' = stage + 1 /\ step' \in {"begin", "finish"} /\ Recorded(Good(This.kind))
           /\ Len(records) = stage - 1 /\ stage \in 1 .. Len(program) /\ This.kind # "jtag"
<1>1. /\ stage \in 1 .. Len(program) /\ Len(records) = stage - 1 /\ home # Unset /\ epoch = 0 /\ identity = 0
      /\ This.kind \in {"read", "write", "clock", "sample"}
  BY AtWork
<1>2. Recorded(Good(This.kind)) /\ Good(This.kind) \in Verdicts /\ stage' = stage + 1 /\ step' = NextStage
  BY DEF StageEnds, Going, Good, Verdicts
<1>3. /\ Len(records') = stage
      /\ \A i \in 1 .. stage - 1 : records'[i] = records[i]
      /\ records'[stage].stage = stage /\ records'[stage].verdict = Good(This.kind)
  <2>1. Len(records) + 1 = stage
    BY <1>1
  <2>2. /\ Len(records') = Len(records) + 1 /\ \A i \in 1 .. Len(records) : records'[i] = records[i]
        /\ records'[Len(records) + 1].stage = stage /\ records'[Len(records) + 1].verdict = Good(This.kind)
    <3> DEFINE v == Good(This.kind)
    <3>1. v \in Verdicts /\ Recorded(v)
      BY <1>2
    <3> HIDE DEF v
    <3>2. /\ Len(records') = Len(records) + 1 /\ \A i \in 1 .. Len(records) : records'[i] = records[i]
          /\ records'[Len(records) + 1] = [stage |-> stage, verdict |-> v, readout |-> readout,
                                           delivered |-> delivered, boot |-> boot]
      BY <3>1, RecordAdded
    <3> QED
      BY <3>2 DEF v
  <2> QED
    BY <1>1, <2>1, <2>2
<1>4. Len(program) \in Nat /\ stage \in Nat /\ step \in InChain
  BY ChainOf, Steps DEF TypeInv
<1>5. stage' \in 1 .. Len(program) + 1 /\ (step' = "finish" <=> stage' = Len(program) + 1) /\ step' \in {"begin", "finish"}
  BY <1>1, <1>2, <1>4 DEF NextStage
<1>6. Len(records') = stage' - 1
  BY <1>1, <1>2, <1>3, <1>4
<1>7. ASSUME NEW i \in 1 .. stage' - 1
      PROVE  /\ program[i].kind # "jtag"
             /\ records'[i].stage = i /\ records'[i].verdict = Good(program[i].kind)
  <2>1. i \in 1 .. stage - 1 \/ i = stage
    BY <1>2, <1>4
  <2>2. CASE i \in 1 .. stage - 1
    BY <1>3, <1>4, <2>2 DEF StageInv
  <2>3. CASE i = stage
    BY <1>1, <1>3, <2>3 DEF This
  <2> QED
    BY <2>1, <2>2, <2>3
<1>8. StageInv'
  BY <1>1, <1>5, <1>6, <1>7 DEF StageInv, Working, Transferring
<1> QED
  BY <1>1, <1>2, <1>5, <1>8

\* Every step keeps the chain in its place.
LEMMA StageStep ==
    ASSUME TypeInv, BoardInv, RulingInv, SetupInv, StageInv, [Next]_vars
    PROVE  StageInv'
<1>0. ASSUME step' = "off" PROVE StageInv'
  BY <1>0, Steps DEF StageInv
<1>k. ASSUME UNCHANGED <<step, stage, program, records, sealed, epoch, identity, home>> PROVE StageInv'
  BY <1>k DEF StageInv, This
<1>s. ASSUME NEW w, Stopped(w) PROVE StageInv'
  BY <1>0, <1>s DEF Stopped
<1>1. CASE \E r \in Runners : ClaimRuling(r)
  <2>1. PICK r \in Runners : ClaimRuling(r)
    BY <1>1
  <2>2. CASE consumed
    BY <2>1, <2>2, <1>k DEF ClaimRuling, session, books
  <2>3. CASE ~consumed
    BY <2>1, <2>3, Steps DEF ClaimRuling, StageInv, Setup
  <2> QED
    BY <2>2, <2>3
<1>2. CASE (\E r \in Runners : CheckRuling(r) \/ Crash(r)) \/ Over \/ UNCHANGED vars \/ Reset \/ Drift
  <2>1. /\ UNCHANGED <<stage, program, records, sealed, epoch, identity, home>>
        /\ step' = step \/ step' = "off"
    BY <1>2 DEF CheckRuling, Crash, Over, vars, Reset, Drift, books, session
  <2> QED
    BY <2>1, <1>0, <1>k
<1>3. CASE Precheck \/ VerifyIdentity \/ LoadCarrier
  <2>1. step' \in {"off"} \cup Setup
    BY <1>3 DEF Precheck, VerifyIdentity, LoadCarrier, Stopped, Going, Setup
  <2> QED
    BY <2>1, Steps DEF StageInv
<1>4. CASE SetMarker
  <2>1. step = "marker" /\ step \in Setup /\ "begin" \in InChain
    BY <1>4 DEF SetMarker, Answered, Setup, InChain
  <2>2. home # Unset /\ epoch = 0 /\ identity = 0 /\ records = << >> /\ Len(records) = 0
    BY <2>1 DEF SetupInv
  <2>3. stage' = 1 /\ step' = "begin" /\ UNCHANGED <<home, epoch, identity, records, program>>
    BY <1>4 DEF SetMarker, Going
  <2>4. 1 \in 1 .. Len(program) + 1 /\ 1 # Len(program) + 1
    BY ChainOf
  <2> QED
    BY <2>2, <2>3, <2>4 DEF StageInv, Working, Transferring
<1>5. CASE Refused \/ JtagRead \/ Finish
  BY <1>5, <1>s DEF Refused, JtagRead, Finish
<1>6. CASE BeginStage
  <2>1. ASSUME Going(This.kind) PROVE StageInv'
    <3>1. step = "begin" /\ step \in Working \cup {"begin"} /\ This.kind # "jtag"
      BY <1>6 DEF BeginStage, Answered
    <3>2. stage \in DOMAIN program
      BY <3>1, AtWork
    <3>3. This.kind \in Working \ Transferring
      BY <3>1, <3>2, ChainOf DEF Chained, This, Working, Transferring
    <3>4. step' = This.kind /\ UNCHANGED <<program, stage, records, home>>
      BY <1>6, <2>1 DEF BeginStage, Going
    <3>5. UNCHANGED <<epoch, identity>>
      BY <1>6, <2>1, <3>4, <3>3, Steps DEF BeginStage, session, Stopped, Working
    <3> QED
      BY <3>1, <3>3, <3>4, <3>5, StageGoesOn
  <2> QED
    BY <1>6, <2>1, <1>s DEF BeginStage
<1>7. CASE Gates \/ Transfer \/ Readout
  <2>1. CASE StageStops
    BY <2>1, <1>s DEF StageStops
  <2>2. CASE \E s \in Transferring : step \in {"read", "transfer", "readout"} /\ Going(s) /\ UNCHANGED <<records, stage>>
    <3>1. step \in Working /\ step \in InChain
      BY <2>2, Steps DEF Working, Transferring
    <3>2. This.kind = "read"
      BY <2>2, <3>1 DEF StageInv, Working, Transferring
    <3>3. UNCHANGED <<program, epoch, identity, home>>
      BY <1>7 DEF Gates, Transfer, Readout, session
    <3> QED
      BY <2>2, <3>1, <3>2, <3>3, StageGoesOn DEF Going, Working
  <2>3. Transferring = {"transfer", "readout", "cleanup"}
    BY DEF Transferring
  <2> QED
    BY <1>7, <2>1, <2>2, <2>3 DEF Gates, Transfer, Readout, Answered
<1>8. CASE Cleanup \/ WriteFrame \/ ReadClock \/ Observe
  <2>1. CASE \E w : Stopped(w)
    BY <2>1, <1>s
  <2>2. ASSUME StageEnds(Good(This.kind)) PROVE StageInv'
    <3>1. step \in Working /\ UNCHANGED <<program, epoch, identity, home>>
      BY <1>8 DEF Cleanup, WriteFrame, ReadClock, Observe, Answered, Working, Transferring, session
    <3> QED
      BY <2>2, <3>1, StageIsOver
  <2>3. step \in {"cleanup", "write", "clock", "sample"} /\ step \in InChain
    BY <1>8 DEF Cleanup, WriteFrame, ReadClock, Observe, Answered, InChain, Working, Transferring
  <2>4. CASE Cleanup
    <3>1. Good(This.kind) = "PASS"
      BY <2>4, <2>3 DEF Cleanup, Answered, StageInv, Good, Transferring
    <3> QED
      BY <2>1, <2>2, <2>4, <3>1 DEF Cleanup, StageStops
  <2>5. CASE WriteFrame
    <3>1. Good(This.kind) = "WRITTEN"
      BY <2>5, <2>3 DEF WriteFrame, Answered, StageInv, Good, Working, Transferring
    <3> QED
      BY <2>1, <2>2, <2>5, <3>1 DEF WriteFrame, StageStops
  <2>6. CASE ReadClock \/ Observe
    <3>1. Good(This.kind) = "OK"
      BY <2>6, <2>3 DEF ReadClock, Observe, Answered, StageInv, Good, Working, Transferring
    <3> QED
      BY <2>1, <2>2, <2>6, <3>1 DEF ReadClock, Observe, StageStops
  <2> QED
    BY <1>8, <2>4, <2>5, <2>6
<1>9. CASE Seal
  <2>1. step = "begin" /\ This.kind = "jtag" /\ sealed' = records /\ step' = "jtag"
        /\ UNCHANGED <<program, stage, records, epoch, identity, home>>
    BY <1>9 DEF Seal, Going, session
  <2>2. step \in InChain /\ step # "finish" /\ step' # "finish" /\ This' = This
    BY <2>1 DEF InChain, This
  <2> QED
    BY <2>1, <2>2 DEF StageInv, Working, Transferring
<1> QED
  BY <1>1, <1>2, <1>3, <1>4, <1>5, <1>6, <1>7, <1>8, <1>9 DEF Next, SessionStep

-----------------------------------------------------------------------------
(* In which boot it stands.                                                 *)

\* The numbers of the boots.
LEMMA Boots ==
    ASSUME BoardInv, BootInv, step \in InChain, home # Unset
    PROVE  /\ boot \in Nat /\ boot # Unset /\ home \in Nat /\ plmark \in Nat
           /\ home <= plmark /\ plmark <= boot /\ home <= boot
<1>1. boot \in Nat /\ boot # Unset
  BY ProbeAssumption DEF BoardInv, Unset
<1> QED
  BY <1>1 DEF BoardInv, BootInv

\* A stage that ends was in the boot that loaded the carrier if it saw the fabric.
LEMMA BootIsOver ==
    ASSUME TypeInv, BoardInv, StageInv, BootInv, step \in Working, step # "read",
           StageEnds(Good(This.kind)), UNCHANGED <<program, boot, marker, session, home>>,
           stage = 2 /\ program[1].kind = "clock" => words # "dead"
    PROVE  BootInv'
<1>1. /\ StageInv' /\ stage' = stage + 1 /\ step' \in {"begin", "finish"} /\ Recorded(Good(This.kind))
      /\ Len(records) = stage - 1 /\ stage \in 1 .. Len(program) /\ UNCHANGED <<epoch, identity, plmark>>
  BY StageIsOver DEF session
<1>2. step \in InChain /\ home # Unset /\ stage \in Nat
  BY Steps DEF StageInv, TypeInv
<1>3. boot \in Nat /\ home \in Nat /\ plmark \in Nat /\ home <= plmark /\ plmark <= boot /\ home <= boot
  BY <1>2, Boots
<1>4. /\ \A i \in 1 .. stage - 1 : records'[i] = records[i]
      /\ records'[stage].boot = boot
  <2> DEFINE v == Good(This.kind)
  <2>1. v \in Verdicts /\ Recorded(v)
    BY <1>1 DEF Good, Verdicts
  <2> HIDE DEF v
  <2>2. /\ \A i \in 1 .. Len(records) : records'[i] = records[i]
        /\ records'[Len(records) + 1] = [stage |-> stage, verdict |-> v, readout |-> readout,
                                         delivered |-> delivered, boot |-> boot]
    BY <2>1, RecordAdded
  <2>3. Len(records) + 1 = stage
    BY <1>1, <1>2
  <2> QED
    BY <1>1, <2>2, <2>3
<1>5. stage' > 2 \/ (stage' > 1 /\ program[1].kind = "read") => plmark = home
  <2>1. stage > 2 \/ (stage > 1 /\ program[1].kind = "read") => plmark = home
    BY <1>2 DEF BootInv
  <2>2. CASE stage = 2 /\ program[1].kind # "read"
    <3>1. program[1].kind = "clock"
      BY <2>2, ChainOf DEF Chained
    <3>2. boot = home
      BY <1>2, <2>2, <3>1 DEF BoardInv
    <3> QED
      BY <1>3, <3>2
  <2>3. CASE stage = 1 /\ program[1].kind = "read"
    <3>1. step \in Transferring
      BY <1>2, <2>3 DEF StageInv, This
    <3> QED
      BY <1>2, <3>1 DEF BootInv
  <2>4. CASE stage = 1 /\ program[1].kind # "read"
    BY <1>1, <2>4
  <2> QED
    BY <1>1, <1>2, <2>1, <2>2, <2>3, <2>4
<1>6. ASSUME NEW i \in 1 .. stage' - 1
      PROVE  /\ records'[i].boot \in Nat /\ records'[i].boot <= boot
             /\ plmark = home => home <= records'[i].boot
             /\ plmark = home /\ i < stage' - 1 => records'[i].boot = home
  <2>1. (i \in 1 .. stage - 1 /\ records'[i] = records[i]) \/ (i = stage /\ ~(i < stage' - 1))
    BY <1>1, <1>2, <1>4
  <2>2. CASE i \in 1 .. stage - 1 /\ records'[i] = records[i]
    BY <1>2, <2>2 DEF BootInv
  <2>3. CASE i = stage /\ ~(i < stage' - 1)
    BY <1>3, <1>4, <2>3
  <2> QED
    BY <2>1, <2>2, <2>3
<1>7. step' \notin Working /\ step' \notin Transferring
  BY <1>1 DEF Working, Transferring
<1> QED
  BY <1>1, <1>2, <1>5, <1>6, <1>7 DEF BootInv

\* Every step keeps the boots apart.
LEMMA BootStep ==
    ASSUME TypeInv, BoardInv, BoardInv', RulingInv, SetupInv, StageInv, StageInv', BootInv, [Next]_vars
    PROVE  BootInv'
<1>0. ASSUME step' \notin InChain PROVE BootInv'
  BY <1>0 DEF BootInv
<1>s. ASSUME NEW w, Stopped(w) PROVE BootInv'
  BY <1>0, <1>s, Steps DEF Stopped
\* The books stay, and the step asks for no more than the one before.
<1>k. ASSUME step \in InChain, UNCHANGED <<program, stage, records, home, plmark, marker, boot>>,
             step' \in Transferring => step \in Transferring \/ plmark = home,
             step' \in Working => step \in Working
      PROVE  BootInv'
  BY <1>k DEF BootInv
<1>1. CASE (\E r \in Runners : CheckRuling(r) \/ ClaimRuling(r) \/ Crash(r)) \/ Over \/ UNCHANGED vars \/ Drift
  <2>1. /\ UNCHANGED <<program, stage, records, home, plmark, marker, boot>>
        /\ step' = step \/ step' \in {"off", "precheck"}
    BY <1>1 DEF CheckRuling, ClaimRuling, Crash, Over, vars, Drift, board, books, session
  <2>2. "off" \notin InChain /\ "precheck" \notin InChain
    BY DEF InChain, Working, Transferring
  <2> QED
    BY <2>1, <2>2, <1>0, <1>k
<1>2. CASE Reset
  <2>1. UNCHANGED <<program, step, stage, records, home, plmark>> /\ boot' = boot + 1 /\ marker' = Unset
    BY <1>2 DEF Reset, Restarted, books, session
  <2>2. CASE step \in InChain
    <3>1. home # Unset
      BY <2>2 DEF StageInv
    <3>2. boot \in Nat /\ home \in Nat /\ plmark \in Nat /\ home <= plmark /\ plmark <= boot
      BY <2>2, <3>1, Boots
    <3>3. \A i \in 1 .. stage - 1 : records[i].boot \in Nat /\ records[i].boot <= boot'
      BY <2>1, <2>2, <3>2 DEF BootInv
    <3> QED
      BY <2>1, <2>2, <3>2, <3>3 DEF BootInv
  <2> QED
    BY <2>1, <2>2, <1>0
<1>3. CASE Precheck \/ VerifyIdentity \/ LoadCarrier
  <2>1. step' \in {"off"} \cup Setup
    BY <1>3 DEF Precheck, VerifyIdentity, LoadCarrier, Stopped, Going, Setup
  <2> QED
    BY <2>1, <1>0, Steps
<1>4. CASE SetMarker
  <2>1. step = "marker" /\ stage' = 1 /\ step' = "begin" /\ marker' = boot /\ plmark' = boot /\ UNCHANGED <<boot, home>>
    BY <1>4 DEF SetMarker, Answered, Going
  <2>2. home # Unset /\ boot \in Nat
    BY <2>1, ProbeAssumption DEF SetupInv, Setup, BoardInv
  <2>3. home <= boot
    BY <2>2 DEF BoardInv
  <2>4. \A i \in 1 .. stage' - 1 : FALSE
    BY <2>1
  <2> QED
    BY <2>1, <2>2, <2>3, <2>4 DEF BootInv, Working, Transferring
<1>5. CASE Refused \/ JtagRead \/ Finish
  BY <1>5, <1>s DEF Refused, JtagRead, Finish
<1>6. CASE BeginStage
  <2>1. ASSUME Going(This.kind) PROVE BootInv'
    <3>1. step = "begin" /\ step \in InChain /\ This.kind # "jtag"
      BY <1>6 DEF BeginStage, Answered, InChain
    <3>2. stage \in DOMAIN program /\ home # Unset /\ stage \in Nat
      BY <3>1, AtWork DEF TypeInv
    <3>3. This.kind \in Working \ Transferring /\ (This.kind = "clock" => stage = 1)
      BY <3>1, <3>2, ChainOf DEF Chained, This, Working, Transferring
    <3>4. /\ UNCHANGED <<program, stage, records, home, marker, boot, plmark>>
          /\ This.kind # "clock" => marker # Unset /\ marker = plmark
          /\ step' = This.kind
      BY <1>6, <2>1, <3>3, Steps DEF BeginStage, Going, session, Stopped, board, Working
    <3>5. boot \in Nat /\ home \in Nat /\ plmark \in Nat /\ home <= plmark /\ plmark <= boot
      BY <3>1, <3>2, Boots
    <3>6. ASSUME NEW i \in 1 .. stage - 1, plmark = home PROVE records[i].boot = home
      <4>1. This.kind # "clock"
        BY <3>2, <3>3
      <4>2. boot = home
        BY <3>1, <3>4, <3>6, <4>1 DEF BootInv
      <4>3. records[i].boot \in Nat /\ records[i].boot <= boot /\ home <= records[i].boot
        BY <3>1, <3>6 DEF BootInv
      <4> QED
        BY <3>5, <4>2, <4>3
    <3> QED
      BY <3>1, <3>3, <3>4, <3>6 DEF BootInv
  <2> QED
    BY <1>6, <2>1, <1>s DEF BeginStage
<1>7. CASE Gates \/ Transfer \/ Readout
  <2>1. CASE StageStops
    BY <2>1, <1>s DEF StageStops
  <2>2. CASE \E s : step \in {"read", "transfer", "readout"} /\ Going(s) /\ UNCHANGED <<records, stage>>
    <3>1. step \in Working /\ step \in InChain
      BY <2>2, Steps DEF Working, Transferring
    <3>2. UNCHANGED <<program, home, plmark, marker, boot>>
      BY <1>7 DEF Gates, Transfer, Readout, session, board
    <3>3. CASE step \in Transferring
      BY <2>2, <3>1, <3>2, <3>3, <1>k
    <3>4. CASE Gates /\ pldone
      <4>1. home # Unset /\ boot = home
        BY <3>1, <3>4 DEF StageInv, BoardInv
      <4>2. boot \in Nat /\ plmark \in Nat /\ home <= plmark /\ plmark <= boot
        BY <3>1, <4>1, Boots
      <4>3. plmark = home
        BY <4>1, <4>2
      <4> QED
        BY <2>2, <3>1, <3>2, <4>3, <1>k
    <3> QED
      BY <1>7, <2>2, <2>1, <3>3, <3>4 DEF Gates, Transfer, Readout, Answered, Transferring
  <2> QED
    BY <1>7, <2>1, <2>2 DEF Gates, Transfer, Readout, Answered
<1>8. CASE Cleanup \/ WriteFrame \/ ReadClock \/ Observe
  <2>1. CASE \E w : Stopped(w)
    BY <2>1, <1>s
  <2>n. /\ step \in {"cleanup", "write", "clock", "sample"} /\ step \in Working /\ step \in InChain /\ step # "read"
        /\ UNCHANGED <<program, boot, marker, session, home>>
    BY <1>8, Steps DEF Cleanup, WriteFrame, ReadClock, Observe, Answered, Working, Transferring, board
  <2>2. ASSUME StageEnds(Good(This.kind)), words # "dead" \/ ~Observe PROVE BootInv'
    <3>1. stage = 2 /\ program[1].kind = "clock" => Observe
      <4> SUFFICES ASSUME stage = 2, program[1].kind = "clock" PROVE Observe
        OBVIOUS
      <4>1. This.kind = "sample"
        BY ChainOf DEF Chained, This
      <4>2. step = "sample"
        BY <2>n, <4>1 DEF StageInv, Working, Transferring
      <4> QED
        BY <1>8, <4>2 DEF Cleanup, WriteFrame, ReadClock, Answered
    <3> QED
      BY <2>n, <2>2, <3>1, BootIsOver
  <2>4. CASE Cleanup
    <3>1. Good(This.kind) = "PASS" /\ ~Observe
      BY <2>4, <2>n DEF Cleanup, Observe, Answered, StageInv, Good, Transferring
    <3> QED
      BY <2>1, <2>2, <2>4, <3>1 DEF Cleanup, StageStops
  <2>5. CASE WriteFrame
    <3>1. Good(This.kind) = "WRITTEN" /\ ~Observe
      BY <2>5, <2>n DEF WriteFrame, Observe, Answered, StageInv, Good, Working, Transferring
    <3> QED
      BY <2>1, <2>2, <2>5, <3>1 DEF WriteFrame, StageStops
  <2>6. CASE ReadClock
    <3>1. Good(This.kind) = "OK" /\ ~Observe
      BY <2>6, <2>n DEF ReadClock, Observe, Answered, StageInv, Good, Working, Transferring
    <3> QED
      BY <2>1, <2>2, <2>6, <3>1 DEF ReadClock, StageStops
  <2>7. CASE Observe
    <3>1. Good(This.kind) = "OK"
      BY <2>7, <2>n DEF Observe, Answered, StageInv, Good, Working, Transferring
    <3> QED
      BY <2>1, <2>2, <2>7, <3>1 DEF Observe
  <2> QED
    BY <1>8, <2>4, <2>5, <2>6, <2>7
<1>9. CASE Seal
  <2>1. step = "begin" /\ step' = "jtag" /\ UNCHANGED <<program, stage, records, home, plmark, marker, boot>>
    BY <1>9 DEF Seal, Going, session, board
  <2>2. step \in InChain /\ step' \notin Working /\ step' \notin Transferring
    BY <2>1 DEF InChain, Working, Transferring
  <2> QED
    BY <2>1, <2>2, <1>k
<1> QED
  BY <1>1, <1>2, <1>3, <1>4, <1>5, <1>6, <1>7, <1>8, <1>9 DEF Next, SessionStep

-----------------------------------------------------------------------------
(* What was read, and what was observed.                                    *)

\* Every step keeps what the buffer shows.
LEMMA ReadStep ==
    ASSUME TypeInv, BoardInv, RulingInv, StageInv, ReadInv, [Next]_vars
    PROVE  ReadInv'
<1> DEFINE Quiet == step' \notin {"read", "write", "clock", "sample", "transfer", "readout", "cleanup"}
<1>0. ASSUME Quiet PROVE ReadInv'
  BY <1>0 DEF ReadInv
<1>s. ASSUME NEW w, Stopped(w) PROVE ReadInv'
  BY <1>0, <1>s DEF Stopped
<1>k. ASSUME UNCHANGED <<step, buffer, readout, delivered>> PROVE ReadInv'
  BY <1>k DEF ReadInv, Shows
<1>e. ASSUME NEW v, StageEnds(v) PROVE ReadInv'
  BY <1>e, <1>0, Onwards DEF StageEnds, Going
<1>1. CASE (\E r \in Runners : CheckRuling(r) \/ ClaimRuling(r) \/ Crash(r)) \/ Over \/ UNCHANGED vars \/ Drift
  <2>1. /\ UNCHANGED <<buffer, readout, delivered>>
        /\ step' = step \/ step' \in {"off", "precheck"}
    BY <1>1 DEF CheckRuling, ClaimRuling, Crash, Over, vars, Drift, board, transfer
  <2> QED
    BY <2>1, <1>0, <1>k
<1>2. CASE Reset
  <2>1. UNCHANGED <<step, readout, delivered>> /\ buffer' \in {buffer, "garbage"}
    BY <1>2 DEF Reset, Restarted, transfer
  <2> QED
    BY <2>1 DEF ReadInv, Shows
<1>3. CASE Precheck \/ VerifyIdentity \/ LoadCarrier \/ SetMarker \/ Seal
  BY <1>3, <1>0 DEF Precheck, VerifyIdentity, LoadCarrier, SetMarker, Seal, Stopped, Going
<1>4. CASE Refused \/ JtagRead \/ Finish
  BY <1>4, <1>s DEF Refused, JtagRead, Finish
<1>5. CASE BeginStage
  <2>1. ASSUME Going(This.kind) PROVE ReadInv'
    <3>1. step = "begin" /\ This.kind # "jtag" /\ delivered' = None /\ step' = This.kind
      BY <1>5, <2>1 DEF BeginStage, Answered, Going
    <3>2. This.kind \in {"read", "write", "clock", "sample"}
      BY <3>1, AtWork, ChainOf DEF Chained, This
    <3> QED
      BY <3>1, <3>2 DEF ReadInv
  <2> QED
    BY <1>5, <2>1, <1>s DEF BeginStage
<1>6. CASE Gates
  <2>1. CASE StageStops
    BY <2>1, <1>s DEF StageStops
  <2>2. CASE buffer' = "prefill" /\ Going("transfer")
    BY <1>6, <2>2 DEF Gates, Answered, ReadInv, transfer, Going
  <2> QED
    BY <1>6, <2>1, <2>2 DEF Gates
<1>7. CASE Transfer
  <2>1. CASE StageStops
    BY <2>1, <1>s DEF StageStops
  <2>2. CASE Going("readout") /\ buffer' = buffer /\ delivered' = None
    BY <1>7, <2>2 DEF Transfer, Answered, ReadInv, Shows, Going
  <2>3. ASSUME Going("readout"),
               NEW got \in {"partly", "zeros", "neighbour", "twins", "garbage"} \cup ({fabric} \ {None}),
               buffer' = got, delivered' = got
        PROVE  ReadInv'
    <3>1. got \in {"partly", "zeros", "neighbour", "twins", "garbage"} \cup Frames
      BY DEF BoardInv
    <3>2. Shows(buffer)'
      BY <2>3, <3>1 DEF Shows
    <3> QED
      BY <2>3, <3>2 DEF ReadInv, Going
  <2> QED
    BY <1>7, <2>1, <2>2, <2>3 DEF Transfer
<1>8. CASE Readout
  BY <1>8 DEF Readout, Answered, ReadInv, Shows, Going
<1>9. CASE Cleanup \/ WriteFrame \/ ReadClock \/ Observe
  BY <1>9, <1>s, <1>e DEF Cleanup, WriteFrame, ReadClock, Observe, StageStops
<1> QED
  BY <1>1, <1>2, <1>3, <1>4, <1>5, <1>6, <1>7, <1>8, <1>9 DEF Next, SessionStep

\* The kind of a stage, by its place.
LEMMA StageKinds ==
    ASSUME TypeInv, BoardInv, StageInv, step \in Working
    PROVE  /\ stage \in 1 .. Len(program) /\ stage \in Nat /\ step \in InChain
           /\ step = "sample" <=> This.kind = "sample"
           /\ program[1].kind = "clock" /\ stage \in {2, 3} => step = "sample"
           /\ program[1].kind # "clock" => step # "sample"
           /\ stage = 1 => step # "sample"
<1>1. stage \in 1 .. Len(program) /\ stage \in DOMAIN program /\ stage \in Nat /\ step \in InChain
  BY AtWork, Steps DEF TypeInv
<1>2. step = "sample" <=> This.kind = "sample"
  BY <1>1 DEF StageInv, Working, Transferring
<1>3. program[1].kind = "clock" /\ stage \in {2, 3} => This.kind = "sample"
  BY ChainOf DEF Chained, This
<1>4. program[1].kind # "clock" => This.kind # "sample"
  BY <1>1, ChainOf DEF Chained, This
<1>5. stage = 1 => This.kind # "sample"
  BY ChainOf DEF Chained, This
<1> QED
  BY <1>1, <1>2, <1>3, <1>4, <1>5

\* A record added while the chain has no transfer behind it speaks of none.
LEMMA QuietRecords ==
    ASSUME TypeInv, BoardInv, StageInv, ReadInv, SampleInv, step \in Working, NEW v \in Verdicts, Recorded(v),
           program[1].kind = "clock", stage <= 3, step \notin Transferring
    PROVE  \A i \in 1 .. stage : records'[i].delivered = None
<1>1. Len(records) = stage - 1 /\ stage \in Nat /\ step \in InChain
  BY AtWork, Steps DEF TypeInv
<1>2. \A i \in 1 .. stage - 1 : records[i].delivered = None
  BY <1>1 DEF SampleInv
<1>3. delivered = None
  BY DEF ReadInv, Working, Transferring
<1>4. /\ \A i \in 1 .. stage - 1 : records'[i] = records[i]
      /\ records'[stage].delivered = delivered
  <2>1. Len(records) + 1 = stage
    BY <1>1
  <2>2. /\ \A i \in 1 .. Len(records) : records'[i] = records[i]
        /\ records'[Len(records) + 1] = [stage |-> stage, verdict |-> v, readout |-> readout,
                                         delivered |-> delivered, boot |-> boot]
    BY RecordAdded
  <2>3. records'[Len(records) + 1].delivered = delivered
    BY <2>2
  <2> QED
    BY <1>1, <2>1, <2>2, <2>3
<1>5. \A i \in 1 .. stage : i \in 1 .. stage - 1 \/ i = stage
  BY <1>1
<1> QED
  BY <1>2, <1>3, <1>4, <1>5

\* Every step keeps the observation's account.
LEMMA SampleStep ==
    ASSUME TypeInv, BoardInv, RulingInv, SetupInv, StageInv, ReadInv, SampleInv, [Next]_vars
    PROVE  SampleInv'
<1>0. ASSUME step' \notin InChain PROVE SampleInv'
  BY <1>0 DEF SampleInv
<1>s. ASSUME NEW w, Stopped(w) PROVE SampleInv'
  BY <1>0, <1>s, Steps DEF Stopped
<1>k. ASSUME step \in InChain, UNCHANGED <<program, stage, records, samples, baseline>> PROVE SampleInv'
  BY <1>k DEF SampleInv
<1>1. CASE (\E r \in Runners : CheckRuling(r) \/ ClaimRuling(r) \/ Crash(r)) \/ Over \/ UNCHANGED vars \/ Drift \/ Reset
  <2>1. /\ UNCHANGED <<program, stage, records, samples, baseline>>
        /\ step' = step \/ step' \in {"off", "precheck"}
    BY <1>1 DEF CheckRuling, ClaimRuling, Crash, Over, vars, Drift, Reset, books
  <2>2. "off" \notin InChain /\ "precheck" \notin InChain
    BY DEF InChain, Working, Transferring
  <2> QED
    BY <2>1, <2>2, <1>0, <1>k
<1>2. CASE Precheck \/ VerifyIdentity \/ LoadCarrier
  <2>1. step' \in {"off"} \cup Setup
    BY <1>2 DEF Precheck, VerifyIdentity, LoadCarrier, Stopped, Going, Setup
  <2> QED
    BY <2>1, <1>0, Steps
<1>3. CASE SetMarker
  <2>1. stage' = 1 /\ step = "marker" /\ UNCHANGED <<program, samples, records>>
    BY <1>3 DEF SetMarker, Answered
  <2>2. samples' = << >>
    BY <2>1 DEF SetupInv, Setup
  <2>3. \A i \in 1 .. stage' - 1 : FALSE
    BY <2>1
  <2> QED
    BY <2>1, <2>2, <2>3 DEF SampleInv
<1>4. CASE Refused \/ JtagRead \/ Finish
  BY <1>4, <1>s DEF Refused, JtagRead, Finish
<1>5. CASE BeginStage \/ Gates \/ Transfer \/ Readout \/ Seal
  <2>1. CASE \E w : Stopped(w)
    BY <2>1, <1>s
  <2>2. CASE UNCHANGED <<program, stage, records, samples, baseline>>
    <3>1. step \in InChain
      BY <1>5 DEF BeginStage, Gates, Transfer, Readout, Seal, Answered, InChain, Working, Transferring
    <3> QED
      BY <2>2, <3>1, <1>k
  <2> QED
    BY <1>5, <2>1, <2>2 DEF BeginStage, Gates, Transfer, Readout, Seal, StageStops
<1>6. CASE Cleanup \/ WriteFrame \/ ReadClock
  <2>0. step \in Working /\ step # "sample" /\ UNCHANGED <<program, samples, baseline>>
    BY <1>6 DEF Cleanup, WriteFrame, ReadClock, Answered, Working, Transferring
  <2>1. CASE \E w : Stopped(w)
    BY <2>1, <1>s
  <2>2. ASSUME NEW v \in Verdicts, StageEnds(v) PROVE SampleInv'
    <3>1. /\ stage \in 1 .. Len(program) /\ stage \in Nat /\ step \in InChain /\ stage' = stage + 1
          /\ program[1].kind = "clock" => stage \notin {2, 3}
      BY <2>0, <2>2, StageKinds DEF StageEnds
    <3>2. CASE program[1].kind = "clock"
      <4>1. CASE stage = 1
        <5>1. This.kind = "clock" /\ step = "clock"
          BY <2>0, <3>1, <3>2, <4>1 DEF This, StageInv, Working, Transferring
        <5>2. \A i \in 1 .. stage : records'[i].delivered = None
          BY <2>0, <2>2, <3>2, <4>1, <5>1, QuietRecords DEF StageEnds, Transferring
        <5>3. samples = << >>
          BY <3>1, <3>2, <4>1 DEF SampleInv
        <5>4. stage' = 2 /\ \A i \in 1 .. stage' - 1 : i \in 1 .. stage
          BY <3>1, <4>1
        <5> QED
          BY <2>0, <3>2, <5>2, <5>3, <5>4 DEF SampleInv
      <4>2. CASE stage > 3
        <5>1. stage' > 3 /\ ~(stage' <= 2) /\ stage' # 3 /\ ~(stage' <= 3)
          BY <3>1, <4>2
        <5> QED
          BY <2>0, <3>1, <3>2, <4>2, <5>1 DEF SampleInv
      <4> QED
        BY <3>1, <3>2, <4>1, <4>2
    <3>3. CASE program[1].kind # "clock"
      BY <2>0, <3>1, <3>3 DEF SampleInv
    <3> QED
      BY <3>2, <3>3
  <2>3. CASE \E v \in Verdicts : StageEnds(v)
    BY <2>2, <2>3
  <2>4. "WRITTEN" \in Verdicts /\ "OK" \in Verdicts /\ Reclassified(Adjudicate(readout, This.frame)) \in Verdicts
    BY TableJudges DEF Verdicts
  <2> QED
    BY <1>6, <2>1, <2>3, <2>4 DEF Cleanup, WriteFrame, ReadClock, StageStops
<1>7. CASE Observe
  <2>0. /\ step = "sample" /\ step \in Working /\ step \notin Transferring /\ program' = program /\ words \in {"v0", "v1", "dead"}
        /\ samples' = Append(samples, words) /\ baseline' = IF samples = << >> THEN words ELSE baseline
    BY <1>7 DEF Observe, Answered, Working, Transferring, TypeInv
  <2>1. CASE \E w : Stopped(w)
    BY <2>1, <1>s
  <2>2. CASE StageEnds("OK") /\ ~(Len(samples) = 1 /\ words # baseline)
    <3>1. /\ stage \in 1 .. Len(program) /\ stage \in Nat /\ step \in InChain /\ stage' = stage + 1
          /\ program[1].kind = "clock" /\ stage # 1
      BY <2>0, <2>2, StageKinds DEF StageEnds
    <3>2. /\ samples \in Seq({"v0", "v1", "dead"}) /\ Len(samples) \in Nat /\ Len(samples') = Len(samples) + 1
          /\ \A i \in 1 .. Len(samples) : samples'[i] = samples[i]
          /\ samples'[Len(samples) + 1] = words /\ samples' # << >>
      BY <2>0 DEF TypeInv
    <3>3. baseline' = samples'[1]
      <4>1. CASE samples = << >>
        BY <2>0, <3>2, <4>1
      <4>2. CASE samples # << >>
        <5>1. 1 \in 1 .. Len(samples) /\ baseline = samples[1]
          BY <3>1, <3>2, <4>2 DEF SampleInv
        <5> QED
          BY <2>0, <3>2, <4>2, <5>1
      <4> QED
        BY <4>1, <4>2
    <3>4. CASE stage = 2
      <4>1. samples = << >>
        BY <3>1, <3>4 DEF SampleInv
      <4>2. Len(samples') = 1 /\ stage' = 3
        BY <3>1, <3>2, <3>4, <4>1
      <4>3. \A i \in 1 .. stage : records'[i].delivered = None
        BY <2>0, <2>2, <3>1, <3>4, QuietRecords DEF StageEnds, Verdicts
      <4>4. \A i \in 1 .. stage' - 1 : i \in 1 .. stage
        BY <3>1, <4>2, <3>4
      <4> QED
        BY <2>0, <3>1, <3>3, <4>2, <4>3, <4>4 DEF SampleInv
    <3>5. CASE stage = 3
      <4>1. Len(samples) = 1 /\ baseline = samples[1]
        BY <3>1, <3>5 DEF SampleInv
      <4>2. words = baseline /\ samples'[1] = samples[1] /\ samples'[2] = words /\ Len(samples') = 2
        BY <2>2, <3>2, <4>1
      <4>3. stage' = 4
        BY <3>1, <3>5
      <4> QED
        BY <2>0, <3>1, <3>3, <4>1, <4>2, <4>3 DEF SampleInv
    <3>6. CASE stage > 3
      <4>1. Len(samples) > 1 /\ samples[1] = samples[2]
        BY <3>1, <3>6 DEF SampleInv
      <4>2. Len(samples') > 1 /\ samples'[1] = samples'[2]
        BY <3>2, <4>1
      <4>3. stage' > 3 /\ ~(stage' <= 2) /\ stage' # 3 /\ ~(stage' <= 3)
        BY <3>1, <3>6
      <4> QED
        BY <2>0, <3>1, <3>3, <4>2, <4>3 DEF SampleInv
    <3> QED
      BY <3>1, <3>4, <3>5, <3>6
  <2> QED
    BY <1>7, <2>1, <2>2 DEF Observe
<1> QED
  BY <1>1, <1>2, <1>3, <1>4, <1>5, <1>6, <1>7 DEF Next, SessionStep

-----------------------------------------------------------------------------
(* What the books say.                                                      *)

\* What a step records: a verdict on what was read only as it cleans up.
Judgement(v) == v \in PayloadStops \cup {"PASS"} =>
                    step = "cleanup" /\ v = Reclassified(Adjudicate(readout, This.frame))

\* A step adds at most one record, of the stage it is at.
LEMMA BooksStep ==
    ASSUME [Next]_vars
    PROVE  /\ program' = program
           /\ records' = records \/ \E v \in Verdicts : Recorded(v) /\ step \in Working /\ Judgement(v)
<1> DEFINE Adds == \E v \in Verdicts : Recorded(v) /\ step \in Working /\ Judgement(v)
<1>a. ASSUME NEW v \in {None, "WRITTEN", "OK", "CONTROL_UNSTABLE"}, Recorded(v), step \in Working PROVE Adds
  <2>1. v \in Verdicts /\ v \notin PayloadStops \cup {"PASS"}
    BY DEF Verdicts, PayloadStops, None
  <2> QED
    BY <1>a, <2>1 DEF Judgement
<1>1. CASE (\E r \in Runners : CheckRuling(r) \/ ClaimRuling(r) \/ Crash(r)) \/ Over \/ UNCHANGED vars \/ Drift \/ Reset
  BY <1>1 DEF CheckRuling, ClaimRuling, Crash, Over, vars, Drift, Reset, books
<1>2. CASE \/ Refused \/ Precheck \/ VerifyIdentity \/ LoadCarrier \/ SetMarker \/ BeginStage \/ Readout
           \/ Seal \/ JtagRead \/ Finish
  BY <1>2 DEF Refused, Precheck, VerifyIdentity, LoadCarrier, SetMarker, BeginStage, Readout, Seal, JtagRead, Finish
<1>w. ASSUME step \in {"read", "transfer", "cleanup", "write", "clock", "sample"} PROVE step \in Working
  BY <1>w DEF Working, Transferring
<1>3. CASE Gates \/ Transfer
  <2>1. program' = program /\ step \in {"read", "transfer"} /\ (records' = records \/ Recorded(None))
    BY <1>3 DEF Gates, Transfer, Answered, StageStops
  <2> QED
    BY <2>1, <1>a, <1>w
<1>4. CASE Cleanup
  <2> DEFINE v == Reclassified(Adjudicate(readout, This.frame))
  <2>1. v \in Verdicts
    BY TableJudges DEF Verdicts
  <2>2. step = "cleanup" /\ step \in Working /\ program' = program
    BY <1>4, <1>w DEF Cleanup, Answered
  <2>3. Recorded(v) \/ Recorded(None)
    BY <1>4 DEF Cleanup, StageEnds, StageStops
  <2>4. Judgement(v)
    BY <2>2 DEF Judgement
  <2> HIDE DEF v
  <2> QED
    BY <2>1, <2>2, <2>3, <2>4, <1>a
<1>5. CASE WriteFrame \/ ReadClock
  <2>1. program' = program /\ step \in {"write", "clock"} /\ (Recorded(None) \/ Recorded("WRITTEN") \/ Recorded("OK"))
    BY <1>5 DEF WriteFrame, ReadClock, Answered, StageStops, StageEnds
  <2> QED
    BY <2>1, <1>a, <1>w
<1>6. CASE Observe
  <2>1. program' = program /\ step = "sample" /\ (records' = records \/ Recorded("CONTROL_UNSTABLE") \/ Recorded("OK"))
    BY <1>6 DEF Observe, Answered, StageEnds
  <2> QED
    BY <2>1, <1>a, <1>w
<1> QED
  BY <1>1, <1>2, <1>3, <1>4, <1>5, <1>6 DEF Next, SessionStep

\* What one record says of its stage.
Tells(r) ==
    /\ r.verdict = "PASS" => r.delivered = program[r.stage].frame
    /\ r.verdict = "PRE_WRITE_CONTENT" => r.delivered = program[r.stage].before
    /\ r.verdict = "BUFFER_UNCHANGED_FROM_PREFILL" => r.delivered = None

\* What the table says of a readout is what the engine did.
LEMMA TableIsTrue ==
    ASSUME BoardInv, ReadInv, step = "cleanup", This.frame \in Frames, This.before \in Frames \cup {None},
           readout \in Buffers
    PROVE  LET v == Reclassified(Adjudicate(readout, This.frame)) IN
           /\ v = "PASS" => delivered = This.frame
           /\ v = "PRE_WRITE_CONTENT" => delivered = This.before
           /\ v = "BUFFER_UNCHANGED_FROM_PREFILL" => delivered = None
<1> DEFINE w == Adjudicate(readout, This.frame)
           v == Reclassified(w)
<1>1. Shows(readout)
  BY DEF ReadInv
<1>2. v = "PRE_WRITE_CONTENT" => readout = This.before
  <2>1. w # "PRE_WRITE_CONTENT"
    BY DEF Adjudicate
  <2> QED
    BY <2>1 DEF Reclassified
<1>3. v # "PRE_WRITE_CONTENT" => v = w
  BY DEF Reclassified
<1>4. w = "PASS" => readout = This.frame
  BY DEF Adjudicate
<1>5. w = "BUFFER_UNCHANGED_FROM_PREFILL" => readout = "prefill"
  BY DEF Adjudicate
<1>6. readout \in Frames => delivered = readout
  BY <1>1 DEF Shows, Frames
<1>7. readout = "prefill" => delivered = None
  BY <1>1 DEF Shows, Frames
<1>8. readout # None
  BY DEF Buffers, Frames, None
<1> HIDE DEF w, v
<1>9. v = "PASS" => delivered = This.frame
  BY <1>3, <1>4, <1>6
<1>10. v = "PRE_WRITE_CONTENT" => delivered = This.before
  BY <1>2, <1>6, <1>8
<1>11. v = "BUFFER_UNCHANGED_FROM_PREFILL" => delivered = None
  BY <1>3, <1>5, <1>7
<1> QED
  BY <1>9, <1>10, <1>11 DEF v, w

\* Every step keeps the verdicts true.
LEMMA TruthStep ==
    ASSUME TypeInv, BoardInv, StageInv, ReadInv, VerdictIsTrue, [Next]_vars
    PROVE  VerdictIsTrue'
<1>0. program' = program
  BY BooksStep
<1>1. CASE records' = records
  BY <1>0, <1>1 DEF VerdictIsTrue
<1>2. ASSUME NEW v \in Verdicts, Recorded(v), step \in Working, Judgement(v) PROVE VerdictIsTrue'
  <2> DEFINE n == Len(records) + 1
  <2>1. /\ DOMAIN records' = 1 .. n /\ Len(records) \in Nat
        /\ \A i \in 1 .. Len(records) : records'[i] = records[i]
        /\ records'[n] = [stage |-> stage, verdict |-> v, readout |-> readout, delivered |-> delivered, boot |-> boot]
    BY <1>2, RecordAdded
  <2>2. Tells(records'[n])
    <3>1. /\ v = "PASS" => delivered = This.frame
          /\ v = "PRE_WRITE_CONTENT" => delivered = This.before
          /\ v = "BUFFER_UNCHANGED_FROM_PREFILL" => delivered = None
      <4> SUFFICES ASSUME v \in {"PASS", "PRE_WRITE_CONTENT", "BUFFER_UNCHANGED_FROM_PREFILL"}
                   PROVE  /\ v = "PASS" => delivered = This.frame
                          /\ v = "PRE_WRITE_CONTENT" => delivered = This.before
                          /\ v = "BUFFER_UNCHANGED_FROM_PREFILL" => delivered = None
        OBVIOUS
      <4>1. step = "cleanup" /\ v = Reclassified(Adjudicate(readout, This.frame))
        BY <1>2 DEF Judgement, PayloadStops
      <4>2. stage \in DOMAIN program /\ step \in InChain /\ step \in Transferring
        BY <1>2, <4>1, AtWork, Steps DEF Transferring
      <4>3. This.kind = "read" /\ This.frame \in Frames /\ This.before \in Frames \cup {None}
        BY <4>2, ChainOf DEF StageInv, Chained, This
      <4>4. readout \in Buffers
        BY DEF TypeInv
      <4> QED
        BY <4>1, <4>3, <4>4, TableIsTrue
    <3> QED
      BY <2>1, <3>1 DEF Tells, This
  <2>3. ASSUME NEW i \in 1 .. Len(records) PROVE Tells(records'[i])
    <3>1. i \in DOMAIN records
      BY DEF TypeInv
    <3> QED
      BY <2>1, <3>1 DEF VerdictIsTrue, Tells
  <2>4. \A i \in DOMAIN records' : i \in 1 .. Len(records) \/ i = n
    BY <2>1
  <2>5. \A i \in DOMAIN records' : Tells(records'[i])
    BY <2>2, <2>3, <2>4
  <2> HIDE DEF n
  <2> QED
    BY <1>0, <2>5 DEF VerdictIsTrue, Tells
<1> QED
  BY <1>1, <1>2, BooksStep

\* While the chain runs no payload verdict stands last.
LEMMA LastIsGood ==
    ASSUME TypeInv, BoardInv, RulingInv, SetupInv, StageInv, step # "off"
    PROVE  records = << >> \/ Last(records).verdict \notin PayloadStops
<1>1. CASE step \in Setup
  BY <1>1 DEF SetupInv
<1>2. CASE step \in InChain
  <2>1. Len(records) = stage - 1 /\ stage \in Nat /\ records \in Seq(Recs)
    BY <1>2 DEF StageInv, TypeInv
  <2>2. CASE stage - 1 = 0
    BY <2>1, <2>2
  <2>3. CASE stage - 1 # 0
    <3>1. stage - 1 \in 1 .. stage - 1 /\ Last(records) = records[stage - 1]
      BY <2>1, <2>3 DEF Last
    <3>2. Last(records).verdict = Good(program[stage - 1].kind)
      BY <1>2, <3>1 DEF StageInv
    <3>3. \A k : Good(k) \notin PayloadStops
      BY DEF Good, PayloadStops
    <3> QED
      BY <3>2, <3>3
  <2> QED
    BY <2>2, <2>3
<1> QED
  BY <1>1, <1>2 DEF RulingInv

\* What a session that is over still sees: the board may restart, the processes
\* may end, its books are closed.
LEMMA Closed ==
    ASSUME RulingInv, outcome # None, [Next]_vars
    PROVE  /\ UNCHANGED <<program, stage, epoch, identity, home, baseline, samples, records, sealed, outcome>>
           /\ \/ UNCHANGED <<boot, fabric, synced>>
              \/ boot' = boot + 1 /\ boot < MaxResets /\ ~synced'
<1>0. step = "off"
  BY DEF RulingInv
<1>1. CASE \E r \in Runners : CheckRuling(r) \/ ClaimRuling(r) \/ Crash(r)
  BY <1>1 DEF CheckRuling, ClaimRuling, Crash, board, session, books
<1>2. CASE Over \/ UNCHANGED vars
  BY <1>2 DEF Over, vars, board, session, books
<1>3. CASE Reset
  BY <1>3 DEF Reset, Restarted, session, books
<1>4. CASE Drift
  BY <1>4 DEF Drift, session, books
<1>5. ~SessionStep
  BY <1>0 DEF SessionStep, Refused, Precheck, VerifyIdentity, LoadCarrier, SetMarker, BeginStage, Gates, Transfer,
              Readout, Cleanup, WriteFrame, ReadClock, Observe, Seal, JtagRead, Finish, Answered
<1> QED
  BY <1>1, <1>2, <1>3, <1>4, <1>5 DEF Next

\* A payload verdict is the last word only after the cleanup.
LEMMA CleanStep ==
    ASSUME TypeInv, BoardInv, RulingInv, SetupInv, StageInv, CleanInv, [Next]_vars
    PROVE  CleanInv'
<1>1. CASE outcome # None
  <2>1. UNCHANGED <<records, outcome>> /\ (synced' = synced \/ ~synced')
    BY <1>1, Closed
  <2> QED
    BY <2>1 DEF CleanInv
<1>2. CASE outcome = None
  <2>0. ASSUME outcome' = None PROVE CleanInv'
    BY <2>0 DEF CleanInv
  <2>r. ASSUME records' = records, step # "off" PROVE CleanInv'
    BY <2>r, LastIsGood DEF CleanInv
  <2>v. ASSUME NEW v \in Verdicts, Recorded(v), v \notin PayloadStops \/ ~synced' PROVE CleanInv'
    <3>1. Last(records').verdict = v
      <4>1. /\ Last(records') = records'[Len(records) + 1]
            /\ records'[Len(records) + 1] = [stage |-> stage, verdict |-> v, readout |-> readout,
                                             delivered |-> delivered, boot |-> boot]
        BY <2>v, RecordAdded
      <4> QED
        BY <4>1
    <3> QED
      BY <2>v, <3>1 DEF CleanInv
  <2>w. None \in Verdicts \ PayloadStops /\ "CONTROL_UNSTABLE" \in Verdicts \ PayloadStops
    BY DEF Verdicts, PayloadStops, None
  <2>s. ASSUME StageStops PROVE CleanInv'
    BY <2>s, <2>v, <2>w DEF StageStops
  <2>g. ASSUME NEW s, Going(s) PROVE CleanInv'
    BY <1>2, <2>0, <2>g DEF Going
  <2>e. ASSUME NEW v, StageEnds(v) PROVE CleanInv'
    BY <2>e, <2>g DEF StageEnds
  <2>1. CASE (\E r \in Runners : CheckRuling(r) \/ ClaimRuling(r) \/ Crash(r)) \/ Over \/ UNCHANGED vars \/ Drift \/ Reset
    <3>1. outcome' = outcome
      BY <2>1 DEF CheckRuling, ClaimRuling, Crash, Over, vars, Drift, Reset, books
    <3> QED
      BY <1>2, <2>0, <3>1
  <2>2. CASE Refused \/ JtagRead \/ Finish
    <3>1. records' = records /\ step # "off"
      BY <2>2 DEF Refused, JtagRead, Finish
    <3> QED
      BY <2>r, <3>1
  <2>3. CASE Precheck \/ VerifyIdentity \/ LoadCarrier \/ SetMarker \/ BeginStage \/ Readout \/ Seal
    <3>1. records' = records /\ step # "off"
      BY <2>3 DEF Precheck, VerifyIdentity, LoadCarrier, SetMarker, BeginStage, Readout, Seal, Answered
    <3> QED
      BY <2>r, <3>1
  <2>4. CASE Gates \/ Transfer \/ WriteFrame \/ ReadClock
    BY <2>4, <2>s, <2>g, <2>e DEF Gates, Transfer, WriteFrame, ReadClock
  <2>5. CASE Cleanup
    <3> DEFINE v == Reclassified(Adjudicate(readout, This.frame))
    <3>1. v \in Verdicts
      BY TableJudges DEF Verdicts
    <3>2. StageStops \/ (~synced' /\ (Recorded(v) \/ StageEnds(v)))
      BY <2>5 DEF Cleanup
    <3> HIDE DEF v
    <3> QED
      BY <2>s, <2>v, <2>e, <3>1, <3>2
  <2>6. CASE Observe
    <3>1. step # "off" /\ (records' = records \/ Recorded("CONTROL_UNSTABLE") \/ StageEnds("OK"))
      BY <2>6 DEF Observe, Answered
    <3> QED
      BY <2>r, <2>v, <2>e, <2>w, <3>1
  <2> QED
    BY <2>1, <2>2, <2>3, <2>4, <2>5, <2>6 DEF Next, SessionStep
<1> QED
  BY <1>1, <1>2

\* Only an observation adds to the samples, and one that adds no record of a
\* good one stops the chain.
LEMMA SamplesStep ==
    ASSUME [Next]_vars
    PROVE  Observe \/ (samples' = samples /\ (step \in Working /\ step = "sample" => records' = records))
<1>1. CASE (\E r \in Runners : CheckRuling(r) \/ ClaimRuling(r) \/ Crash(r)) \/ Over \/ UNCHANGED vars \/ Drift \/ Reset
  BY <1>1 DEF CheckRuling, ClaimRuling, Crash, Over, vars, Drift, Reset, books
<1>2. CASE Refused \/ JtagRead \/ Finish
  BY <1>2 DEF Refused, JtagRead, Finish
<1>3. CASE Precheck \/ VerifyIdentity \/ LoadCarrier \/ SetMarker \/ BeginStage \/ Readout \/ Seal
  BY <1>3 DEF Precheck, VerifyIdentity, LoadCarrier, SetMarker, BeginStage, Readout, Seal
<1>4. CASE Gates \/ Transfer \/ Cleanup \/ WriteFrame \/ ReadClock
  BY <1>4 DEF Gates, Transfer, Cleanup, WriteFrame, ReadClock, Answered
<1> QED
  BY <1>1, <1>2, <1>3, <1>4 DEF Next, SessionStep

\* Every step keeps the control before the blame.
LEMMA BlameStep ==
    ASSUME TypeInv, BoardInv, RulingInv, StageInv, ReadInv, SampleInv, BlameNeedsControl, [Next]_vars
    PROVE  BlameNeedsControl'
\* Two observations that agree, and none taken back.
<1>c. ASSUME Len(samples) > 1, samples[1] = samples[2], samples' = samples \/ samples' = Append(samples, words)
      PROVE  BlameNeedsControl'
  <2>1. Len(samples') >= 2 /\ samples'[1] = samples'[2]
    BY <1>c DEF TypeInv
  <2> QED
    BY <2>1 DEF BlameNeedsControl
\* No record speaks of a transfer.
<1>q. ASSUME \A i \in DOMAIN records' : records'[i].delivered = None PROVE BlameNeedsControl'
  BY <1>q DEF BlameNeedsControl
\* At the control or before it none does.
<1>z. ASSUME step = "sample" \/ (step \in Working /\ samples # << >>), program[1].kind = "clock", stage <= 3,
             step = "sample" \/ samples' = samples
      PROVE  BlameNeedsControl'
  <2>1. /\ step \in Working /\ step \in InChain /\ stage \in Nat
        /\ Len(records) = stage - 1 /\ records \in Seq(Recs)
    BY <1>z, StageKinds, AtWork DEF Working, TypeInv
  <2>2. step = "sample" /\ step \notin Transferring
    <3>1. CASE samples # << >>
      <4>1. stage = 3
        BY <1>z, <2>1, <3>1 DEF SampleInv
      <4>2. step = "sample"
        BY <1>z, <2>1, <4>1, StageKinds
      <4> QED
        BY <4>2 DEF Transferring
    <3> QED
      BY <1>z, <3>1 DEF Transferring
  <2>3. CASE records' = records
    <3>1. \A i \in DOMAIN records : i \in 1 .. stage - 1
      BY <2>1
    <3> QED
      BY <1>z, <2>1, <2>3, <3>1, <1>q DEF SampleInv
  <2>4. ASSUME NEW v \in Verdicts, Recorded(v) PROVE BlameNeedsControl'
    <3>1. \A i \in 1 .. stage : records'[i].delivered = None
      BY <1>z, <2>1, <2>2, <2>4, QuietRecords
    <3>2. DOMAIN records' = 1 .. (Len(records) + 1)
      BY <2>4, RecordAdded
    <3>3. \A i \in DOMAIN records' : i \in 1 .. stage
      BY <2>1, <3>2
    <3> QED
      BY <3>1, <3>3, <1>q
  <2> QED
    BY <2>3, <2>4, BooksStep
<1>1. CASE Observe
  <2>1. step = "sample" /\ step \in Working /\ samples' = Append(samples, words)
    BY <1>1 DEF Observe, Answered, Working
  <2>2. program[1].kind = "clock" /\ stage \in Nat /\ step \in InChain
    BY <2>1, StageKinds
  <2>3. CASE stage <= 3
    BY <2>1, <2>2, <2>3, <1>z
  <2>4. CASE stage > 3
    <3>1. Len(samples) > 1 /\ samples[1] = samples[2]
      BY <2>2, <2>4 DEF SampleInv
    <3> QED
      BY <2>1, <3>1, <1>c
  <2> QED
    BY <2>2, <2>3, <2>4
<1>2. CASE samples' = samples
  <2>1. CASE records' = records
    BY <1>2, <2>1 DEF BlameNeedsControl
  <2>2. CASE samples = << >>
    BY <1>2, <2>2 DEF BlameNeedsControl
  <2>3. CASE step \in Working /\ samples # << >>
    <3>1. step \in InChain /\ stage \in Nat /\ program[1].kind = "clock"
      BY <2>3, StageKinds DEF SampleInv
    <3>2. CASE stage <= 3
      BY <1>2, <2>3, <3>1, <3>2, <1>z
    <3>3. CASE stage > 3
      <4>1. Len(samples) > 1 /\ samples[1] = samples[2]
        BY <3>1, <3>3 DEF SampleInv
      <4> QED
        BY <1>2, <4>1, <1>c
    <3> QED
      BY <3>1, <3>2, <3>3
  <2> QED
    BY <2>1, <2>2, <2>3, BooksStep
<1> QED
  BY <1>1, <1>2, SamplesStep

\* Every step keeps a PASS whole.
LEMMA WholeStep ==
    ASSUME TypeInv, BoardInv, BoardInv', RulingInv, SetupInv, StageInv, BootInv, SampleInv, PassIsWhole, [Next]_vars
    PROVE  PassIsWhole'
<1>0. ASSUME outcome' # "PASS" PROVE PassIsWhole'
  BY <1>0 DEF PassIsWhole
<1>c. program \in Seq([kind : STRING, frame : STRING, before : STRING]) /\ Len(program) \in Nat /\ Len(program) > 1
      /\ Chained(program) /\ Last(program) = program[Len(program)]
  BY ChainOf DEF Last
<1>n. outcome = None => outcome # "PASS"
  BY DEF None
<1>1. CASE outcome = "PASS"
  <2>1. /\ UNCHANGED <<program, stage, epoch, identity, home, baseline, samples, records, sealed, outcome>>
        /\ \/ UNCHANGED <<boot, fabric, synced>>
           \/ boot' = boot + 1 /\ boot < MaxResets
    BY <1>1, Closed DEF None
  <2>2. boot' = home => boot = home /\ fabric' = fabric
    <3>1. boot \in Nat /\ MaxResets \in Nat /\ (home = Unset \/ (home \in Nat /\ home <= boot))
      BY ProbeAssumption DEF BoardInv
    <3>2. boot' = boot + 1 /\ boot < MaxResets => boot' # home
      BY <3>1 DEF Unset
    <3> QED
      BY <2>1, <3>2
  <2> QED
    BY <1>1, <2>1, <2>2 DEF PassIsWhole
<1>2. CASE outcome # "PASS"
  \* Nothing else concludes PASS.
  <2>0. outcome' # "PASS" \/ JtagRead \/ Finish
    <3>1. CASE (\E r \in Runners : CheckRuling(r) \/ ClaimRuling(r) \/ Crash(r)) \/ Over \/ UNCHANGED vars \/ Drift \/ Reset
      BY <1>2, <3>1 DEF CheckRuling, ClaimRuling, Crash, Over, vars, Drift, Reset, books
    <3>2. CASE \/ Refused \/ Precheck \/ VerifyIdentity \/ LoadCarrier \/ SetMarker \/ BeginStage \/ Gates \/ Transfer
               \/ Readout \/ Cleanup \/ WriteFrame \/ ReadClock \/ Observe \/ Seal
      BY <1>2, <3>2 DEF Refused, Precheck, VerifyIdentity, LoadCarrier, SetMarker, BeginStage, Gates, Transfer,
                        Readout, Cleanup, WriteFrame, ReadClock, Observe, Seal, Stopped, Going, StageStops, StageEnds
    <3> QED
      BY <3>1, <3>2 DEF Next, SessionStep
  <2>g. \A k : Good(k) = CASE k = "read" -> "PASS" [] k = "write" -> "WRITTEN" [] OTHER -> "OK"
    BY DEF Good
  <2>1. CASE JtagRead
    <3>1. step = "jtag" /\ step \in InChain
      BY <2>1 DEF JtagRead, InChain
    <3>2. /\ UNCHANGED <<program, epoch, identity, home, boot, fabric, baseline, samples, records, sealed>>
          /\ outcome' = "PASS" => fabric = This.frame
      BY <2>1 DEF JtagRead, Stopped, session, board
    <3>3. /\ epoch = 0 /\ identity = 0 /\ sealed = records /\ This.kind = "jtag" /\ Len(records) = stage - 1
          /\ stage \in 1 .. Len(program) + 1 /\ stage # Len(program) + 1
          /\ \A i \in 1 .. stage - 1 : records[i].stage = i /\ records[i].verdict = Good(program[i].kind)
      BY <3>1 DEF StageInv
    <3>4. stage \in DOMAIN program
      BY <1>c, <3>3
    <3>5. stage = Len(program) /\ program[1].kind = "read"
      BY <1>c, <3>3, <3>4 DEF Chained, This
    <3>6. samples = << >>
      BY <3>1, <3>5 DEF SampleInv
    <3>7. \A i \in 1 .. stage - 1 : i < stage - 1 => records[i].boot = home
      BY <1>c, <3>1, <3>5 DEF BootInv
    <3>8. Last(program).kind = "jtag" /\ Last(program) = This
      BY <1>c, <3>3, <3>5 DEF This
    <3>9. \A i \in DOMAIN samples : FALSE
      BY <3>6
    <3>10. SUFFICES ASSUME outcome' = "PASS" PROVE PassIsWhole'
      BY <1>0
    <3> DEFINE n == Len(program) - 1
    <3>11. Len(records) = n /\ n < Len(program) /\ stage - 1 = n
      BY <1>c, <3>3, <3>5
    <3> HIDE DEF n
    <3>12. \A i \in 1 .. n : /\ records[i].stage = i /\ records[i].verdict = Good(program[i].kind)
                             /\ i < n => records[i].boot = home
      BY <3>3, <3>7, <3>11
    <3> QED
      BY <2>g, <3>2, <3>3, <3>8, <3>9, <3>10, <3>11, <3>12 DEF PassIsWhole, n
  <2>2. CASE Finish
    <3>1. step = "finish" /\ step \in InChain
      BY <2>2 DEF Finish, InChain
    <3>2. /\ UNCHANGED <<program, epoch, identity, home, boot, fabric, baseline, samples, records, sealed>>
          /\ outcome' = "PASS" => Violations = {}
      BY <2>2 DEF Finish, Stopped, session, board
    <3>3. /\ epoch = 0 /\ identity = 0 /\ Len(records) = stage - 1 /\ stage = Len(program) + 1
          /\ \A i \in 1 .. stage - 1 : /\ program[i].kind # "jtag"
                                       /\ records[i].stage = i /\ records[i].verdict = Good(program[i].kind)
      BY <3>1 DEF StageInv
    <3>4. Last(program).kind # "jtag"
      <4>1. Len(program) \in 1 .. stage - 1
        BY <1>c, <3>3
      <4> QED
        BY <1>c, <3>3, <4>1
    <3>10. SUFFICES ASSUME outcome' = "PASS" PROVE PassIsWhole'
      BY <1>0
    <3>5. program[1].kind = "clock" => stage > 3
      BY <1>c, <3>3 DEF Chained
    <3>6. \A i \in DOMAIN samples : samples[i] = baseline
      <4>1. CASE program[1].kind = "clock"
        <5>1. Len(samples) > 1 /\ samples[1] = samples[2] /\ baseline = samples[1]
          BY <3>1, <3>5, <4>1 DEF SampleInv
        <5>2. \A i \in 3 .. Len(samples) : samples[i] = baseline
          BY <3>2, <3>10 DEF Violations
        <5>3. \A i \in DOMAIN samples : i = 1 \/ i = 2 \/ i \in 3 .. Len(samples)
          BY DEF TypeInv
        <5> QED
          BY <5>1, <5>2, <5>3
      <4>2. CASE program[1].kind # "clock"
        <5>1. samples = << >>
          BY <3>1, <4>2 DEF SampleInv
        <5> QED
          BY <5>1
      <4> QED
        BY <4>1, <4>2
    <3>7. plmark = home
      BY <1>c, <3>1, <3>3 DEF BootInv
    <3>8. \A i \in 1 .. stage - 1 : i < stage - 1 => records[i].boot = home
      BY <3>1, <3>7 DEF BootInv
    <3> DEFINE n == Len(program)
    <3>11. Len(records) = n /\ ~(n < Len(program)) /\ stage - 1 = n
      BY <1>c, <3>3
    <3> HIDE DEF n
    <3>12. \A i \in 1 .. n : /\ records[i].stage = i /\ records[i].verdict = Good(program[i].kind)
                             /\ i < n => records[i].boot = home
      BY <3>3, <3>8, <3>11
    <3> QED
      BY <2>g, <3>2, <3>3, <3>4, <3>6, <3>10, <3>11, <3>12 DEF PassIsWhole, n
  <2> QED
    BY <2>0, <2>1, <2>2, <1>0
<1> QED
  BY <1>1, <1>2

-----------------------------------------------------------------------------
(* The invariant, and what it says.                                         *)

\* Before the first step all of it holds.
LEMMA InitInv ==
    ASSUME Init
    PROVE  IInv
<1> USE DEF Init
<1>0. MaxResets \in Nat /\ boot = 0 /\ home = Unset /\ step = "off" /\ outcome = None /\ None = "none"
  BY ProbeAssumption DEF None
<1>1. TypeInv
  BY DEF TypeInv, Buffers
<1>2. BoardInv
  BY <1>0 DEF BoardInv, Frames
<1>3. RulingInv /\ SetupInv /\ StageInv /\ BootInv /\ SampleInv
  BY <1>0, Steps DEF RulingInv, SetupInv, StageInv, BootInv, SampleInv
<1>4. ReadInv
  BY <1>0 DEF ReadInv
<1>5. CleanInv /\ PassIsWhole
  BY <1>0 DEF CleanInv, PassIsWhole
<1>6. VerdictIsTrue /\ BlameNeedsControl
  <2>1. \A i \in DOMAIN records : FALSE
    OBVIOUS
  <2> QED
    BY <2>1 DEF VerdictIsTrue, BlameNeedsControl
<1> QED
  BY <1>1, <1>2, <1>3, <1>4, <1>5, <1>6 DEF IInv

\* Every reachable state satisfies it.
THEOREM Inductive == Spec => []IInv
<1>1. Init => IInv
  BY InitInv
<1>2. IInv /\ [Next]_vars => IInv'
  <2> SUFFICES ASSUME IInv, [Next]_vars PROVE IInv'
    OBVIOUS
  <2>1. /\ TypeInv /\ BoardInv /\ RulingInv /\ SetupInv /\ StageInv /\ BootInv /\ ReadInv /\ SampleInv /\ CleanInv
        /\ VerdictIsTrue /\ BlameNeedsControl /\ PassIsWhole
    BY DEF IInv
  <2>2. TypeInv' /\ BoardInv' /\ RulingInv' /\ SetupInv' /\ StageInv'
    BY <2>1, TypeStep, BoardStep, RulingStep, StageStep
  <2>3. BootInv' /\ ReadInv' /\ SampleInv' /\ CleanInv'
    BY <2>1, <2>2, BootStep, ReadStep, SampleStep, CleanStep
  <2>4. VerdictIsTrue' /\ BlameNeedsControl' /\ PassIsWhole'
    BY <2>1, <2>2, TruthStep, BlameStep, WholeStep
  <2> QED
    BY <2>2, <2>3, <2>4 DEF IInv
<1> QED
  BY <1>1, <1>2, PTL DEF Spec

\* Every variable the invariant rests on keeps its kind, however often the
\* board restarts and whatever its engine delivers (board_session.py and the
\* runners over it).
THEOREM TypeCorrect == Spec => []TypeInv
<1>1. IInv => TypeInv
  BY DEF IInv
<1> QED
  BY <1>1, Inductive, PTL

\* One ruling, one attempt: the processes that opened the port are at most one,
\* and none before the ruling is consumed (claim_ruling).
LEMMA OneIsEnough ==
    ASSUME RulingInv
    PROVE  OneAttempt
<1>1. CASE consumed
  <2>1. PICK r \in Runners : opened = {r}
    BY <1>1 DEF RulingInv
  <2>2. Cardinality(opened) = 1
    BY <2>1, FS_Singleton
  <2> QED
    BY <1>1, <2>2 DEF OneAttempt
<1>2. CASE ~consumed
  <2>1. opened = {} /\ Cardinality(opened) = 0
    BY <1>2, FS_EmptySet DEF RulingInv
  <2> QED
    BY <2>1 DEF OneAttempt
<1> QED
  BY <1>1, <1>2

\* What a chain records and concludes is so, for any chain of the kind the
\* runners build, any number of processes, restarts and lost banners: a read's
\* verdict is what the engine did in that transfer (adjudicate), a PASS is a
\* whole chain in one boot (run_probe, run_p1, run_p2), a violation is blamed
\* only after the control agreed (p2_observe), under one attempt per ruling.
THEOREM TruthHolds == Spec => []ChainTellsTheTruth
<1>1. IInv => ChainTellsTheTruth
  BY OneIsEnough DEF IInv, ChainTellsTheTruth
<1> QED
  BY <1>1, Inductive, PTL

\* A chain that a payload verdict stopped has left the configuration engine
\* out of its stream (the desync that execute_plan still sends before it raises).
THEOREM EngineCleanHolds == Spec => []EngineLeftClean
<1>1. IInv => EngineLeftClean
  BY DEF IInv, CleanInv, EngineLeftClean, None
<1> QED
  BY <1>1, Inductive, PTL

==============================================================================
