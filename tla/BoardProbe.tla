------------------------------ MODULE BoardProbe ------------------------------
(* A probe of the board under one ruling: scripts/board_session.py (one       *)
(* transport, identity and epoch) driven by the chains of pcap_probe_runner.py*)
(* (S1-S3), p1_runner.py and p2_runner.py.  A command is an exchange guarded  *)
(* on both sides: what is pending is judged before it, its reply after it.    *)
(* The board may restart at any moment; its banner may get lost on the wire.  *)
EXTENDS Naturals, Sequences, SequencesExt, FiniteSets

CONSTANTS
    Runners,        \* processes started with the same ruling
    Programs,       \* the chains: sequences of stages
    MaxResets,      \* bound: restarts of the board
    MaxLost         \* bound: banners that never arrive

None == "none"
Unset == MaxResets + 2      \* no boot and no epoch
PayloadStops == {"BUFFER_UNCHANGED_FROM_PREFILL", "SENTINEL_REMAINS", "BLANK", "MISADDRESS",
                 "MISADDRESS_AMBIGUOUS", "NO_MATCH", "PRE_WRITE_CONTENT"}
Frames == {"base", "A", "B"}
\* What a readout can hold: a frame, or what a failing engine leaves or makes.
Buffers == Frames \cup {"old", "prefill", "partly", "zeros", "neighbour", "twins", "garbage"}

\* A stage of a chain; "before" is the content a read after a write would show
\* if the write did not take.
ReadStage(frame, before) == [kind |-> "read", frame |-> frame, before |-> before]
WriteStage(frame) == [kind |-> "write", frame |-> frame, before |-> None]
Clock == [kind |-> "clock", frame |-> None, before |-> None]
Sample == [kind |-> "sample", frame |-> None, before |-> None]
Jtag(frame) == [kind |-> "jtag", frame |-> frame, before |-> None]

ProbeChain(n) == <<ReadStage("base", None), ReadStage("base", None)>> \o [i \in 1..n |-> ReadStage("base", None)]
P1Chain == <<ReadStage("base", "base"), WriteStage("A"), ReadStage("A", "base"), WriteStage("B"),
             ReadStage("B", "A"), Jtag("B")>>
P2Chain(n) == <<Clock, Sample, Sample>> \o FlattenSeq([i \in 1..n |-> <<ReadStage("base", None), Sample>>])
              \o <<Sample, WriteStage("A"), Sample, ReadStage("A", "base"), Sample>>

\* What every chain keeps: what is read and written are frames; a clock can
\* only come first, and then its two observations, baseline and control, before
\* anything is done to the fabric; a chain without them starts with a read and
\* observes nothing; a verifier is the end of such a chain.
Chained(p) ==
    /\ Len(p) > 1
    /\ p[1].kind \in {"read", "clock"}
    /\ p[1].kind = "clock" => Len(p) > 3 /\ p[2].kind = "sample" /\ p[3].kind = "sample"
    /\ \A i \in DOMAIN p :
         /\ p[i].kind \in {"read", "write", "clock", "sample", "jtag"}
         /\ p[i].kind \in {"read", "write", "jtag"} => p[i].frame \in Frames
         /\ p[i].before \in Frames \cup {None}
         /\ p[i].kind = "clock" => i = 1
         /\ p[i].kind = "sample" => p[1].kind = "clock"
         /\ p[i].kind = "jtag" => i = Len(p) /\ p[1].kind = "read"

ASSUME ProbeAssumption ==
    /\ MaxResets \in Nat /\ MaxLost \in Nat
    /\ \A p \in Programs : p \in Seq([kind : STRING, frame : STRING, before : STRING]) /\ Chained(p)

VARIABLES
    \* the board
    boot,           \* restarts so far
    fabric,         \* content of the target frame, None when not configured
    pldone,         \* PCFG_DONE
    marker,         \* plmark in the environment: the boot that set it, or Unset
    buffer,         \* the destination buffer
    synced,         \* the configuration engine is in a stream
    words,          \* what the observable AXI words read
    banner,         \* a boot banner is on its way or in the receive buffer
    lost,           \* banners lost
    \* the ruling and the processes
    consumed,       \* the .consumed file exists
    runner,         \* where each process stands
    \* the session of the process that claimed the ruling
    program, stage, step,
    epoch, identity, plmark,
    baseline, samples,
    records, sealed, outcome,
    \* history
    readout,        \* what md.l read of the destination buffer in this stage
    delivered,      \* what the engine really put there, None for nothing
    opened,         \* processes that opened the port
    home            \* the boot that configured the fabric for this session

board == <<boot, fabric, pldone, marker, buffer, synced, words, banner, lost>>
host == <<consumed, runner, opened>>
books == <<baseline, samples, records, sealed, outcome>>
session == <<epoch, identity, plmark>>
transfer == <<readout, delivered>>
vars == <<board, host, program, stage, step, session, books, transfer, home>>

Init ==
    /\ boot = 0 /\ lost = 0 /\ banner = FALSE /\ synced = FALSE
    \* a fresh power-on, or a board somebody configured in this boot
    /\ \/ fabric = None /\ pldone = FALSE /\ marker = Unset
       \/ fabric = "base" /\ pldone = TRUE /\ marker \in {Unset, 0}
    /\ buffer = "old" /\ words = "v0"
    /\ consumed = FALSE /\ runner = [r \in Runners |-> "preflight"] /\ opened = {}
    /\ program \in Programs /\ stage = 0 /\ step = "off"
    /\ epoch = 0 /\ identity = Unset /\ plmark = Unset
    /\ baseline = None /\ samples = <<>> /\ records = <<>> /\ sealed = <<>> /\ outcome = None
    /\ readout = "old" /\ delivered = None /\ home = Unset

-----------------------------------------------------------------------------
(* The ruling: checked, claimed atomically before the port is opened, never   *)
(* released.                                                                  *)

CheckRuling(r) ==
    /\ runner[r] = "preflight"
    /\ runner' = [runner EXCEPT ![r] = IF consumed THEN "refused" ELSE "checked"]
    /\ UNCHANGED <<board, consumed, opened, program, stage, step, session, books, transfer, home>>

ClaimRuling(r) ==
    /\ runner[r] = "checked"
    /\ consumed' = TRUE
    /\ runner' = [runner EXCEPT ![r] = IF consumed THEN "refused" ELSE "running"]
    /\ opened' = IF consumed THEN opened ELSE opened \cup {r}
    /\ step' = IF consumed THEN step ELSE "precheck"
    /\ UNCHANGED <<board, program, stage, session, books, transfer, home>>

\* A process killed at any point leaves the ruling consumed.
Crash(r) ==
    /\ runner[r] \in {"checked", "running"}
    /\ runner' = [runner EXCEPT ![r] = "crashed"]
    /\ step' = IF runner[r] = "running" THEN "off" ELSE step
    /\ UNCHANGED <<board, consumed, opened, program, stage, session, books, transfer, home>>

-----------------------------------------------------------------------------
(* The board. *)

Restarted(b) == /\ boot' = boot + 1 /\ fabric' = None /\ pldone' = FALSE /\ marker' = Unset
                /\ synced' = FALSE /\ words' = "dead" /\ buffer' = b

Reset ==
    /\ boot < MaxResets
    /\ \E b \in {buffer, "garbage"} : Restarted(b)
    /\ \/ banner' = TRUE /\ lost' = lost
       \/ lost < MaxLost /\ lost' = lost + 1 /\ banner' = banner
    /\ UNCHANGED <<host, program, stage, step, session, books, transfer, home>>

\* The carrier's observable words change for a reason of their own.
Drift ==
    /\ words = "v0" /\ words' = "v1"
    /\ UNCHANGED <<boot, fabric, pldone, marker, buffer, synced, banner, lost, host, program, stage, step,
                   session, books, transfer, home>>

-----------------------------------------------------------------------------
(* The guarded command. *)

Stopped(why) == /\ outcome' = why /\ step' = "off"
                /\ runner' = [r \in Runners |-> IF runner[r] = "running" THEN "ended" ELSE runner[r]]
                /\ UNCHANGED <<consumed, opened>>

NoteDisruption == epoch' = epoch + 1 /\ identity' = Unset /\ plmark' = Unset

\* A command that gets no further: a banner pending or in the reply, no prompt
\* in time (the epoch ends); a reply that says something else, or md.l still
\* malformed after its re-reads (it does not).
Refused ==
    /\ step \notin {"off", "jtag", "finish"}
    /\ ~(step = "begin" /\ program[stage].kind = "jtag")
    /\ \/ banner /\ banner' = FALSE /\ NoteDisruption
       \/ ~banner /\ UNCHANGED banner /\ NoteDisruption
       \/ ~banner /\ UNCHANGED <<banner, session>>
    /\ Stopped("REFUSED")
    /\ UNCHANGED <<boot, fabric, pldone, marker, buffer, synced, words, lost, program, stage,
                   baseline, samples, records, sealed, transfer, home>>

\* A step whose commands were all answered.
Answered(s) == step = s /\ ~banner

Going(s) == step' = s /\ UNCHANGED <<host, outcome>>

-----------------------------------------------------------------------------
(* Precheck, identity, the one setup load. *)

Precheck ==
    /\ Answered("precheck")
    /\ IF pldone \/ marker # Unset THEN Stopped("REFUSED") ELSE Going("identity")
    /\ UNCHANGED <<board, program, stage, session, baseline, samples, records, sealed, transfer, home>>

VerifyIdentity ==
    /\ Answered("identity")
    /\ identity' = epoch
    /\ Going("load")
    /\ UNCHANGED <<board, program, stage, epoch, plmark, baseline, samples, records, sealed, transfer, home>>

Authorised == identity # Unset /\ identity = epoch

\* Not yet configured; ymodem; clear PCFG_DONE; loadb; PCFG_DONE; the marker.
LoadCarrier ==
    /\ Answered("load")
    /\ IF ~Authorised \/ pldone
       THEN Stopped("REFUSED") /\ UNCHANGED <<fabric, pldone, words, home>>
       ELSE /\ Going("marker")
            /\ fabric' = "base" /\ pldone' = TRUE /\ words' = "v0"
            /\ home' = boot
    /\ UNCHANGED <<boot, marker, buffer, synced, banner, lost, program, stage, session,
                   baseline, samples, records, sealed, transfer>>

SetMarker ==
    /\ Answered("marker")
    /\ marker' = boot /\ plmark' = boot
    /\ stage' = 1 /\ Going("begin")
    /\ UNCHANGED <<boot, fabric, pldone, buffer, synced, words, banner, lost, program, epoch, identity,
                   baseline, samples, records, sealed, transfer, home>>

-----------------------------------------------------------------------------
(* The stages. *)

This == program[stage]
NextStage == IF stage = Len(program) THEN "finish" ELSE "begin"

\* The record of a stage; None for a stop that says nothing about the silicon.
Recorded(v) == records' = Append(records, [stage |-> stage, verdict |-> v, readout |-> readout,
                                           delivered |-> delivered, boot |-> boot])
StageStops == Stopped("STOP") /\ Recorded(None) /\ UNCHANGED stage
StageEnds(v) == Recorded(v) /\ Going(NextStage) /\ stage' = stage + 1

\* Authorisation and check_plmark; then the stage's own commands.
BeginStage ==
    /\ Answered("begin") /\ This.kind # "jtag"
    /\ readout' = "old" /\ delivered' = None
    /\ IF ~Authorised \/ (This.kind # "clock" /\ marker = Unset)
       THEN Stopped("REFUSED") /\ UNCHANGED session
       ELSE IF This.kind # "clock" /\ marker # plmark THEN Stopped("REFUSED") /\ NoteDisruption
       ELSE Going(This.kind) /\ UNCHANGED session
    /\ UNCHANGED <<board, program, stage, baseline, samples, records, sealed, home>>

\* Mutant: no prefill.
GatesOnly ==
    /\ Answered("read")
    /\ \/ pldone /\ Going("transfer") /\ UNCHANGED <<records, stage>>
       \/ StageStops
    /\ UNCHANGED <<board, program, session, baseline, samples, sealed, transfer, home>>

\* CTRL, MCTRL, PCFG_DONE; the prefill written and read back; the stream.
Gates ==
    /\ Answered("read")
    /\ \/ pldone /\ buffer' = "prefill" /\ Going("transfer") /\ UNCHANGED <<records, stage>>
       \/ buffer' = buffer /\ StageStops               \* any gate may fail
    /\ UNCHANGED <<boot, fabric, pldone, marker, synced, words, banner, lost, program, session,
                   baseline, samples, sealed, transfer, home>>

\* Command and readback, each cleared for and waited for: the engine delivers
\* the frame, something else or nothing; an error bit or the deadline stops.
Transfer ==
    /\ Answered("transfer")
    /\ synced' = TRUE
    /\ \/ /\ \/ buffer' = buffer /\ delivered' = None
             \/ \E got \in {"partly", "zeros", "neighbour", "twins", "garbage"} \cup ({fabric} \ {None}) :
                    buffer' = got /\ delivered' = got
          /\ Going("readout") /\ UNCHANGED <<records, stage>>
       \/ UNCHANGED <<buffer, delivered>> /\ StageStops
    /\ UNCHANGED <<boot, fabric, pldone, marker, words, banner, lost, program, session,
                   baseline, samples, sealed, readout, home>>

Readout ==
    /\ Answered("readout")
    /\ readout' = buffer
    /\ Going("cleanup")
    /\ UNCHANGED <<board, program, stage, session, baseline, samples, records, sealed, delivered, home>>

\* The verdict table: the whole buffer first, then the frame half.
Adjudicate(buf, want) ==
    IF buf = "prefill" THEN "BUFFER_UNCHANGED_FROM_PREFILL"
    ELSE IF buf = "partly" THEN "SENTINEL_REMAINS"
    ELSE IF buf = want THEN "PASS"
    ELSE IF buf = "zeros" THEN "BLANK"
    ELSE IF buf \in {"neighbour", "base"} THEN "MISADDRESS"
    ELSE IF buf = "twins" THEN "MISADDRESS_AMBIGUOUS"
    ELSE "NO_MATCH"

\* read_stage of p1: content that was there before the write is its own verdict.
Reclassified(v) ==
    IF v \in {"BLANK", "MISADDRESS", "MISADDRESS_AMBIGUOUS", "NO_MATCH"} /\ readout = This.before
    THEN "PRE_WRITE_CONTENT" ELSE v

\* Mutant: the stop comes before the cleanup.
StopFirst ==
    /\ Answered("cleanup")
    /\ LET v == Reclassified(Adjudicate(readout, This.frame))
       IN  IF v = "PASS" THEN synced' = FALSE /\ StageEnds(v)
           ELSE UNCHANGED <<synced, stage>> /\ Stopped("STOP") /\ Recorded(v)
    /\ UNCHANGED <<boot, fabric, pldone, marker, buffer, words, banner, lost, program, session,
                   baseline, samples, sealed, transfer, home>>

\* The engine is desynchronised before a payload verdict stops the chain; if
\* that transfer fails, the stop it raises takes the verdict's place.
Cleanup ==
    /\ Answered("cleanup")
    /\ \/ LET v == Reclassified(Adjudicate(readout, This.frame))
          IN  /\ synced' = FALSE
              /\ IF v = "PASS" THEN StageEnds(v)
                 ELSE Stopped("STOP") /\ Recorded(v) /\ UNCHANGED stage
       \/ synced' = TRUE /\ StageStops
    /\ UNCHANGED <<boot, fabric, pldone, marker, buffer, words, banner, lost, program, session,
                   baseline, samples, sealed, transfer, home>>

\* A write: CTRL before, the stream, clear, transfer, CTRL after.  It may not
\* take although the engine reports it done.
WriteFrame ==
    /\ Answered("write")
    /\ \/ fabric' \in {fabric, IF fabric = None THEN None ELSE This.frame} /\ StageEnds("WRITTEN")
       \/ fabric' = fabric /\ StageStops
    /\ UNCHANGED <<boot, pldone, marker, buffer, synced, words, banner, lost, program, session,
                   baseline, samples, sealed, transfer, home>>

\* FCLK0 is decoded from four reads and must be 50 MHz.
ReadClock ==
    /\ Answered("clock")
    /\ StageEnds("OK") \/ StageStops
    /\ UNCHANGED <<board, program, session, baseline, samples, sealed, transfer, home>>

\* One observation: not alive stops without a record, the control must equal
\* the baseline, later ones are judged at the end.
Observe ==
    /\ Answered("sample")
    /\ samples' = Append(samples, words)
    /\ baseline' = IF samples = <<>> THEN words ELSE baseline
    /\ IF words = "dead" THEN Stopped("STOP") /\ UNCHANGED <<stage, records>>
       ELSE IF Len(samples) = 1 /\ words # baseline
       THEN Stopped("HOLD") /\ Recorded("CONTROL_UNSTABLE") /\ UNCHANGED stage
       ELSE StageEnds("OK")
    /\ UNCHANGED <<board, program, session, sealed, transfer, home>>

\* The records are sealed, then the terminal verifier reads the die.
Seal ==
    /\ step = "begin" /\ This.kind = "jtag"
    /\ sealed' = records /\ Going("jtag")
    /\ UNCHANGED <<board, program, stage, session, baseline, samples, records, transfer, home>>

JtagRead ==
    /\ step = "jtag"
    /\ \/ Stopped("HOLD")
       \/ Stopped(IF fabric = This.frame THEN "PASS" ELSE "STOP")
       \/ Stopped("STOP")            \* the pad frame or the CRC flag
    /\ UNCHANGED <<board, program, stage, session, baseline, samples, records, sealed, transfer, home>>

\* The end of a chain without a verifier; p2 judges its whole series.
Violations == {i \in 3..Len(samples) : samples[i] # baseline}
Finish ==
    /\ step = "finish"
    /\ Stopped(IF Violations = {} THEN "PASS" ELSE "STOP")
    /\ UNCHANGED <<board, program, stage, session, baseline, samples, records, sealed, transfer, home>>

-----------------------------------------------------------------------------
SessionStep == \/ Refused \/ Precheck \/ VerifyIdentity \/ LoadCarrier \/ SetMarker
               \/ BeginStage \/ Gates \/ Transfer \/ Readout \/ Cleanup \/ WriteFrame
               \/ ReadClock \/ Observe \/ Seal \/ JtagRead \/ Finish

Over == /\ \A r \in Runners : runner[r] \in {"refused", "ended", "crashed"}
        /\ UNCHANGED vars

Next == \/ \E r \in Runners : CheckRuling(r) \/ ClaimRuling(r) \/ Crash(r)
        \/ Reset \/ Drift \/ SessionStep \/ Over

Spec == Init /\ [][Next]_vars

-----------------------------------------------------------------------------

\* scripts/pcap_probe_runner.py:121 adjudicate: what a read's verdict claims of
\* the engine is what the engine did in that very transfer, never what an
\* earlier one left in the buffer or in INT_STS, and although the board may
\* restart unseen in the middle of the stage.
VerdictIsTrue ==
    \A i \in DOMAIN records :
        LET r == records[i] IN
        /\ r.verdict = "PASS" => r.delivered = program[r.stage].frame
        /\ r.verdict = "PRE_WRITE_CONTENT" => r.delivered = program[r.stage].before
        /\ r.verdict = "BUFFER_UNCHANGED_FROM_PREFILL" => r.delivered = None

\* The chains (pcap_probe_runner.run_probe, run_p1, run_p2): PASS means one
\* uninterrupted epoch, every stage of the chain good and in order, all but the
\* last in the boot that loaded the carrier; sealed before the verifier, whose
\* frame is there; and nothing the observation saw moved.
PassIsWhole ==
    outcome = "PASS" =>
        LET n == IF Last(program).kind = "jtag" THEN Len(program) - 1 ELSE Len(program) IN
        /\ epoch = 0 /\ identity = 0 /\ Len(records) = n
        /\ \A i \in 1..n :
              /\ records[i].stage = i
              /\ records[i].verdict = (CASE program[i].kind = "read" -> "PASS"
                                         [] program[i].kind = "write" -> "WRITTEN"
                                         [] OTHER -> "OK")
              /\ i < n => records[i].boot = home
        /\ n < Len(program) => sealed = records /\ (boot = home => fabric = Last(program).frame)
        /\ \A i \in DOMAIN samples : samples[i] = baseline

\* scripts/pcap_probe_runner.py:195 claim_ruling: one ruling, one attempt,
\* whatever processes are started and wherever they die.
OneAttempt == Cardinality(opened) <= 1 /\ (opened # {} => consumed)

\* scripts/pcap_probe_runner.py:424: a payload verdict is raised only once the
\* engine has been desynchronised (unless the board itself went away).
EngineLeftClean ==
    outcome = "STOP" /\ records # <<>> /\ Last(records).verdict \in PayloadStops => ~synced

\* scripts/p2_observe.py:76: a violation is blamed on the probe only when the
\* control, taken before any of its transfers, agreed with the baseline.
BlameNeedsControl ==
    \A i \in DOMAIN records : records[i].delivered # None /\ samples # <<>> =>
        Len(samples) >= 2 /\ samples[1] = samples[2]

\* What a chain records of its stages, and concludes from them, is so, of the
\* one attempt its ruling allowed.
ChainTellsTheTruth == VerdictIsTrue /\ PassIsWhole /\ BlameNeedsControl /\ OneAttempt

=============================================================================
