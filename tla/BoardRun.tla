------------------------------- MODULE BoardRun -------------------------------
(* The runners that carry a candidate to the fabric over U-Boot's console:    *)
(* host/l2_runner.py, l3_runner.py (the chain of three links, the ARM and one *)
(* negative control), l4_runner.py and l3_diag_runner.py with its terminal    *)
(* JTAG read.  A program is a script of steps, a step is a function of the    *)
(* runners with all it does to the board.  Module BoardProbe has the guarded  *)
(* command and the readout below it, module ArmGate the gate of the fabric.   *)
EXTENDS Naturals, Sequences, SequencesExt

CONSTANTS
    Envelopes,      \* envelopes of a candidate; only the first one's frames are not blank
    Programs,       \* the programs run
    Askers,         \* processes that ask for the terminal read
    MaxSessions,    \* bound: sessions under one provisioning ruling
    MaxResets       \* bound: restarts of the board in a session

None == "none"
Nothing == <<>>     \* no fabric, no payload, no stream
Envs == 1..Envelopes
KnownAnswer == [e \in Envs |-> IF e = 1 THEN "cand" ELSE "blank"]
BlankCandidate == [e \in Envs |-> "blank"]

PreControls == {"unprovisioned", "wrong_key"}
PostControls == {"unsigned", "replay", "other_candidate", "wrong_table"}

ExpectedFault(kind) == CASE kind = "unprovisioned" -> "F_KEY"
                         [] kind = "wrong_table" -> "F_ARM_TABLE"
                         [] OTHER -> "F_ARM_AUTH"

-----------------------------------------------------------------------------
(* The scripts. *)

Step(op, e) == [op |-> op, env |-> e]
Do(op) == <<Step(op, 0)>>
Each(op, k) == [e \in 1..k |-> Step(op, e)]
StageAndWrite(e) == <<Step("stage", e), Step("write", e)>>
Written == FlattenSeq([e \in Envs |-> StageAndWrite(e)])
Provisioning(negative) == IF negative = "unprovisioned" THEN <<>> ELSE Do("claim") \o Do("provision")

Program(kind, negative, want, script) ==
    [kind |-> kind, negative |-> negative, want |-> want, script |-> script]

L3(negative) == Program("L3", negative, KnownAnswer,
    Do("load") \o Provisioning(negative) \o Do("keyed") \o Written \o Each("read", Envelopes)
    \o Do("link3") \o Do("arm") \o (IF negative \in PostControls THEN Do("control") ELSE <<>>))

L4 == Program("L4", None, BlankCandidate,
    Do("load") \o Do("corrupt") \o Written \o Each("read", Envelopes) \o Provisioning(None)
    \o Do("keyed") \o Do("arm"))

\* n reads of a blank frame between the control and the one write.
L2(n) == Program("L2", None, KnownAnswer,
    Do("load") \o Do("sample") \o Do("sample")
    \o FlattenSeq([i \in 1..n |-> <<Step("read", Envelopes), Step("sample", 0)>>]) \o Do("sample")
    \o StageAndWrite(1) \o Do("sample") \o Each("read", 1) \o Do("sample") \o Do("continuity"))

\* Phase k writes envelope k and reads the first k; the closing reads follow
\* the end that is reached without a mismatch.
Diag == Program("diag", None, KnownAnswer,
    Do("load") \o FlattenSeq([k \in Envs |-> StageAndWrite(k) \o Each("read", k) \o <<Step("phase", k)>>])
    \o Do("end") \o Each("read", Envelopes) \o Do("end"))

\* What every script keeps: a write follows its stage at once and a key its
\* claim; the load comes first; the phases that end early end on a read.
Ordered(script) ==
    \A i \in 1..Len(script) :
        LET follows(op) == i > 1 /\ script[i - 1].op = op
            last == Len(script) - Envelopes
        IN  /\ script[i].op = "write" <=> follows("stage")
            /\ script[i].op = "provision" <=> follows("claim")
            /\ script[i].op = "load" <=> i = 1
            /\ script[i].op = "phase" => last \in 1..Len(script) /\ script[last].op = "read"

\* What the order of a script leaves no way around: the envelopes are written
\* one after the other, each from its own staging, and an ARM comes after every
\* envelope was written and read, the key claimed for and STATUS asked for it,
\* with nothing but its control behind it.  L3 judges link 3 just before the
\* ARM, L4 at each read.
Guarded(p) ==
    LET s == p.script
        At(i, op) == s[i].op = op
        Had(i, op, e) == \E j \in 1..(i - 1) : s[j] = Step(op, e)
    IN  \A i \in 1..Len(s) :
            /\ s[i].op \in {"stage", "write", "read"} => s[i].env \in Envs
            /\ At(i, "write") =>
                 /\ s[i - 1].env = s[i].env
                 /\ s[i].env > 1 => Had(i, "write", s[i].env - 1)
                 /\ \A j \in 1..(i - 1) : At(j, "write") => s[j].env < s[i].env
            /\ At(i, "corrupt") => p.kind = "L4"
            /\ At(i, "continuity") <=> p.kind = "L2" /\ i = Len(s)
            /\ At(i, "phase") => p.kind = "diag"
            /\ At(i, "sample") => p.kind = "L2"
            /\ At(i, "provision") => p.negative # "unprovisioned"
            /\ At(i, "control") => p.negative \in PostControls /\ i > 1 /\ At(i - 1, "arm")
            /\ At(i, "arm") =>
                 /\ p.kind = "L4" \/ (p.kind = "L3" /\ i > 1 /\ At(i - 1, "link3"))
                 /\ \A e \in Envs : Had(i, "write", e) /\ Had(i, "read", e)
                 /\ p.negative # "unprovisioned" => Had(i, "claim", 0) /\ Had(i, "keyed", 0)
                 /\ \A j \in (i + 1)..Len(s) : At(j, "control")

\* The runners' programs: what one writes, and the controls L3 has.
Shaped(p) ==
    /\ p.kind \in {"L2", "L3", "L4", "diag"} /\ p.want \in [Envs -> {"cand", "blank"}]
    /\ p.negative \in {None} \cup PreControls \cup PostControls
    /\ p.negative # None => p.kind = "L3" /\ p.want # BlankCandidate

ASSUME BoardRunAssumption ==
    /\ {Envelopes, MaxSessions, MaxResets} \subseteq Nat
    /\ \A p \in Programs :
         p.script \in Seq([op : STRING, env : Nat]) /\ Ordered(p.script) /\ Guarded(p) /\ Shaped(p)

VARIABLES
    board,      \* boot, banner; dcache, cache, ddr (the staging buffer, as the CPU and as the
                \* DMA sees it); done (D_P_DONE); fabric, key, nonce, fault, armed
    prog, pc,   \* the program and its next step
    run,        \* home (boot of the load), approved, taken, reads, samples, arm; reread (what L4's
                \* link 2 saw); score and control, as the log has them; defect, the one thing of
                \* the session that was not as it should be
    verdict,    \* the outcome as it stands before a control
    outcome,
    session,
    marker,     \* the signer's own marker of the provisioning ruling
    consumed,   \* the runner's .consumed beside it
    executed,   \* times the key was written under that ruling
    sealed,     \* sealed.json exists
    filed,      \* the verdict in jtag.json
    asker,      \* the processes of phase 2: idle, asking, done and the answer they hold
    blame       \* diag_verdict.json

ruling == <<session, marker, consumed, executed>>
terminal == <<filed, asker, blame>>
vars == <<board, prog, pc, run, verdict, outcome, ruling, sealed, terminal>>

PowerOn == [boot |-> 0, banner |-> FALSE, dcache |-> TRUE, cache |-> Nothing, ddr |-> Nothing, done |-> FALSE,
            fabric |-> Nothing, key |-> None, nonce |-> 0, fault |-> None, armed |-> Nothing]
Blank == [home |-> MaxResets + 1, approved |-> <<>>, taken |-> <<>>, reads |-> <<>>, samples |-> <<>>,
          arm |-> Nothing, reread |-> Nothing, score |-> Nothing, control |-> None, defect |-> None]

Init ==
    /\ board = PowerOn /\ prog \in Programs /\ pc = 1 /\ run = Blank
    /\ verdict = None /\ outcome = None
    /\ session = 1 /\ marker = FALSE /\ consumed = FALSE /\ executed = 0
    /\ sealed = FALSE /\ filed = None /\ blame = None
    /\ asker = [a \in Askers |-> "idle"]

-----------------------------------------------------------------------------
(* How a step ends. *)

Op == prog.script[pc].op
Env == prog.script[pc].env
Stream(e) == <<e, prog.want[e]>>
Garbled == <<0, "garbage">>
Going == pc' = pc + 1 /\ UNCHANGED <<outcome, consumed, sealed>>

\* validate_run_log, of what the run r logged: the commitment, the readout and
\* the key of its score, the fault of its control.
ScoreRecord(commit, tables, keyed) == [commit |-> commit, tables |-> tables, keyed |-> keyed]
ScoreRecordHolds(s) == s = ScoreRecord(prog.want, prog.want, TRUE)
LogHolds(r) == /\ r.score # Nothing => ScoreRecordHolds(r.score)
               /\ r.control # None => r.control = ExpectedFault(prog.negative)

Closed(o) ==
    /\ outcome' = o
    /\ consumed' = (consumed \/ prog.kind \in {"L3", "L4"})
    /\ sealed' = (prog.kind = "diag")
    /\ UNCHANGED pc

\* Mutant: a log that is rejected is noted, and the outcome stands.
LogNoted(o, r) == Closed(o)

\* The finally blocks: the log is judged last, and a rejection takes the place
\* of whatever ended the session; _record_pk beside the ruling, the
\* diagnostic's seal.
Concluded(o, r) == Closed(IF LogHolds(r) THEN o ELSE "KILL")
Ended(o) == Concluded(o, run)

Running(op) == outcome = None /\ pc \in DOMAIN prog.script /\ Op = op
\* A step on the console: its commands are answered and no banner is pending.
Answered(op) == Running(op) /\ ~board.banner
Marked == board.boot = run.home             \* check_plmark
OnAxi == board.fabric # Nothing               \* an access to a blank PL resets the board

Still == UNCHANGED <<prog, session, marker, executed, terminal>>
SameBooks == UNCHANGED <<run, verdict>>

-----------------------------------------------------------------------------
(* The board and the process. *)

Reset ==
    /\ outcome = None /\ board.boot < MaxResets
    /\ \E seen \in BOOLEAN :
         board' = [PowerOn EXCEPT !.boot = board.boot + 1, !.banner = seen, !.ddr = Garbled]
    /\ UNCHANGED <<prog, pc, run, verdict, outcome, ruling, sealed, terminal>>

\* A banner, no answer in time, a reply that says something else, a signal.
Refused ==
    /\ outcome = None
    /\ Ended("REFUSED")
    /\ board' = [board EXCEPT !.banner = FALSE]
    /\ Still /\ SameBooks

Killed ==
    /\ outcome = None /\ outcome' = "KILLED"
    /\ UNCHANGED <<board, prog, pc, run, verdict, ruling, sealed, terminal>>

\* The next session under the same provisioning ruling, from a fresh power-on.
NextSession ==
    /\ outcome # None /\ session < MaxSessions /\ prog.kind \in {"L3", "L4"}
    /\ session' = session + 1
    /\ prog' \in {p \in Programs : p.kind \in {"L3", "L4"}}
    /\ board' = PowerOn /\ pc' = 1 /\ run' = Blank /\ verdict' = None /\ outcome' = None
    /\ UNCHANGED <<marker, consumed, executed, sealed, terminal>>

-----------------------------------------------------------------------------
(* Load, provisioning. *)

\* Precheck, identity, load_carrier: the base, whose target frames are blank.
Load ==
    /\ Answered("load")
    /\ board' = [board EXCEPT !.fabric = BlankCandidate, !.key = None, !.nonce = 0, !.fault = None,
                              !.armed = Nothing, !.done = TRUE]
    /\ run' = [run EXCEPT !.home = board.boot]
    /\ Going /\ Still /\ UNCHANGED verdict

\* Mutant: the signer asks for the runner's record of the ruling.
ClaimByConsumed ==
    /\ Running("claim")
    /\ IF consumed THEN Ended("STOP") /\ UNCHANGED marker ELSE Going /\ marker' = TRUE
    /\ UNCHANGED <<board, prog, session, executed, terminal>> /\ SameBooks

\* claim_provision_ruling: the signer's O_EXCL marker, at execution time.
ClaimProvisionRuling ==
    /\ Running("claim")
    /\ IF marker THEN Ended("STOP") /\ UNCHANGED marker ELSE Going /\ marker' = TRUE
    /\ UNCHANGED <<board, prog, session, executed, terminal>> /\ SameBooks

\* provision_key_jtag.run: four words and the commit, write-once in the fabric;
\* openocd may fail before or after them.
Provision ==
    /\ Running("provision")
    /\ executed' = executed + 1
    /\ LET key == IF prog.negative = "wrong_key" THEN "K2" ELSE "K"
       IN  \/ OnAxi /\ board.key = None /\ board' = [board EXCEPT !.key = key]
           \/ UNCHANGED board
    /\ Going \/ Ended("STOP")
    /\ UNCHANGED <<prog, session, marker, terminal>> /\ SameBooks

\* STATUS.key_loaded.
Keyed ==
    /\ Answered("keyed") /\ OnAxi
    /\ IF board.key = None /\ prog.negative # "unprovisioned" THEN Ended("STOP") ELSE Going
    /\ UNCHANGED board /\ Still /\ SameBooks

-----------------------------------------------------------------------------
(* Stage, link 2, write. *)

\* mw.l of every word of s: to the cache when it is on.
Stored(b, s) == IF b.dcache THEN [b EXCEPT !.cache = s] ELSE [b EXCEPT !.ddr = s]
\* md.l of the buffer.
Reread(b) == IF b.dcache /\ b.cache # Nothing THEN b.cache ELSE b.ddr
DcacheOff(b) == [b EXCEPT !.dcache = FALSE, !.cache = Nothing, !.ddr = Reread(b)]

\* Mutant: the write path as it was before ensure_dcache_off.
StageCached ==
    /\ Answered("stage")
    /\ \E s \in {Stream(Env), Garbled} : board' = Stored(board, s)
    /\ IF Reread(board') = Stream(Env)
       THEN Going /\ run' = [run EXCEPT !.approved = Append(@, Reread(board'))]
       ELSE Ended("STOP") /\ UNCHANGED run
    /\ Still /\ UNCHANGED verdict

\* stage_and_reread: the D-cache off, the words, the buffer read back and
\* compared; a word may not arrive.
StageAndReread ==
    /\ Answered("stage")
    /\ \E s \in {Stream(Env), Garbled} : board' = Stored(DcacheOff(board), s)
    /\ IF Reread(board') = Stream(Env)
       THEN Going /\ run' = [run EXCEPT !.approved = Append(@, Reread(board'))]
       ELSE Ended("STOP") /\ UNCHANGED run
    /\ Still /\ UNCHANGED verdict

\* What a stream may do to the fabric: as meant, nothing, or elsewhere too.
Effects(s) ==
    {board.fabric} \cup
    (IF s \in Envs \X {"cand", "blank"}
     THEN {[board.fabric EXCEPT ![s[1]] = s[2]], [e \in Envs |-> s[2]]}
     ELSE {[e \in Envs |-> "lost"]})

\* execute_write: marker, CTRL, INT_STS cleared and verified, the transfer
\* waited for, CTRL again.
ExecuteWrite ==
    /\ Answered("write") /\ Marked /\ OnAxi
    /\ run' = [run EXCEPT !.taken = Append(@, board.ddr)]
    /\ \E f \in Effects(board.ddr) : board' = [board EXCEPT !.fabric = f, !.done = TRUE]
    /\ Going \/ Ended("STOP")
    /\ Still /\ UNCHANGED verdict

\* L4: one word of the staged buffer is corrupted; link 2 must see it and no
\* transfer may have completed since INT_STS was cleared.  The corrupting word
\* or the clear may be lost, the reading blind to what lies there, and a
\* transfer may complete that nobody asked for.
Corrupt ==
    /\ Answered("corrupt")
    /\ LET Way(d, ddr, reread, done) == [defect |-> d, ddr |-> ddr, reread |-> reread, done |-> done]
       IN  \E w \in {Way(None, Garbled, Garbled, FALSE), Way("lost", Stream(1), Stream(1), FALSE),
                     Way("lost", Garbled, Garbled, board.done), Way("blind", Garbled, Stream(1), FALSE),
                     Way("stray", Garbled, Garbled, TRUE)} :
             /\ board' = [Stored(DcacheOff(board), w.ddr) EXCEPT !.done = w.done]
             /\ run' = [run EXCEPT !.reread = w.reread, !.defect = w.defect]
             /\ IF w.reread = Stream(1) \/ w.done THEN Ended("KILL") ELSE Going
    /\ Still /\ UNCHANGED verdict

-----------------------------------------------------------------------------
(* Link 3. *)

\* readback_frame: what the engine delivered, or a stop that shows nothing.
Strict == prog.kind \in {"L4", "L2"}
Wanted(e) == IF prog.kind = "L2" /\ run.taken = <<>> THEN "blank" ELSE prog.want[e]
ReadbackFrame ==
    /\ Answered("read") /\ Marked /\ OnAxi
    /\ \E got \in {board.fabric[Env], "blank", "garbage", None} :
         LET pass == got = Wanted(Env)
         IN  /\ run' = [run EXCEPT !.reads = Append(@, [env |-> Env, got |-> got, pass |-> pass,
                                                        writes |-> Len(run.taken)])]
             /\ IF Strict /\ ~pass THEN Ended("STOP") ELSE Going
    /\ UNCHANGED board /\ Still /\ UNCHANGED verdict

AllPass == \A i \in DOMAIN run.reads : run.reads[i].pass

\* All frames are read before link 3 is judged.
LinkThree ==
    /\ Running("link3")
    /\ IF AllPass THEN Going ELSE Ended("STOP")
    /\ UNCHANGED board /\ Still /\ SameBooks

\* The diagnostic: a mismatch ends all writes; the closing reads follow.
Phase ==
    /\ Running("phase")
    /\ IF AllPass THEN Going
       ELSE pc' = Len(prog.script) - Envelopes /\ UNCHANGED <<outcome, consumed, sealed>>
    /\ UNCHANGED board /\ Still /\ SameBooks

EndPcapPhase ==
    /\ Running("end") /\ Ended("ENDED")
    /\ UNCHANGED board /\ Still /\ SameBooks

-----------------------------------------------------------------------------
(* The ARM, its score, the controls. *)

Tag(key, commit, tables, nonce) == [key |-> key, commit |-> commit, tables |-> tables, nonce |-> nonce]
Payload(commit, tables, tag) == [commit |-> commit, tables |-> tables, tag |-> tag]
Signed(commit, tables, nonce) == Payload(commit, tables, Tag("K", commit, tables, nonce))

\* What the gate of the fabric finds in a payload.
FaultOf(p) ==
    IF board.key = None THEN "F_KEY"
    ELSE IF p.tag # Tag(board.key, p.commit, p.tables, board.nonce) THEN "F_ARM_AUTH"
    ELSE IF p.tables # board.fabric THEN "F_ARM_TABLE" ELSE None
\* Its answer to a strobe: the fault it shows, None when valid, and whether the
\* nonce stepped.
Answers == [fault : {None, "F_KEY", "F_ARM_AUTH", "F_ARM_TABLE"}, stepped : BOOLEAN]
Strobed(p, a) == [board EXCEPT !.nonce = IF a.stepped THEN @ + 1 ELSE @, !.fault = a.fault,
                               !.armed = IF a.fault = None THEN p ELSE Nothing]

\* What it answers and what the runner reads of it: as it should, or, once in a
\* session, another answer or another reading.
Shown(p) ==
    LET owed == [fault |-> FaultOf(p), stepped |-> TRUE]
        As(real, seen, d) == [real |-> real, seen |-> seen, defect |-> d]
    IN  {As(owed, owed, run.defect)} \cup
        (IF run.defect = None
         THEN UNION {{As(a, a, "gate"), As(owed, a, "misread")} : a \in Answers \ {owed}} ELSE {})

\* What is read of a candidate it validated; one of the readings may be wrong.
Records(p, d) ==
    LET s == ScoreRecord(p.commit, board.fabric, board.key # None)
        lost == [e \in Envs |-> "lost"]
        wrong == {[s EXCEPT !.commit = lost], [s EXCEPT !.tables = lost], [s EXCEPT !.keyed = ~@]}
    IN  {[score |-> s, defect |-> d]} \cup
        (IF d = None THEN {[score |-> w, defect |-> "misread"] : w \in wrong} ELSE {})

\* What the fault of a control makes of the verdict before it.
OfControl(fault, v) ==
    IF fault = None THEN "KILL" ELSE IF fault = ExpectedFault(prog.negative) THEN v ELSE "HOLD"

\* arm_and_score, and run_l3's judgement of it.
ArmAndScore ==
    /\ Answered("arm") /\ OnAxi /\ board.fault = None
    /\ LET p == Signed(prog.want, prog.want, board.nonce)
           Armed(d, score, control) ==
               run' = [run EXCEPT !.arm = p, !.score = score, !.control = control, !.defect = d]
       IN  \E g \in Shown(p) :
             /\ board' = Strobed(p, g.real)
             /\ IF ~g.seen.stepped \/ (g.seen.fault # None /\ prog.negative \notin PreControls)
                THEN Armed(g.defect, Nothing, None) /\ Ended("STOP") /\ UNCHANGED verdict
                ELSE IF prog.negative \in PreControls
                THEN /\ Armed(g.defect, Nothing, g.seen.fault) /\ UNCHANGED verdict
                     /\ Concluded(OfControl(g.seen.fault, "PASS"), run')
                ELSE \E s \in Records(p, g.defect), v \in {"PASS", "HOLD"} :
                       /\ Armed(s.defect, s.score, None)
                       /\ IF prog.negative \in PostControls THEN Going /\ verdict' = v
                          ELSE Concluded(v, run') /\ UNCHANGED verdict
    /\ Still

\* The payload of a control, under the nonce the gate shows now.
ControlPayload(kind) ==
    CASE kind = "unsigned" -> Payload(prog.want, prog.want, Nothing)
      [] kind = "replay" -> run.arm
      [] kind = "other_candidate" -> [Signed(BlankCandidate, BlankCandidate, board.nonce) EXCEPT !.commit = prog.want]
      [] kind = "wrong_table" -> Signed(BlankCandidate, BlankCandidate, board.nonce)

\* A control refused as it should be by a gate that did not consume it is no
\* record: the runner crashes on it.
NegativeControl ==
    /\ Answered("control") /\ OnAxi
    /\ LET p == ControlPayload(prog.negative) IN
       \E g \in Shown(p) :
         LET fault == g.seen.fault
             crash == fault = ExpectedFault(prog.negative) /\ ~g.seen.stepped
         IN  /\ board' = Strobed(p, g.real)
             /\ run' = [run EXCEPT !.control = IF crash THEN None ELSE fault, !.defect = g.defect]
             /\ Concluded(IF crash THEN "CRASHED" ELSE OfControl(fault, verdict), run')
    /\ Still /\ UNCHANGED verdict

\* The PL does not settle, or shows a fault before the ARM.
AxiStop ==
    /\ Answered("arm") \/ Answered("control")
    /\ OnAxi /\ Ended("STOP")
    /\ UNCHANGED board /\ Still /\ SameBooks

-----------------------------------------------------------------------------
(* L2: the observable words and the heartbeat. *)

\* take: marker, words, heartbeat; the control compares the two before any
\* transfer, with every heartbeat interval of its wait.
Take ==
    /\ Answered("sample") /\ Marked /\ OnAxi
    /\ \E steady \in BOOLEAN :
         /\ run' = [run EXCEPT !.samples = Append(@, steady \/ run.samples = <<>>)]
         /\ IF Len(run.samples) = 1 /\ ~steady THEN Ended("HOLD") ELSE Going
    /\ UNCHANGED board /\ Still /\ UNCHANGED verdict

Continuity ==
    /\ Running("continuity")
    /\ Ended(IF \A i \in DOMAIN run.samples : run.samples[i] THEN "PASS" ELSE "STOP")
    /\ UNCHANGED board /\ Still /\ SameBooks

-----------------------------------------------------------------------------
(* The terminal read. *)

\* --jtag: sealed, and no record of a read.
AskJtag(a) ==
    /\ asker[a] = "idle" /\ sealed
    /\ asker' = [asker EXCEPT ![a] = IF filed \in {None, "NO_RECORD"} THEN "asking" ELSE "refused"]
    /\ filed' = IF filed = "NO_RECORD" THEN None ELSE filed
    /\ UNCHANGED <<board, prog, pc, run, verdict, outcome, ruling, sealed, blame>>

\* l3_diag_jtag: sudo or the helper may fail first; the probe files READ or
\* STOP, or dies without a record after it has been at the pod.
ReadDie(a) ==
    /\ asker[a] = "asking"
    /\ \/ asker' = [asker EXCEPT ![a] = "NO_RECORD"]
       \/ \E v \in {"READ", "STOP"} : asker' = [asker EXCEPT ![a] = v]
    /\ UNCHANGED <<board, prog, pc, run, verdict, outcome, ruling, sealed, filed, blame>>

LastRead(e) == LET S == {i \in DOMAIN run.reads : run.reads[i].env = e}
               IN  IF S = {} THEN [got |-> None, pass |-> FALSE]
                   ELSE run.reads[CHOOSE i \in S : \A j \in S : j <= i]

\* Mutant: the blank frame is looked for before the expected one.
BlankFirst(e, die) ==
    LET p == LastRead(e) IN
    IF p.pass /\ die = prog.want[e] THEN "CONSISTENT"
    ELSE IF ~p.pass /\ die = "blank" THEN "FABRIC_BLANK"
    ELSE IF ~p.pass /\ die = prog.want[e]
    THEN IF p.got = "blank" THEN "PCAP_READBACK_ZERO" ELSE "PCAP_READBACK_WRONG"
    ELSE IF prog.want[e] = "blank" /\ die # "blank" THEN "FABRIC_MISPLACED"
    ELSE "DIVERGENT"

\* Per frame: the last PCAP verdict against the die.
KindOf(e, die) ==
    LET p == LastRead(e) IN
    IF p.pass /\ die = prog.want[e] THEN "CONSISTENT"
    ELSE IF ~p.pass /\ die = prog.want[e]
    THEN IF p.got = "blank" THEN "PCAP_READBACK_ZERO" ELSE "PCAP_READBACK_WRONG"
    ELSE IF ~p.pass /\ die = "blank" THEN "FABRIC_BLANK"
    ELSE IF prog.want[e] = "blank" /\ die # "blank" THEN "FABRIC_MISPLACED"
    ELSE "DIVERGENT"

Adjudicate(answer) ==
    LET kinds == {KindOf(e, IF board.fabric = Nothing THEN "blank" ELSE board.fabric[e]) : e \in Envs}
                 \ {"CONSISTENT"}
    IN  IF answer # "READ" THEN "HOLD"
        ELSE IF kinds = {} THEN "NO_REPRODUCTION"
        ELSE IF kinds \in {{"PCAP_READBACK_ZERO"}, {"FABRIC_BLANK"}} THEN CHOOSE k \in kinds : TRUE
        ELSE IF "FABRIC_MISPLACED" \in kinds /\ "PCAP_READBACK_ZERO" \notin kinds
        THEN "FABRIC_MISPLACED" ELSE "DIVERGENT"

\* request_jtag's end and adjudicate, or a process killed before its record.
FileJtag(a) ==
    /\ asker[a] \in {"READ", "STOP", "NO_RECORD"}
    /\ asker' = [asker EXCEPT ![a] = "done"]
    /\ \/ filed' = asker[a] /\ blame' = Adjudicate(asker[a])
       \/ UNCHANGED <<filed, blame>>
    /\ UNCHANGED <<board, prog, pc, run, verdict, outcome, ruling, sealed>>

-----------------------------------------------------------------------------
Over == /\ outcome # None /\ (session = MaxSessions \/ prog.kind \in {"L2", "diag"})
        /\ \A a \in Askers : asker[a] \in {"done", "refused"} \/ ~sealed
        /\ UNCHANGED vars

Next == \/ Reset \/ Refused \/ Killed \/ NextSession
        \/ Load \/ ClaimProvisionRuling \/ Provision \/ Keyed
        \/ StageAndReread \/ ExecuteWrite \/ Corrupt
        \/ ReadbackFrame \/ LinkThree \/ Phase \/ EndPcapPhase
        \/ ArmAndScore \/ NegativeControl \/ AxiStop \/ Take \/ Continuity
        \/ \E a \in Askers : AskJtag(a) \/ ReadDie(a) \/ FileJtag(a)
        \/ Over

Spec == Init /\ [][Next]_vars

-----------------------------------------------------------------------------
\* host/l3_runner.py:146 ensure_dcache_off: link 2 speaks of the memory the DMA
\* takes: whatever a transfer took, it is the stream that was approved for it,
\* also when the board restarts unseen between the two.
LinkTwoHolds ==
    \A i \in DOMAIN run.taken : i <= Len(run.approved) /\ run.taken[i] = run.approved[i]

\* host/l3_runner.py:262 arm_and_score: no ARM unless every envelope was
\* approved and taken, every frame read back as the candidate and the fabric,
\* loaded in this boot, holds a key; the diagnostic and L2 never arm.
ArmNeedsLinks ==
    run.arm # Nothing =>
        /\ prog.kind \in {"L3", "L4"}
        /\ board.fabric # Nothing => Marked
        /\ run.taken = [e \in Envs |-> Stream(e)]
        /\ \A e \in Envs : \E i \in DOMAIN run.reads : run.reads[i].env = e
        /\ AllPass
        /\ prog.negative # "unprovisioned" => marker

\* The interlock's two links of the host: what was approved is what was
\* transferred, and nothing is armed without it.
LinksHold == LinkTwoHolds /\ ArmNeedsLinks

\* run_l3, run_l4, run_l2: PASS is the fabric's own word for this candidate in
\* the boot that loaded it, or for a control the one fault its kind demands;
\* the last thing a control leaves is a gate that holds nothing armed; and HOLD
\* says less of the scores only.  So it is also when the gate answers wrongly
\* once, or one of its answers is misread.
PassIsVerified ==
    outcome \in {"PASS", "HOLD"} =>
        IF prog.kind = "L2" THEN outcome = "PASS" => \A i \in DOMAIN run.samples : run.samples[i]
        ELSE IF prog.negative \in PreControls
        THEN board.armed = Nothing /\ board.fault = ExpectedFault(prog.negative)
        ELSE /\ board.fabric = prog.want /\ board.key = "K" /\ Marked
             /\ IF prog.negative = None THEN board.armed = run.arm
                ELSE board.armed = Nothing /\ board.fault = ExpectedFault(prog.negative)

\* host/l4_runner.py:94, host/l3_runner.py:380 and the log rejected at :542:
\* KILL is said only of an interlock that failed, however the session ended: of
\* a corruption that lies in the buffer and link 2 did not see, of a transfer
\* it did not stop, of a gate that answered otherwise than it owed; but for a
\* corruption that was lost on the way and a reading that was wrong.
KillIsReal ==
    outcome = "KILL" /\ run.defect \notin {"lost", "misread"} =>
        \/ prog.kind = "L4" /\ board.ddr # Stream(1) /\ (run.reread = Stream(1) \/ board.done)
        \/ run.arm # Nothing /\ run.defect = "gate"

\* What a run concludes is so.
OutcomeIsTrue == PassIsVerified /\ KillIsReal

\* host/sign_arm.py:37: a provisioning ruling writes a key once, over sessions
\* that end, are killed or are refused, whatever the runner recorded of it.
RulingSpentOnce == executed <= 1 /\ (consumed /\ executed = 1 => marker)

\* host/l3_diag_runner.py:118 adjudicate: what the verdict says of the fabric
\* and of the readback is so, if the board has not restarted since the load.
BlameIsTrue ==
    blame \notin {None, "HOLD", "DIVERGENT"} /\ Marked /\ board.fabric # Nothing =>
        CASE blame = "NO_REPRODUCTION" -> board.fabric = prog.want /\ \A e \in Envs : LastRead(e).pass
          [] blame = "PCAP_READBACK_ZERO" -> board.fabric = prog.want /\ \E e \in Envs : LastRead(e).got = "blank"
                                                                                        /\ prog.want[e] # "blank"
          [] blame = "FABRIC_BLANK" -> \E e \in Envs : board.fabric[e] = "blank" /\ prog.want[e] # "blank"
          [] blame = "FABRIC_MISPLACED" -> \E e \in Envs : board.fabric[e] # "blank" /\ prog.want[e] = "blank"

=============================================================================
