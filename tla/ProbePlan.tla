------------------------------ MODULE ProbePlan ------------------------------
(* The plans that the probe runners send to U-Boot, and the guards that judge *)
(* them (scripts/pcap_probe_plan.py, scripts/pcap_write_plan.py).  A plan is  *)
(* a sequence of commands.  The guards look at the commands alone; what the   *)
(* commands do to the DMA engine is the fold Run, which no guard consults.    *)
(* A word is a pair <<name, number>>: the number is the sentinel's value, the *)
(* frame address, a length, or, of a configuration command, how many words    *)
(* more than its one its header claims.                                       *)
EXTENDS Naturals, Sequences, SequencesExt

CONSTANTS
    ReadWords,      \* words of the destination buffer (202)
    WordLimit       \* values of a word that a sentinel may be drawn from (2^32)

ASSUME PlanAssumption == ReadWords \in Nat \ {0} /\ WordLimit \in Nat \ {0, 1}

\* FoldLeft as a recursive function, which TLC evaluates in one pass.
Walk(Step(_, _), base, script) ==
    LET upto[i \in 0..Len(script)] == IF i = 0 THEN base ELSE Step(upto[i - 1], script[i])
    IN  upto[Len(script)]

Noop == <<"NOOP", 0>>
ClearMask == <<"clear", 0>>
Sentinel(v) == <<"fill", v>>
FarWord(far) == <<"FAR", far>>
Length(n) == <<"len", n>>
CmdBuf == <<"CMD", 0>>
DstBuf == <<"DST", 0>>
Pcap == <<"PCAP", 0>>

\* The two streams, with fewer NOOPs than the 43 and 5 words of UG470.
ReadbackStream(far) == << <<"SYNC", 0>>, <<"RCFG", 0>>, FarWord(far), <<"FDRO", ReadWords>>, Noop >>
CleanupStream == << Noop, <<"DESYNC", 0>> >>
StreamWords == 5
CleanupWords == 2

DmaOrder == <<"DMA_SRC_ADDR", "DMA_DEST_ADDR", "DMA_SRC_LEN", "DMA_DEST_LEN">>
DmaRegs == ToSet(DmaOrder)
ReadOnlyRegs == {"CTRL", "STATUS", "MCTRL"}
WriteWords == 12
RegionSize(r) == CASE r = "CMD" -> StreamWords
                   [] r = "DST" -> ReadWords
                   [] r = "WR" -> WriteWords
                   [] OTHER -> 1
ReadRegions == DmaRegs \cup ReadOnlyRegs \cup {"INT_STS", "CMD", "DST"}
WriteRegions == DmaRegs \cup {"INT_STS", "CTRL", "MCTRL", "WR"}

Read(r, n) == [form |-> "md.l", reg |-> r, at |-> 0, value |-> Noop, count |-> n]
Write(r, at, v, n) == [form |-> "mw.l", reg |-> r, at |-> at, value |-> v, count |-> n]
CacheOff == [form |-> "dcache-off", reg |-> "none", at |-> 0, value |-> Noop, count |-> 0]

-----------------------------------------------------------------------------
(* What the planner builds. *)

Transaction == [command   |-> <<CmdBuf, Pcap, Length(StreamWords), Length(0)>>,
                readback  |-> <<Pcap, DstBuf, Length(0), Length(ReadWords)>>,
                cleanup   |-> <<CmdBuf, Pcap, Length(CleanupWords), Length(0)>>,
                bidirectional |-> <<CmdBuf, DstBuf, Length(StreamWords), Length(ReadWords)>>]

ExpectedTransactions(order) == IF order = "two-unidirectional"
                               THEN <<"command", "readback", "cleanup">>
                               ELSE <<"bidirectional", "cleanup">>

\* Mutant: cleared once, before the first transfer, as an earlier version did.
DmaStepsClearOnce(name) ==
    (IF name = "readback" THEN <<>> ELSE <<Write("INT_STS", 0, ClearMask, 1), Read("INT_STS", 1)>>)
    \o [i \in 1..4 |-> Write(DmaOrder[i], 0, Transaction[name][i], 1)]
    \o <<Read("INT_STS", 1)>>

\* Clear, verify the clear, four registers, wait: for every transfer.
DmaSteps(name) ==
    <<Write("INT_STS", 0, ClearMask, 1), Read("INT_STS", 1)>>
    \o [i \in 1..4 |-> Write(DmaOrder[i], 0, Transaction[name][i], 1)]
    \o <<Read("INT_STS", 1)>>

Words(stream) == [i \in 1..Len(stream) |-> Write("CMD", i - 1, stream[i], 1)]

BuildPlan(far, order, sentinel) ==
    <<CacheOff, Read("CTRL", 1), Read("MCTRL", 1), Read("INT_STS", 1),
      Write("DST", 0, Sentinel(sentinel), ReadWords), Read("DST", ReadWords)>>
    \o Words(ReadbackStream(far))
    \o (IF order = "two-unidirectional" THEN DmaSteps("command") \o DmaSteps("readback")
                                        ELSE DmaSteps("bidirectional"))
    \o <<Read("DST", ReadWords)>>
    \o Words(CleanupStream) \o DmaSteps("cleanup") \o <<Read("INT_STS", 1)>>

-----------------------------------------------------------------------------
(* The guards. *)

CheckSentinel(v) == v \in 1..(WordLimit - 1)

\* The grammar is closed, and the whole span lies inside one allowed region.
CheckAllowlist(script, regions) ==
    \A i \in DOMAIN script :
        LET c == script[i] IN
        \/ c.form = "dcache-off"
        \/ /\ c.form \in {"md.l", "mw.l"}
           /\ c.reg \in regions /\ c.count >= 1
           /\ c.at + c.count <= RegionSize(c.reg)

CheckRegisterWrites(script) ==
    \A i \in DOMAIN script : script[i].form = "mw.l" =>
        /\ script[i].reg \notin ReadOnlyRegs
        /\ script[i].reg = "INT_STS" => script[i].value = ClearMask

\* The DMA commands, each rebuilt from four writes in the normative order.
DmaStep(acc, c) ==
    IF c.form # "mw.l" \/ c.reg \notin DmaRegs THEN acc
    ELSE IF c.reg # DmaOrder[Len(acc.pending) + 1] THEN [acc EXCEPT !.ordered = FALSE]
    ELSE IF Len(acc.pending) < 3 THEN [acc EXCEPT !.pending = Append(@, c.value)]
    ELSE [acc EXCEPT !.pending = <<>>, !.txs = Append(@, Append(acc.pending, c.value))]

DmaTransactions(script) == Walk(DmaStep, [pending |-> <<>>, txs |-> <<>>, ordered |-> TRUE], script)

\* The streams written to the command buffer: a word written twice opens the next one.
PutWord(acc, w) ==
    IF w[1] \in DOMAIN acc.current
    THEN [phases |-> Append(acc.phases, acc.current), current |-> [k \in {w[1]} |-> w[2]]]
    ELSE [acc EXCEPT !.current = [k \in DOMAIN @ \cup {w[1]} |-> IF k = w[1] THEN w[2] ELSE @[k]]]

PhaseStep(acc, c) ==
    IF c.form # "mw.l" \/ c.reg # "CMD" THEN acc
    ELSE Walk(PutWord, acc, [k \in 1..c.count |-> <<c.at + k - 1, c.value>>])

CommandBufferPhases(script) ==
    LET end == Walk(PhaseStep, [phases |-> <<>>, current |-> <<>>], script)
    IN  IF end.current = <<>> THEN end.phases ELSE Append(end.phases, end.current)

IsStream(phase, stream) == /\ DOMAIN phase = 0..(Len(stream) - 1)
                           /\ \A i \in DOMAIN stream : phase[i - 1] = stream[i]

\* One token per command, consecutive writes of the command buffer as one: the
\* count is added to the second element of whatever tuple precedes.
TokenStep(acc, c) ==
    IF c.form = "mw.l" /\ c.reg = "CMD"
    THEN IF acc # <<>> /\ Last(acc)[1] \in {"CMD_STREAM", "FILL_DST"}
         THEN Append(Front(acc), <<"CMD_STREAM", Last(acc)[2] + c.count>>)
         ELSE Append(acc, <<"CMD_STREAM", c.count>>)
    ELSE Append(acc, CASE c.form = "dcache-off" -> <<"CACHE">>
                       [] c.form = "mw.l" /\ c.reg = "DST" /\ c.count = ReadWords ->
                            <<"FILL_DST", c.value[2], c.count>>
                       [] OTHER -> <<c.form, c.reg, c.count>>)

Tokens(script) == Walk(TokenStep, <<>>, script)

ExpectedSchedule(order, sentinel) ==
    LET R(r, n) == <<"md.l", r, n>>
        W(r) == <<"mw.l", r, 1>>
        block == <<W("INT_STS"), R("INT_STS", 1)>> \o [i \in 1..4 |-> W(DmaOrder[i])] \o <<R("INT_STS", 1)>>
        stream(n) == << <<"CMD_STREAM", n>> >>
    IN  << <<"CACHE">>, R("CTRL", 1), R("MCTRL", 1), R("INT_STS", 1),
           <<"FILL_DST", sentinel, ReadWords>>, R("DST", ReadWords) >>
        \o stream(StreamWords)
        \o (IF order = "two-unidirectional" THEN block \o block ELSE block)
        \o <<R("DST", ReadWords)>> \o stream(CleanupWords) \o block \o <<R("INT_STS", 1)>>

\* Mutant: the transactions are judged, their place in the plan is not.
TransactionsOnly(plan) ==
    DmaTransactions(plan.script).txs
         = [i \in DOMAIN ExpectedTransactions(plan.order)
              |-> Transaction[ExpectedTransactions(plan.order)[i]]]

CheckSchedule(plan) ==
    /\ Tokens(plan.script) = ExpectedSchedule(plan.order, plan.sentinel)
    /\ DmaTransactions(plan.script).txs
         = [i \in DOMAIN ExpectedTransactions(plan.order)
              |-> Transaction[ExpectedTransactions(plan.order)[i]]]

CheckValuePolicy(plan) ==
    /\ CheckRegisterWrites(plan.script)
    /\ LET dma == DmaTransactions(plan.script)
       IN  /\ dma.ordered /\ dma.pending = <<>>
           /\ \A i \in DOMAIN dma.txs : \E n \in DOMAIN Transaction : dma.txs[i] = Transaction[n]
    /\ LET phases == CommandBufferPhases(plan.script)
       IN  /\ Len(phases) = 2
           /\ IsStream(phases[1], ReadbackStream(plan.far))
           /\ IsStream(phases[2], CleanupStream)
    /\ CheckSchedule(plan)

Adjudicated(plan) == /\ CheckSentinel(plan.sentinel)
                     /\ CheckAllowlist(plan.script, ReadRegions)
                     /\ CheckValuePolicy(plan)

-----------------------------------------------------------------------------
(* The write plan: one frame and its pad, judged by a literal walk of the     *)
(* stream, in which the planner's NOOPs are left out but the last one.  A     *)
(* frame is its INIT field, its ECC word and the rest.                        *)

Patterns == {1, 2}
TargetFar == 7
FrameOf(p) == << <<"init", p>>, <<"ecc", p>>, <<"rest", 0>> >>
PadFrame == <<"pad", 0>>

WriteStream(p) ==
    << <<"SYNC", 0>>, <<"RCRC", 0>>, <<"IDCODE", 0>>, <<"WCFG", 0>>, FarWord(TargetFar), <<"FDRI", 4>> >>
    \o FrameOf(p) \o << PadFrame, <<"DESYNC", 0>>, Noop >>

\* Content bits only: an INIT field that is a pattern, its ECC, the base elsewhere.
CheckFrames(data) == \E p \in Patterns : data = Append(FrameOf(p), PadFrame)

\* The walk looks at a command, not at the count of words in its header.
StreamStep(acc, w) ==
    IF acc.skip > 0 THEN [acc EXCEPT !.skip = @ - 1, !.data = Append(@, w)]
    ELSE CASE w = Noop -> acc
           [] w[1] \in {"RCRC", "WCFG", "DESYNC"} -> [acc EXCEPT !.cmds = Append(@, w[1])]
           [] w = <<"IDCODE", 0>> -> acc
           [] w = FarWord(TargetFar) -> [acc EXCEPT !.far = TRUE]
           [] w = <<"FDRI", 4>> /\ acc.far -> [acc EXCEPT !.skip = 4, !.bursts = @ + 1]
           [] OTHER -> [acc EXCEPT !.legal = FALSE]

ValidateWriteStream(words) ==
    LET end == Walk(StreamStep, [skip |-> 0, data |-> <<>>, cmds |-> <<>>, far |-> FALSE,
                                 bursts |-> 0, legal |-> TRUE], Tail(words))
    IN  /\ Len(words) = WriteWords /\ words[1] = <<"SYNC", 0>>
        /\ end.legal
        /\ end.bursts = 1 /\ CheckFrames(end.data)
        /\ end.cmds = <<"RCRC", "WCFG", "DESYNC">>
        /\ SubSeq(words, WriteWords - 1, WriteWords) = << <<"DESYNC", 0>>, Noop >>

\* The frame, where the planner's stream has it.
FrameIn(words) == SubSeq(words, 7, 9)

WriteTransaction == << <<"WR", 0>>, Pcap, Length(WriteWords), Length(0)>>

BuildWritePlan(p) ==
    <<Read("CTRL", 1)>>
    \o [i \in 1..WriteWords |-> Write("WR", i - 1, WriteStream(p)[i], 1)]
    \o <<Write("INT_STS", 0, ClearMask, 1), Read("INT_STS", 1)>>
    \o [i \in 1..4 |-> Write(DmaOrder[i], 0, WriteTransaction[i], 1)]
    \o <<Read("INT_STS", 1), Read("CTRL", 1)>>

WriteTokenStep(acc, c) ==
    IF c.form = "mw.l" /\ c.reg = "WR"
    THEN IF acc # <<>> /\ Last(acc)[1] = "STREAM"
         THEN Append(Front(acc), <<"STREAM", Last(acc)[2] + c.count>>)
         ELSE Append(acc, <<"STREAM", c.count>>)
    ELSE Append(acc, <<c.form, c.reg>>)

WriteTokens(script) == Walk(WriteTokenStep, <<>>, script)

\* No word of the buffer is written twice and none is left out.
WrittenOnce(script) ==
    LET at(i) == IF script[i].form = "mw.l" /\ script[i].reg = "WR"
                 THEN script[i].at..(script[i].at + script[i].count - 1) ELSE {}
    IN  /\ \A i, j \in DOMAIN script : i # j => at(i) \cap at(j) = {}
        /\ UNION {at(i) : i \in DOMAIN script} = 0..(WriteWords - 1)

StreamOf(script) ==
    [k \in 1..WriteWords |->
        LET i == CHOOSE i \in DOMAIN script :
                    /\ script[i].form = "mw.l" /\ script[i].reg = "WR"
                    /\ k - 1 \in script[i].at..(script[i].at + script[i].count - 1)
        IN script[i].value]

\* The register writes alone.
RegisterStep(acc, c) == IF c.form = "mw.l" /\ c.reg \in DmaRegs THEN Append(acc, c) ELSE acc

\* The commands of a write plan.
CheckCommands(script) ==
    /\ CheckAllowlist(script, WriteRegions)
    /\ \A i \in DOMAIN script : script[i].form = "mw.l" =>
            /\ script[i].reg \in {"WR", "INT_STS"} \cup DmaRegs
            /\ script[i].reg = "INT_STS" => script[i].value = ClearMask
    /\ WrittenOnce(script)
    /\ ValidateWriteStream(StreamOf(script))
    /\ Walk(RegisterStep, <<>>, script)
         = [i \in 1..4 |-> Write(DmaOrder[i], 0, WriteTransaction[i], 1)]
    /\ WriteTokens(script) =
         << <<"md.l", "CTRL">>, <<"STREAM", WriteWords>>, <<"mw.l", "INT_STS">>, <<"md.l", "INT_STS">> >>
         \o [i \in 1..4 |-> <<"mw.l", DmaOrder[i]>>]
         \o << <<"md.l", "INT_STS">>, <<"md.l", "CTRL">> >>

\* And, last, that the plan says of itself what its commands are.
CheckWritePlan(plan) ==
    /\ CheckCommands(plan.script)
    /\ LET words == StreamOf(plan.script)
       IN  words = plan.stream /\ plan.frame_after = FrameIn(words)

-----------------------------------------------------------------------------
(* The engine: what a script does, whether or not a guard has seen it.  A     *)
(* transfer runs from the write of DMA_DEST_LEN to the read that waits for    *)
(* it; "faults" collects what must never happen.                              *)

Idle == << >>
StreamBuffers == {"CMD", "WR"}
EngineInit == [buf |-> [r \in StreamBuffers |-> [i \in 0..(RegionSize(r) - 1) |-> Noop]], dst |-> <<"stale", 0>>, regs |-> <<>>,
               running |-> Idle, done |-> TRUE, cleared |-> FALSE, seen |-> {},
               history |-> <<>>, readout |-> <<>>, faults |-> {}]

Fault(e, name) == [e EXCEPT !.faults = @ \cup {name}]

\* The stream a transfer takes from its buffer, <<>> for none.
Fetched(e, tx) ==
    LET r == tx[1][1]
    IN  IF r \notin StreamBuffers THEN <<>>
        ELSE [i \in 1..tx[3][2] |-> IF i <= RegionSize(r) THEN e.buf[r][i - 1] ELSE Noop]

Fire(e) ==
    LET tx == e.regs
        ok == [e EXCEPT !.running = tx, !.regs = <<>>, !.cleared = FALSE,
                        !.history = Append(@, <<tx, Fetched(e, tx)>>)]
    IN  IF e.running # Idle THEN Fault(ok, "overlap")
        ELSE IF ~e.cleared THEN Fault(ok, "stale completion")
        ELSE IF tx[2] = DstBuf /\ "prefill" \notin e.seen THEN Fault(ok, "no prefill")
        ELSE ok

Completed(e) == [e EXCEPT !.running = Idle, !.done = TRUE,
                          !.dst = IF e.running[2] = DstBuf THEN <<"frame", 0>> ELSE @]

Exec(e, c) ==
    LET At(k) == c.at + k - 1
        written == {At(k) : k \in 1..c.count}
    IN
    CASE c.form = "dcache-off" -> [e EXCEPT !.seen = @ \cup {"CACHE"}]
      [] c.form = "mw.l" /\ c.reg \in StreamBuffers ->
            IF e.running # Idle THEN Fault(e, "buffer in use")
            ELSE [e EXCEPT !.buf[c.reg] = [i \in DOMAIN @ |-> IF i \in written THEN c.value ELSE @[i]]]
      [] c.form = "mw.l" /\ c.reg = "DST" ->
            IF c.count > ReadWords \/ e.running # Idle THEN Fault(e, "overrun")
            ELSE [e EXCEPT !.seen = @ \ {"prefill"},
                           !.dst = IF c.count = ReadWords THEN <<"fill", c.value[2] % WordLimit>>
                                                          ELSE <<"mixed", 0>>]
      [] c.form = "md.l" /\ c.reg = "DST" ->
            IF e.dst[1] = "fill" /\ e.dst[2] # 0 THEN [e EXCEPT !.seen = @ \cup {"prefill"}]
            ELSE [e EXCEPT !.readout = Append(@, e.dst)]
      [] c.form = "mw.l" /\ c.reg = "INT_STS" ->
            IF e.running # Idle THEN Fault(e, "completion erased") ELSE [e EXCEPT !.done = FALSE]
      [] c.form = "md.l" /\ c.reg = "INT_STS" ->
            IF e.running # Idle THEN Completed(e)
            ELSE [e EXCEPT !.cleared = ~e.done, !.seen = @ \cup {"PCFG_DONE"}]
      [] c.form = "mw.l" /\ c.reg \in DmaRegs ->
            LET next == [e EXCEPT !.regs = Append(@, c.value)]
            IN  IF c.reg = "DMA_DEST_LEN" /\ Len(next.regs) = 4 THEN Fire(next)
                ELSE IF c.reg = "DMA_DEST_LEN" THEN Fault(next, "partial command") ELSE next
      [] c.form = "md.l" /\ c.reg \notin {"DST", "INT_STS"} -> [e EXCEPT !.seen = @ \cup {c.reg}]
      [] OTHER -> Fault(e, "foreign write")

Run(script) == Walk(Exec, EngineInit, script)

\* What the probe needs of a plan whose order is the pinned one: three
\* transfers, each cleared for, each with its own stream; the gates read
\* and the prefill seen before the frame is fetched; one readout, of the
\* frame; the engine left desynchronised and idle.
Sound(plan) ==
    LET end == Run(plan.script)
        fetched(n) == IF n = "readback" THEN <<>>
                      ELSE IF n = "cleanup" THEN CleanupStream ELSE ReadbackStream(plan.far)
    IN  /\ end.faults = {}
        /\ end.history = [i \in DOMAIN ExpectedTransactions(plan.order) |->
                            LET n == ExpectedTransactions(plan.order)[i] IN <<Transaction[n], fetched(n)>>]
        /\ end.running = Idle
        /\ {"CACHE", "CTRL", "MCTRL", "PCFG_DONE", "prefill"} \subseteq end.seen
        /\ end.readout = << <<"frame", 0>> >>

\* What the configuration logic makes of a stream: a command's header may make
\* it lose the words that follow; a burst is written where the FAR stands, by
\* a device that was synchronised, identified and told to write, or was not.
CommandWords == {"RCRC", "WCFG", "DESYNC", "GRESTORE"}
Readiness == {<<"SYNC", 0>>, <<"IDCODE", 0>>, <<"WCFG", 0>>}
ConfigInit == [lost |-> 0, left |-> 0, heard |-> {}, cmds |-> <<>>, far |-> 0, bursts |-> {}, data |-> <<>>]

ConfigStep(d, w) ==
    IF d.lost > 0 THEN [d EXCEPT !.lost = @ - 1]
    ELSE IF d.left > 0 THEN [d EXCEPT !.left = @ - 1, !.data = Append(@, w)]
    ELSE LET e == [d EXCEPT !.heard = @ \cup {w}]
         IN  CASE w[1] \in CommandWords -> [e EXCEPT !.cmds = Append(@, w[1]), !.lost = w[2]]
               [] w[1] = "FAR" -> [e EXCEPT !.far = w[2]]
               [] w[1] = "FDRI" -> [e EXCEPT !.left = w[2],
                                             !.bursts = @ \cup {<<d.far, Readiness \subseteq d.heard>>}]
               [] OTHER -> e

\* One legal frame and its pad, written in their place by a device that was
\* ready for them, and the three commands of the sequence, nothing else.
WritesOneFrame(words) ==
    LET end == Walk(ConfigStep, ConfigInit, words)
    IN  /\ end.bursts = {<<TargetFar, TRUE>>}
        /\ CheckFrames(end.data)
        /\ end.cmds = <<"RCRC", "WCFG", "DESYNC">>

\* What is needed of a write plan: one transfer, of the stream it names.
SoundWrite(plan) ==
    LET end == Run(plan.script)
    IN  /\ end.faults = {} /\ end.running = Idle
        /\ end.history = << <<WriteTransaction, plan.stream>> >>
        /\ WritesOneFrame(plan.stream)
=============================================================================
