--------------------------- MODULE BoardRun_proofs ---------------------------
(***************************************************************************)
(* Proofs about the runners over U-Boot's console, for every set of        *)
(* programs whose scripts are ordered as BoardRunAssumption says, any      *)
(* number of envelopes, sessions and restarts: a provisioning ruling       *)
(* writes one key, link 2 speaks of the memory the DMA takes, nothing is   *)
(* armed without its chain of links, and what a run concludes, and what    *)
(* the terminal read blames, is so.                                        *)
(***************************************************************************)
EXTENDS BoardRun, WellFoundedInduction, TLAPS

\* What the staging buffer may hold.
Held == {Nothing, Garbled} \cup {<<e, p.want[e]>> : e \in Nat, p \in Programs}

BoardFields == {"boot", "banner", "dcache", "cache", "ddr", "done", "fabric", "key", "nonce", "fault", "armed"}
RunFields == {"home", "approved", "taken", "reads", "samples", "arm", "reread", "score", "control", "defect"}

TypeOK ==
    /\ prog \in Programs /\ pc \in Nat \ {0}
    /\ executed \in Nat
    /\ DOMAIN board = BoardFields /\ board.ddr \in Held
    /\ DOMAIN run = RunFields /\ run.approved \in Seq(Held) /\ run.taken \in Seq(Held)

\* The program is at a step of its script.
Live == outcome = None /\ pc \in DOMAIN prog.script
AtStep(op) == Live /\ Op = op
Arms == prog.kind \in {"L3", "L4"}

\* No key without its claim, and none yet where one is about to be written.
KeyInv ==
    /\ executed <= 1
    /\ ~marker => executed = 0
    /\ AtStep("provision") => marker /\ executed = 0

\* A transfer takes what was approved last, unless the PL is gone.
LinkInv ==
    /\ LinkTwoHolds
    /\ Live => IF Op = "write"
               THEN /\ Len(run.approved) = Len(run.taken) + 1
                    /\ OnAxi => board.ddr = run.approved[Len(run.approved)]
               ELSE Len(run.approved) = Len(run.taken)

-----------------------------------------------------------------------------
(* Scripts. *)

\* What Ordered says of two steps in a row.
LEMMA Neighbours ==
    ASSUME NEW s \in Seq([op : STRING, env : Nat]), Ordered(s), NEW i \in 2..Len(s)
    PROVE  /\ s[i].op = "write" <=> s[i - 1].op = "stage"
           /\ s[i].op = "provision" <=> s[i - 1].op = "claim"
           /\ s[i].op # "load"
<1>1. i \in 1..Len(s) /\ i > 1 /\ i # 1
  OBVIOUS
<1> QED
  BY <1>1 DEF Ordered

\* Going from one step to the next leads to a write only from a stage, to a
\* key only from a claim, and never to a load.
LEMMA NextStep ==
    ASSUME TypeOK, Live, prog' = prog, pc' = pc + 1, Live'
    PROVE  /\ Op' = "write" <=> Op = "stage"
           /\ Op' = "provision" <=> Op = "claim"
           /\ Op' # "load"
<1>1. prog.script \in Seq([op : STRING, env : Nat]) /\ Ordered(prog.script)
  BY BoardRunAssumption DEF TypeOK
<1>2. pc + 1 \in 2..Len(prog.script) /\ (pc + 1) - 1 = pc
  BY <1>1 DEF TypeOK, Live
<1> QED
  BY <1>1, <1>2, Neighbours DEF Op

\* The first step is neither a write nor a key.
LEMMA FirstStep ==
    ASSUME NEW p \in Programs, 1 \in DOMAIN p.script
    PROVE  p.script[1].op = "load"
<1>1. p.script \in Seq([op : STRING, env : Nat]) /\ Ordered(p.script)
  BY BoardRunAssumption
<1> QED
  BY <1>1 DEF Ordered

\* The closing reads of the diagnostic are reads.
LEMMA LastStep ==
    ASSUME TypeOK, AtStep("phase"), prog' = prog, pc' = Len(prog.script) - Envelopes
    PROVE  pc' \in DOMAIN prog.script /\ Op' = "read"
<1>1. prog.script \in Seq([op : STRING, env : Nat]) /\ Ordered(prog.script)
  BY BoardRunAssumption DEF TypeOK
<1>2. pc \in 1..Len(prog.script) /\ prog.script[pc].op = "phase"
  BY <1>1 DEF AtStep, Live, Op
<1>3. /\ Len(prog.script) - Envelopes \in 1..Len(prog.script)
      /\ prog.script[Len(prog.script) - Envelopes].op = "read"
  BY <1>1, <1>2 DEF Ordered
<1> QED
  BY <1>1, <1>3 DEF Op

\* A step's envelope and what it asks for.
LEMMA StreamHeld == ASSUME TypeOK, Live PROVE Stream(Env) \in Held /\ Stream(1) \in Held
<1>1. prog.script \in Seq([op : STRING, env : Nat])
  BY BoardRunAssumption DEF TypeOK
<1>4. prog.script[pc] \in [op : STRING, env : Nat]
  <2>1. ASSUME NEW S, NEW s \in Seq(S), NEW i \in DOMAIN s PROVE s[i] \in S
    OBVIOUS
  <2> QED
    BY ONLY <1>1, <2>1, Live DEF Live
<1>2. Env \in Nat /\ prog \in Programs
  BY <1>4 DEF Env, TypeOK
<1>3. \A e \in Nat : <<e, prog.want[e]>> \in Held
  BY <1>2 DEF Held
<1> QED
  BY <1>2, <1>3 DEF Stream

-----------------------------------------------------------------------------
(* Types. *)

\* The types hold at the start.
LEMMA InitType == Init => TypeOK
<1> SUFFICES ASSUME Init PROVE TypeOK
  OBVIOUS
<1>1. DOMAIN board = BoardFields /\ DOMAIN run = RunFields
  BY DEF Init, PowerOn, Blank, BoardFields, RunFields
<1>2. board.ddr = Nothing /\ run.approved = <<>> /\ run.taken = <<>>
  BY DEF Init, PowerOn, Blank
<1>3. board.ddr \in Held /\ run.approved \in Seq(Held) /\ run.taken \in Seq(Held)
  BY <1>2 DEF Held
<1> QED
  BY <1>1, <1>3 DEF Init, TypeOK

\* What the runner carries to the gate.
Sent == Signed(prog.want, prog.want, board.nonce)

\* The gate and the reading of it are as they should, or one of them is not.
LEMMA ShownIs ==
    ASSUME NEW p, NEW g \in Shown(p)
    PROVE  \/ g.real.fault = FaultOf(p) /\ g.real.stepped = TRUE /\ g.seen = g.real /\ g.defect = run.defect
           \/ run.defect = None /\ g.defect = "gate" /\ g.seen = g.real
           \/ run.defect = None /\ g.defect = "misread" /\ g.real.fault = FaultOf(p) /\ g.real.stepped = TRUE
<1> DEFINE owed == [fault |-> FaultOf(p), stepped |-> TRUE]
           As(real, seen, d) == [real |-> real, seen |-> seen, defect |-> d]
<1>1. owed.fault = FaultOf(p) /\ owed.stepped = TRUE
  OBVIOUS
<1>2. Shown(p) = {As(owed, owed, run.defect)} \cup
        (IF run.defect = None
         THEN UNION {{As(a, a, "gate"), As(owed, a, "misread")} : a \in Answers \ {owed}} ELSE {})
  BY DEF Shown
<1> HIDE DEF owed, As
<1>3. \/ g = As(owed, owed, run.defect)
      \/ run.defect = None /\ \E a : g = As(a, a, "gate") \/ g = As(owed, a, "misread")
  BY <1>2
<1>4. \A a, b, d : As(a, b, d).real = a /\ As(a, b, d).seen = b /\ As(a, b, d).defect = d
  BY DEF As
<1> QED
  BY <1>1, <1>3, <1>4

\* A record of a score is what the fabric shows, or it was misread.
LEMMA RecordsAre ==
    ASSUME NEW p, NEW d, NEW r \in Records(p, d)
    PROVE  /\ r.score # Nothing
           /\ \/ r.score = ScoreRecord(p.commit, board.fabric, board.key # None) /\ r.defect = d
              \/ d = None /\ r.defect = "misread"
<1> DEFINE s == ScoreRecord(p.commit, board.fabric, board.key # None)
           lost == [e \in Envs |-> "lost"]
<1>1. s # Nothing
  BY DEF ScoreRecord, Nothing
<1>2. [s EXCEPT !.commit = lost] # Nothing /\ [s EXCEPT !.tables = lost] # Nothing /\ [s EXCEPT !.keyed = ~@] # Nothing
  BY DEF ScoreRecord, Nothing
<1>3. \/ r = [score |-> s, defect |-> d]
      \/ d = None /\ \E w \in {[s EXCEPT !.commit = lost], [s EXCEPT !.tables = lost], [s EXCEPT !.keyed = ~@]} :
                        r = [score |-> w, defect |-> "misread"]
  BY DEF Records
<1> HIDE DEF s, lost
<1> QED
  BY <1>1, <1>2, <1>3 DEF s, lost

\* The ends of the ARM: the gate did not validate it, it was a control, or it
\* was scored.
ArmEnds(g) ==
    \/ /\ run' = [run EXCEPT !.arm = Sent, !.score = Nothing, !.control = None, !.defect = g.defect]
       /\ Ended("STOP") /\ UNCHANGED verdict
    \/ /\ prog.negative \in PreControls /\ UNCHANGED verdict
       /\ run' = [run EXCEPT !.arm = Sent, !.score = Nothing, !.control = g.seen.fault, !.defect = g.defect]
       /\ Concluded(OfControl(g.seen.fault, "PASS"), run')
    \/ /\ prog.negative \notin PreControls /\ g.seen.stepped /\ g.seen.fault = None
       /\ \E r \in Records(Sent, g.defect), v \in {"PASS", "HOLD"} :
            /\ run' = [run EXCEPT !.arm = Sent, !.score = r.score, !.control = None, !.defect = r.defect]
            /\ IF prog.negative \in PostControls THEN Going /\ verdict' = v
               ELSE Concluded(v, run') /\ UNCHANGED verdict

\* The ARM as a whole.
LEMMA ArmCases ==
    ASSUME ArmAndScore
    PROVE  /\ AtStep("arm") /\ OnAxi /\ Still
           /\ \E g \in Shown(Sent) : board' = Strobed(Sent, g.real) /\ ArmEnds(g)
<1>1. AtStep("arm") /\ OnAxi /\ Still
  BY DEF ArmAndScore, Answered, Running, AtStep, Live
<1>2. PICK g \in Shown(Sent) :
        /\ board' = Strobed(Sent, g.real)
        /\ IF ~g.seen.stepped \/ (g.seen.fault # None /\ prog.negative \notin PreControls)
           THEN /\ run' = [run EXCEPT !.arm = Sent, !.score = Nothing, !.control = None, !.defect = g.defect]
                /\ Ended("STOP") /\ UNCHANGED verdict
           ELSE IF prog.negative \in PreControls
           THEN /\ run' = [run EXCEPT !.arm = Sent, !.score = Nothing, !.control = g.seen.fault, !.defect = g.defect]
                /\ UNCHANGED verdict /\ Concluded(OfControl(g.seen.fault, "PASS"), run')
           ELSE \E r \in Records(Sent, g.defect), v \in {"PASS", "HOLD"} :
                  /\ run' = [run EXCEPT !.arm = Sent, !.score = r.score, !.control = None, !.defect = r.defect]
                  /\ IF prog.negative \in PostControls THEN Going /\ verdict' = v
                     ELSE Concluded(v, run') /\ UNCHANGED verdict
  BY DEF ArmAndScore, Sent
<1>3. ArmEnds(g)
  BY <1>2 DEF ArmEnds
<1> QED
  BY <1>1, <1>2, <1>3

\* What it leaves alone, and how it ends.
LEMMA ArmMoves ==
    ASSUME TypeOK, ArmAndScore
    PROVE  /\ AtStep("arm") /\ OnAxi /\ Still
           /\ DOMAIN board' = BoardFields /\ board'.ddr = board.ddr /\ board'.fabric = board.fabric
           /\ board'.boot = board.boot /\ board'.key = board.key
           /\ DOMAIN run' = RunFields /\ run'.approved = run.approved /\ run'.taken = run.taken
           /\ run'.reads = run.reads /\ run'.home = run.home /\ run'.arm = Sent
           /\ \/ outcome' # None /\ pc' = pc /\ verdict' = verdict
                 /\ consumed' = (consumed \/ Arms) /\ sealed' = (prog.kind = "diag")
              \/ Going /\ verdict' \in {"PASS", "HOLD"} /\ outcome' = None
<1> USE DEF TypeOK, BoardFields, RunFields
<1>1. AtStep("arm") /\ OnAxi /\ Still /\ outcome = None
  BY ArmCases DEF AtStep, Live
<1>2. PICK g \in Shown(Sent) : board' = Strobed(Sent, g.real) /\ ArmEnds(g)
  BY ArmCases
<1>3. /\ DOMAIN board' = BoardFields /\ board'.ddr = board.ddr /\ board'.fabric = board.fabric
      /\ board'.boot = board.boot /\ board'.key = board.key
  BY <1>2 DEF Strobed
<1>4. \E a, s, c, d : run' = [run EXCEPT !.arm = Sent, !.score = s, !.control = c, !.defect = d]
  BY <1>2 DEF ArmEnds
<1>5. /\ DOMAIN run' = RunFields /\ run'.approved = run.approved /\ run'.taken = run.taken
      /\ run'.reads = run.reads /\ run'.home = run.home /\ run'.arm = Sent
  BY <1>4
<1>6. \/ outcome' # None /\ pc' = pc /\ verdict' = verdict
         /\ consumed' = (consumed \/ Arms) /\ sealed' = (prog.kind = "diag")
      \/ Going /\ verdict' \in {"PASS", "HOLD"} /\ outcome' = None
  BY <1>1, <1>2 DEF ArmEnds, Ended, Concluded, Closed, OfControl, Going, Arms, None
<1> QED
  BY <1>1, <1>3, <1>5, <1>6

\* The control: what it leaves alone.
LEMMA ControlMoves ==
    ASSUME TypeOK, NegativeControl
    PROVE  /\ AtStep("control") /\ OnAxi /\ Still /\ verdict' = verdict
           /\ DOMAIN board' = BoardFields /\ board'.ddr = board.ddr /\ board'.fabric = board.fabric
           /\ board'.boot = board.boot /\ board'.key = board.key
           /\ DOMAIN run' = RunFields /\ run'.approved = run.approved /\ run'.taken = run.taken
           /\ run'.reads = run.reads /\ run'.home = run.home /\ run'.arm = run.arm /\ run'.score = run.score
           /\ pc' = pc /\ consumed' = (consumed \/ Arms) /\ sealed' = (prog.kind = "diag")
<1> USE DEF TypeOK, BoardFields, RunFields
<1>1. AtStep("control") /\ OnAxi /\ Still /\ verdict' = verdict
  BY DEF NegativeControl, Answered, Running, AtStep, Live
<1>2. \E p, a : board' = Strobed(p, a)
  BY DEF NegativeControl
<1>3. \E c, d : run' = [run EXCEPT !.control = c, !.defect = d]
  BY DEF NegativeControl
<1>4. \E o : Closed(o)
  BY DEF NegativeControl, Concluded
<1> QED
  BY <1>1, <1>2, <1>3, <1>4 DEF Strobed, Closed, Arms

\* The steps that stage nothing, transfer nothing and leave the session alone.
Plain ==
    \/ Refused \/ Killed \/ Load \/ ClaimProvisionRuling \/ Provision \/ Keyed \/ ReadbackFrame \/ LinkThree
    \/ Phase \/ EndPcapPhase \/ ArmAndScore \/ NegativeControl \/ AxiStop \/ Take \/ Continuity
Jtag == \E a \in Askers : AskJtag(a) \/ ReadDie(a) \/ FileJtag(a)

\* They keep the buffer, what was approved and what was taken.
LEMMA PlainKeeps ==
    ASSUME TypeOK, Plain
    PROVE  /\ prog' = prog
           /\ DOMAIN board' = BoardFields /\ board'.ddr = board.ddr
           /\ DOMAIN run' = RunFields /\ run'.approved = run.approved /\ run'.taken = run.taken
<1> USE DEF TypeOK, BoardFields, RunFields
<1>1. CASE Refused \/ Killed \/ Load \/ ClaimProvisionRuling \/ Provision \/ Keyed
  BY <1>1 DEF Refused, Killed, Load, ClaimProvisionRuling, Provision, Keyed, Going, Ended, Concluded, Closed, Still, SameBooks
<1>2. CASE ReadbackFrame \/ LinkThree \/ Phase \/ EndPcapPhase \/ AxiStop \/ Take \/ Continuity
  BY <1>2 DEF ReadbackFrame, LinkThree, Phase, EndPcapPhase, AxiStop, Take, Continuity, Still, SameBooks
<1>3. CASE ArmAndScore
  BY <1>3, ArmMoves DEF Still
<1>4. CASE NegativeControl
  BY <1>4, ControlMoves DEF Still
<1> QED
  BY <1>1, <1>2, <1>3, <1>4 DEF Plain

\* They end the session or move on; from a phase, perhaps to the closing reads.
\* None of them is a stage or a write.
LEMMA PlainMoves ==
    ASSUME TypeOK, Plain
    PROVE  \/ outcome' # None /\ pc' = pc
           \/ Live /\ Op = "control" /\ pc' = pc
           \/ Live /\ Op \notin {"stage", "write", "corrupt"} /\ outcome' = None
              /\ (Op = "claim" => ClaimProvisionRuling)
              /\ (pc' = pc + 1 \/ (Op = "phase" /\ pc' = Len(prog.script) - Envelopes))
<1> USE DEF Live, Running, Answered, Going, Ended, Concluded, Closed, None
<1>1. CASE Refused \/ Killed \/ Load \/ ClaimProvisionRuling
  BY <1>1 DEF Refused, Killed, Load, ClaimProvisionRuling
<1>5. CASE Provision \/ Keyed
  BY <1>5 DEF Provision, Keyed
<1>2. CASE ReadbackFrame \/ LinkThree \/ Phase \/ EndPcapPhase
  BY <1>2 DEF ReadbackFrame, LinkThree, Phase, EndPcapPhase
<1>6. CASE AxiStop \/ Take \/ Continuity
  BY <1>6 DEF AxiStop, Take, Continuity
<1>3. CASE ArmAndScore
  BY <1>3, ArmMoves DEF AtStep
<1>4. CASE NegativeControl
  BY <1>4, ControlMoves DEF AtStep
<1> QED
  BY <1>1, <1>2, <1>3, <1>4, <1>5, <1>6 DEF Plain

\* The stage itself: with the cache off the DMA sees what is read back, and
\* only a stream read back whole is approved.
LEMMA StageMoves ==
    ASSUME TypeOK, StageAndReread
    PROVE  /\ AtStep("stage") /\ prog' = prog
           /\ DOMAIN board' = BoardFields /\ board'.ddr \in Held
           /\ DOMAIN run' = RunFields /\ run'.taken = run.taken
           /\ \/ pc' = pc + 1 /\ run'.approved = Append(run.approved, board'.ddr)
              \/ pc' = pc /\ outcome' # None /\ run'.approved = run.approved
<1> USE DEF TypeOK, BoardFields, RunFields
<1>1. AtStep("stage") /\ prog' = prog
  BY DEF StageAndReread, Answered, Running, AtStep, Live, Still
<1>2. PICK s \in {Stream(Env), Garbled} : board' = Stored(DcacheOff(board), s)
  BY DEF StageAndReread
<1>3. s \in Held
  <2>1. Stream(Env) \in Held
    BY <1>1, StreamHeld DEF AtStep
  <2>2. Garbled \in Held
    BY DEF Held
  <2> QED
    BY <1>2, <2>1, <2>2
<1>4. DOMAIN board' = BoardFields /\ board'.ddr = s /\ board'.dcache = FALSE
  BY <1>2 DEF Stored, DcacheOff
<1>5. Reread(board') = s
  BY <1>4 DEF Reread
<1>6. CASE s = Stream(Env)
  BY <1>1, <1>3, <1>4, <1>5, <1>6 DEF StageAndReread, Going
<1>7. CASE s # Stream(Env)
  BY <1>1, <1>3, <1>4, <1>5, <1>7 DEF StageAndReread, Ended, Concluded, Closed, None
<1> QED
  BY <1>6, <1>7

\* A transfer takes the buffer of a board that still has its PL.
LEMMA WriteMoves ==
    ASSUME TypeOK, ExecuteWrite
    PROVE  /\ AtStep("write") /\ OnAxi /\ prog' = prog
           /\ DOMAIN board' = BoardFields /\ board'.ddr = board.ddr
           /\ DOMAIN run' = RunFields /\ run'.approved = run.approved
           /\ run'.taken = Append(run.taken, board.ddr)
           /\ pc' = pc + 1 \/ (pc' = pc /\ outcome' # None)
BY DEF TypeOK, BoardFields, RunFields, ExecuteWrite, Answered, Running, AtStep, Live, Still, Going, Ended, Concluded, Closed, None

\* The ways of L4's corruption.
Way(d, ddr, reread, done) == [defect |-> d, ddr |-> ddr, reread |-> reread, done |-> done]
Ways == {Way(None, Garbled, Garbled, FALSE), Way("lost", Stream(1), Stream(1), FALSE),
         Way("lost", Garbled, Garbled, board.done), Way("blind", Garbled, Stream(1), FALSE),
         Way("stray", Garbled, Garbled, TRUE)}
LEMMA CorruptCases ==
    ASSUME TypeOK, Corrupt
    PROVE  \E w \in Ways :
             /\ DOMAIN board' = BoardFields /\ board'.ddr = w.ddr /\ board'.done = w.done
             /\ board'.fabric = board.fabric /\ board'.boot = board.boot
             /\ board'.key = board.key /\ board'.nonce = board.nonce
             /\ run' = [run EXCEPT !.reread = w.reread, !.defect = w.defect]
             /\ IF w.reread = Stream(1) \/ w.done THEN Ended("KILL") ELSE Going
<1>1. PICK w \in Ways :
        /\ board' = [Stored(DcacheOff(board), w.ddr) EXCEPT !.done = w.done]
        /\ run' = [run EXCEPT !.reread = w.reread, !.defect = w.defect]
        /\ IF w.reread = Stream(1) \/ w.done THEN Ended("KILL") ELSE Going
  BY DEF Corrupt, Ways, Way
<1>2. /\ DOMAIN board' = BoardFields /\ board'.ddr = w.ddr /\ board'.done = w.done
      /\ board'.fabric = board.fabric /\ board'.boot = board.boot
      /\ board'.key = board.key /\ board'.nonce = board.nonce
  BY <1>1 DEF TypeOK, BoardFields, Stored, DcacheOff
<1> QED
  BY <1>1, <1>2

\* L4's corruption changes the buffer where nothing is approved.
LEMMA CorruptMoves ==
    ASSUME TypeOK, Corrupt
    PROVE  /\ AtStep("corrupt") /\ Still
           /\ DOMAIN board' = BoardFields /\ board'.ddr \in Held
           /\ DOMAIN run' = RunFields /\ run'.approved = run.approved /\ run'.taken = run.taken
           /\ run'.reads = run.reads /\ run'.home = run.home /\ run'.arm = run.arm
           /\ run'.score = run.score /\ run'.control = run.control
           /\ pc' = pc + 1 \/ (pc' = pc /\ outcome' # None)
<1>1. AtStep("corrupt") /\ Still
  BY DEF Corrupt, Answered, Running, AtStep, Live
<1>2. PICK w \in Ways :
        /\ DOMAIN board' = BoardFields /\ board'.ddr = w.ddr
        /\ run' = [run EXCEPT !.reread = w.reread, !.defect = w.defect]
        /\ IF w.reread = Stream(1) \/ w.done THEN Ended("KILL") ELSE Going
  BY CorruptCases
<1>3. w.ddr \in {Garbled, Stream(1)}
  BY DEF Ways, Way
<1>4. board'.ddr \in Held
  BY <1>1, <1>2, <1>3, StreamHeld DEF AtStep, Held
<1>5. pc' = pc + 1 \/ (pc' = pc /\ outcome' # None)
  BY <1>2 DEF Going, Ended, Concluded, Closed, None
<1>6. /\ DOMAIN run' = RunFields /\ run'.approved = run.approved /\ run'.taken = run.taken
      /\ run'.reads = run.reads /\ run'.home = run.home /\ run'.arm = run.arm
      /\ run'.score = run.score /\ run'.control = run.control
  BY <1>2 DEF TypeOK, RunFields
<1> QED
  BY <1>1, <1>2, <1>4, <1>5, <1>6

\* A restart or a new session.
LEMMA ResetMoves ==
    ASSUME TypeOK, Reset
    PROVE  /\ UNCHANGED <<prog, pc, run, outcome, executed, marker>>
           /\ DOMAIN board' = BoardFields /\ board'.ddr \in Held /\ ~OnAxi'
BY DEF TypeOK, Reset, PowerOn, BoardFields, Held, OnAxi, ruling

\* The next process starts from a board after a power-on.
LEMMA SessionMoves ==
    ASSUME TypeOK, NextSession
    PROVE  /\ prog' \in Programs /\ pc' = 1
           /\ DOMAIN board' = BoardFields /\ board'.ddr \in Held
           /\ DOMAIN run' = RunFields /\ run'.approved = <<>> /\ run'.taken = <<>>
           /\ UNCHANGED <<executed, marker>>
BY DEF NextSession, PowerOn, Blank, BoardFields, RunFields, Held

\* Any step keeps the types.
LEMMA StepType == ASSUME TypeOK, [Next]_vars PROVE TypeOK'
<1> USE DEF TypeOK
<1>1. CASE Plain
  <2>1. executed' \in Nat
    <3>1. CASE ArmAndScore \/ NegativeControl
      BY <3>1, ArmMoves, ControlMoves DEF Still
    <3>2. CASE ~(ArmAndScore \/ NegativeControl)
      BY <1>1, <3>2 DEF Plain, Refused, Killed, Load, ClaimProvisionRuling, Provision, Keyed, ReadbackFrame, LinkThree,
         Phase, EndPcapPhase, AxiStop, Take, Continuity, Still, ruling
    <3> QED
      BY <3>1, <3>2
  <2>2. pc' \in Nat \ {0}
    <3>1. CASE Live /\ Op = "phase" /\ pc' = Len(prog.script) - Envelopes
      BY <1>1, <3>1, PlainKeeps, LastStep, BoardRunAssumption DEF AtStep
    <3> QED
      BY <1>1, <3>1, PlainMoves
  <2> QED
    BY <1>1, <2>1, <2>2, PlainKeeps
<1>0. <<>> \in Seq(Held) /\ \A q \in Seq(Held), h \in Held : Append(q, h) \in Seq(Held)
  OBVIOUS
<1>2. CASE StageAndReread
  <2>1. executed' = executed
    BY <1>2 DEF StageAndReread, Still
  <2>2. \/ pc' = pc + 1 /\ run'.approved = Append(run.approved, board'.ddr)
        \/ pc' = pc /\ run'.approved = run.approved
    BY <1>2, StageMoves
  <2>3. board'.ddr \in Held
    BY <1>2, StageMoves
  <2>4. run'.approved \in Seq(Held)
    BY <1>0, <2>2, <2>3
  <2>5. pc' \in Nat \ {0}
    BY <2>2
  <2>6. prog' = prog /\ DOMAIN board' = BoardFields /\ DOMAIN run' = RunFields /\ run'.taken = run.taken
    BY <1>2, StageMoves
  <2> QED
    BY <2>1, <2>3, <2>4, <2>5, <2>6
<1>3. CASE ExecuteWrite
  <2>1. executed' = executed
    BY <1>3 DEF ExecuteWrite, Still
  <2>2. /\ run'.taken = Append(run.taken, board.ddr) /\ run'.approved = run.approved
        /\ pc' = pc + 1 \/ pc' = pc
    BY <1>3, WriteMoves
  <2>3. run'.taken \in Seq(Held)
    BY <1>0, <2>2
  <2>4. prog' = prog /\ DOMAIN board' = BoardFields /\ board'.ddr = board.ddr /\ DOMAIN run' = RunFields
    BY <1>3, WriteMoves
  <2> QED
    BY <2>1, <2>2, <2>3, <2>4
<1>4. CASE Corrupt
  BY <1>4, CorruptMoves DEF Still
<1>5. CASE Reset
  BY <1>5, ResetMoves
<1>7. CASE NextSession
  <2>1. prog' \in Programs /\ pc' \in Nat \ {0} /\ executed' \in Nat
    BY <1>7, SessionMoves
  <2>2. DOMAIN board' = BoardFields /\ board'.ddr \in Held /\ DOMAIN run' = RunFields
    BY <1>7, SessionMoves
  <2>3. run'.approved = <<>> /\ run'.taken = <<>>
    BY <1>7, SessionMoves
  <2>4. run'.approved \in Seq(Held)
    BY <2>3, <1>0
  <2> QED
    BY <1>7, <1>0, <2>1, <2>2, <2>3, <2>4
<1>6. CASE Jtag \/ Over \/ UNCHANGED vars
  BY <1>6 DEF Jtag, AskJtag, ReadDie, FileJtag, Over, vars, ruling
<1> QED
  BY <1>1, <1>2, <1>3, <1>4, <1>5, <1>6, <1>7 DEF Next, Plain, Jtag

\* Every variable the proofs speak of holds a value of its kind.
THEOREM TypeCorrect == Spec => []TypeOK
BY InitType, StepType, PTL DEF Spec

-----------------------------------------------------------------------------
(* The key. *)

\* Every step keeps it.
LEMMA StepKey == ASSUME TypeOK, KeyInv, [Next]_vars PROVE KeyInv'
<1>1. CASE ClaimProvisionRuling
  <2>1. AtStep("claim") /\ prog' = prog /\ executed' = executed
    BY <1>1 DEF ClaimProvisionRuling, Running, AtStep, Live, Still
  <2>2. CASE marker
    BY <1>1, <2>1, <2>2 DEF ClaimProvisionRuling, KeyInv, AtStep, Live, Ended, Concluded, Closed, None
  <2>3. CASE ~marker
    BY <1>1, <2>1, <2>3 DEF ClaimProvisionRuling, KeyInv
  <2> QED
    BY <2>2, <2>3
<1>2. CASE Provision
  <2>1. AtStep("provision") /\ prog' = prog /\ executed' = executed + 1 /\ marker' = marker
    BY <1>2 DEF Provision, Running, AtStep, Live
  <2>2. executed' = 1 /\ marker'
    BY <2>1 DEF KeyInv
  <2>3. ~AtStep("provision")'
    <3>1. CASE outcome' # None
      BY <3>1 DEF AtStep, Live
    <3>2. CASE pc' = pc + 1
      BY <2>1, <3>2, NextStep DEF AtStep
    <3> QED
      BY <1>2, <3>1, <3>2 DEF Provision, Going, Ended, Concluded, Closed, None
  <2> QED
    BY <2>2, <2>3 DEF KeyInv
<1>3. CASE Reset \/ UNCHANGED vars \/ Over \/ Jtag
  <2>1. UNCHANGED <<prog, pc, outcome, executed, marker>>
    BY <1>3 DEF Reset, vars, Over, Jtag, AskJtag, ReadDie, FileJtag, ruling
  <2> QED
    BY <2>1 DEF KeyInv, AtStep, Live, Op
<1>4. CASE NextSession
  <2>1. ~AtStep("provision")'
    BY <1>4, SessionMoves, FirstStep DEF AtStep, Live, Op
  <2> QED
    BY <1>4, <2>1, SessionMoves DEF KeyInv
<1>5. CASE (Plain \/ StageAndReread \/ ExecuteWrite \/ Corrupt) /\ ~ClaimProvisionRuling /\ ~Provision
  <2>1. executed' = executed /\ marker' = marker
    BY <1>5 DEF Plain, Refused, Killed, Load, Keyed, ReadbackFrame, LinkThree, Phase, EndPcapPhase, ArmAndScore,
       NegativeControl, AxiStop, Take, Continuity, StageAndReread, ExecuteWrite, Corrupt, Still, ruling
  <2>2. prog' = prog /\ (AtStep("provision")' => AtStep("provision"))
    <3>1. ASSUME Live, pc' = pc + 1, prog' = prog, Op # "claim" PROVE ~AtStep("provision")'
      BY <3>1, NextStep DEF AtStep
    <3>2. CASE Plain
      <4>1. prog' = prog
        BY <3>2, PlainKeeps
      <4>2. CASE pc' = pc /\ outcome' # None
        BY <4>1, <4>2 DEF AtStep, Live
      <4>3. CASE Live /\ Op = "control" /\ pc' = pc
        BY <4>1, <4>3 DEF AtStep, Op
      <4>4. CASE Live /\ Op = "phase" /\ pc' = Len(prog.script) - Envelopes
        BY <4>1, <4>4, LastStep DEF AtStep
      <4>5. CASE Live /\ pc' = pc + 1 /\ Op # "claim"
        BY <4>1, <4>5, <3>1
      <4> QED
        BY <1>5, <3>2, <4>1, <4>2, <4>3, <4>4, <4>5, PlainMoves
    <3>3. CASE StageAndReread
      BY <3>1, <3>3, StageMoves DEF AtStep, Live
    <3>4. CASE ExecuteWrite
      BY <3>1, <3>4, WriteMoves DEF AtStep, Live
    <3>5. CASE Corrupt
      BY <3>1, <3>5, CorruptMoves DEF AtStep, Live, Still
    <3> QED
      BY <1>5, <3>2, <3>3, <3>4, <3>5
  <2> QED
    BY <2>1, <2>2 DEF KeyInv
<1> QED
  BY <1>1, <1>2, <1>3, <1>4, <1>5 DEF Next, Plain, Jtag

\* host/sign_arm.py claim_provision_ruling: whatever the runner recorded, a
\* ruling writes one key, over any number of sessions.
THEOREM SpentOnce == Spec => []RulingSpentOnce
<1>1. Init => KeyInv
  <2> SUFFICES ASSUME Init PROVE KeyInv
    OBVIOUS
  <2>1. ~AtStep("provision")
    BY FirstStep DEF Init, AtStep, Live, Op
  <2> QED
    BY <2>1 DEF Init, KeyInv
<1>2. TypeOK /\ KeyInv => RulingSpentOnce
  BY DEF TypeOK, KeyInv, RulingSpentOnce
<1> QED
  BY <1>1, <1>2, TypeCorrect, StepKey, PTL DEF Spec

-----------------------------------------------------------------------------
(* Link 2. *)

\* One more approved, or one more taken.
LEMMA Appended ==
    ASSUME NEW a \in Seq(Held), NEW t \in Seq(Held), NEW h \in Held,
           \A i \in DOMAIN t : i <= Len(a) /\ t[i] = a[i]
    PROVE  /\ Len(Append(a, h)) = Len(a) + 1 /\ Append(a, h)[Len(a) + 1] = h
           /\ \A i \in DOMAIN t : i <= Len(Append(a, h)) /\ t[i] = Append(a, h)[i]
           /\ Len(a) = Len(t) + 1 /\ h = a[Len(a)] =>
                 /\ Len(Append(t, h)) = Len(a)
                 /\ \A i \in DOMAIN Append(t, h) : i <= Len(a) /\ Append(t, h)[i] = a[i]
OBVIOUS

\* Every step keeps it.
LEMMA StepLink == ASSUME TypeOK, LinkInv, [Next]_vars PROVE LinkInv'
<1> USE DEF TypeOK
<1>1. CASE StageAndReread
  <2>1. AtStep("stage") /\ prog' = prog /\ board'.ddr \in Held /\ run'.taken = run.taken
    BY <1>1, StageMoves
  <2>2. Len(run.approved) = Len(run.taken) /\ LinkTwoHolds
    BY <2>1 DEF LinkInv, AtStep
  <2>3. CASE pc' = pc + 1 /\ run'.approved = Append(run.approved, board'.ddr)
    <3>1. Live' => Op' = "write"
      BY <2>1, <2>3, NextStep DEF AtStep
    <3>2. /\ Len(run'.approved) = Len(run.approved) + 1
          /\ run'.approved[Len(run'.approved)] = board'.ddr
          /\ \A i \in DOMAIN run.taken : i <= Len(run'.approved) /\ run.taken[i] = run'.approved[i]
      BY <2>1, <2>2, <2>3, Appended DEF LinkTwoHolds
    <3> QED
      BY <2>1, <2>2, <3>1, <3>2 DEF LinkInv, LinkTwoHolds
  <2>4. CASE pc' = pc /\ outcome' # None /\ run'.approved = run.approved
    BY <2>1, <2>2, <2>4 DEF LinkInv, LinkTwoHolds, Live
  <2> QED
    BY <1>1, <2>3, <2>4, StageMoves
<1>2. CASE ExecuteWrite
  <2>1. /\ AtStep("write") /\ OnAxi /\ prog' = prog /\ run'.approved = run.approved
        /\ run'.taken = Append(run.taken, board.ddr)
        /\ pc' = pc + 1 \/ (pc' = pc /\ outcome' # None)
    BY <1>2, WriteMoves
  <2>2. /\ LinkTwoHolds /\ Len(run.approved) = Len(run.taken) + 1
        /\ board.ddr = run.approved[Len(run.approved)]
    BY <2>1 DEF LinkInv, AtStep
  <2>3. /\ Len(run'.taken) = Len(run'.approved)
        /\ \A i \in DOMAIN run'.taken : i <= Len(run'.approved) /\ run'.taken[i] = run'.approved[i]
    BY <2>1, <2>2, Appended DEF LinkTwoHolds
  <2>4. Live' => Op' # "write"
    BY <2>1, NextStep DEF AtStep, Live
  <2> QED
    BY <2>3, <2>4 DEF LinkInv, LinkTwoHolds
<1>3. CASE Corrupt
  <2>1. /\ AtStep("corrupt") /\ prog' = prog /\ run'.approved = run.approved /\ run'.taken = run.taken
        /\ pc' = pc + 1 \/ (pc' = pc /\ outcome' # None)
    BY <1>3, CorruptMoves DEF Still
  <2>2. Live' => Op' # "write"
    BY <2>1, NextStep DEF AtStep, Live
  <2> QED
    BY <2>1, <2>2 DEF LinkInv, LinkTwoHolds, AtStep
<1>4. CASE Plain
  <2>1. /\ prog' = prog /\ board'.ddr = board.ddr
        /\ run'.approved = run.approved /\ run'.taken = run.taken
    BY <1>4, PlainKeeps
  <2>2. LinkTwoHolds'
    BY <2>1 DEF LinkInv, LinkTwoHolds
  <2>3. CASE outcome' # None
    BY <2>2, <2>3 DEF LinkInv, Live
  <2>4. CASE Live /\ Op = "control" /\ pc' = pc
    BY <2>1, <2>2, <2>4 DEF LinkInv, Live, Op
  <2>5. CASE Live /\ Op \notin {"stage", "write"} /\ pc' = pc + 1
    <3>1. Live' => Op' # "write"
      BY <2>1, <2>5, NextStep
    <3> QED
      BY <2>1, <2>2, <2>5, <3>1 DEF LinkInv
  <2>6. CASE Live /\ Op = "phase" /\ pc' = Len(prog.script) - Envelopes
    <3>1. Op' = "read"
      BY <2>1, <2>6, LastStep DEF AtStep
    <3> QED
      BY <2>1, <2>2, <2>6, <3>1 DEF LinkInv
  <2> QED
    BY <1>4, <2>3, <2>4, <2>5, <2>6, PlainMoves
<1>5. CASE Reset
  BY <1>5, ResetMoves DEF LinkInv, LinkTwoHolds, Live, Op
<1>6. CASE NextSession
  <2>1. Live' => Op' # "write"
    BY <1>6, SessionMoves, FirstStep DEF Live, Op
  <2>2. run'.approved = <<>> /\ run'.taken = <<>>
    BY <1>6, SessionMoves
  <2> QED
    BY <2>1, <2>2 DEF LinkInv, LinkTwoHolds
<1>7. CASE Jtag \/ Over \/ UNCHANGED vars
  BY <1>7 DEF Jtag, AskJtag, ReadDie, FileJtag, Over, vars, LinkInv, LinkTwoHolds, Live, Op, OnAxi
<1> QED
  BY <1>1, <1>2, <1>3, <1>4, <1>5, <1>6, <1>7 DEF Next, Plain, Jtag

\* Nothing is approved at the start, and no script starts with a write.
LEMMA InitLink == Init => LinkInv
<1> SUFFICES ASSUME Init PROVE LinkInv
  OBVIOUS
<1>1. Live => Op # "write"
  BY FirstStep DEF Init, Live, Op
<1>2. run.approved = <<>> /\ run.taken = <<>>
  BY DEF Init, Blank
<1> QED
  BY <1>1, <1>2 DEF LinkInv, LinkTwoHolds

\* host/l3_runner.py stage_and_reread and execute_write: the stream a transfer
\* takes is the one link 2 approved for it, in every script and whatever the
\* board does.
THEOREM LinkTwo == Spec => []LinkTwoHolds
<1>1. LinkInv => LinkTwoHolds
  BY DEF LinkInv
<1> QED
  BY <1>1, InitLink, TypeCorrect, StepLink, PTL DEF Spec

-----------------------------------------------------------------------------
(* The fabric and the readout. *)

Values == {"cand", "blank", "lost"}
Entries == [env : Envs, got : Values \cup {"garbage", None}, pass : BOOLEAN, writes : Nat]

\* What lies in the fabric, that it was loaded in this boot, and that a read
\* passes when it shows what the candidate has there.
FabricInv ==
    /\ board.fabric \in {Nothing} \cup [Envs -> Values]
    /\ OnAxi => Marked
    /\ run.reads \in Seq(Entries)
    /\ prog.kind # "L2" =>
         \A i \in DOMAIN run.reads : run.reads[i].pass <=> run.reads[i].got = prog.want[run.reads[i].env]

\* What is known of the script of the program that runs.
LEMMA ScriptOf ==
    ASSUME TypeOK
    PROVE  /\ prog.script \in Seq([op : STRING, env : Nat])
           /\ Len(prog.script) \in Nat /\ DOMAIN prog.script = 1..Len(prog.script)
           /\ Ordered(prog.script) /\ Guarded(prog) /\ Shaped(prog)
<1>1. prog.script \in Seq([op : STRING, env : Nat]) /\ Ordered(prog.script) /\ Guarded(prog) /\ Shaped(prog)
  BY BoardRunAssumption DEF TypeOK
<1> QED
  BY <1>1

\* What the order of the scripts says of the step at hand.
LEMMA Here ==
    ASSUME TypeOK, Live
    PROVE  /\ Op \in {"stage", "write", "read"} => Env \in Envs
           /\ Op = "corrupt" => prog.kind = "L4"
           /\ Op = "phase" => prog.kind = "diag"
           /\ Op = "sample" => prog.kind = "L2"
           /\ Op = "continuity" => prog.kind = "L2"
           /\ Op = "control" => prog.negative \in PostControls
           /\ Op = "arm" => Arms
           /\ Op \in {"arm", "control"} /\ prog.negative # None => prog.kind = "L3"
<1>1. pc \in 1..Len(prog.script)
  BY ScriptOf DEF Live
<1>2. Guarded(prog) /\ Shaped(prog)
  BY ScriptOf
<1> QED
  BY <1>1, <1>2 DEF Guarded, Shaped, Op, Env, Arms

\* The steps that touch neither the fabric nor the readout.
Dark ==
    \/ Refused \/ Killed \/ ClaimProvisionRuling \/ Provision \/ Keyed \/ StageAndReread \/ Corrupt \/ LinkThree
    \/ Phase \/ EndPcapPhase \/ ArmAndScore \/ NegativeControl \/ AxiStop \/ Take \/ Continuity
    \/ Jtag \/ Over \/ UNCHANGED vars

\* They keep both.
LEMMA DarkKeeps ==
    ASSUME TypeOK, Dark
    PROVE  /\ prog' = prog /\ board'.fabric = board.fabric /\ board'.boot = board.boot
           /\ run'.reads = run.reads /\ run'.home = run.home
<1> USE DEF TypeOK, BoardFields, RunFields
<1>1. CASE Refused \/ Killed \/ ClaimProvisionRuling \/ Provision \/ Keyed
  BY <1>1 DEF Refused, Killed, ClaimProvisionRuling, Provision, Keyed, Still, SameBooks
<1>2. CASE LinkThree \/ Phase \/ EndPcapPhase \/ AxiStop \/ Take \/ Continuity
  BY <1>2 DEF LinkThree, Phase, EndPcapPhase, AxiStop, Take, Continuity, Still, SameBooks
<1>3. CASE ArmAndScore
  BY <1>3, ArmMoves DEF Still
<1>4. CASE NegativeControl
  BY <1>4, ControlMoves DEF Still
<1>5. CASE StageAndReread
  <2>1. PICK s \in {Stream(Env), Garbled} : board' = Stored(DcacheOff(board), s)
    BY <1>5 DEF StageAndReread
  <2>2. board'.fabric = board.fabric /\ board'.boot = board.boot
    BY <2>1 DEF Stored, DcacheOff
  <2>3. prog' = prog /\ run'.reads = run.reads /\ run'.home = run.home
    BY <1>5 DEF StageAndReread, Still
  <2> QED
    BY <2>2, <2>3
<1>6. CASE Corrupt
  BY <1>6, CorruptMoves, CorruptCases DEF Still
<1>7. CASE Jtag \/ Over \/ UNCHANGED vars
  BY <1>7 DEF Jtag, AskJtag, ReadDie, FileJtag, Over, vars
<1> QED
  BY <1>1, <1>2, <1>3, <1>4, <1>5, <1>6, <1>7 DEF Dark

\* One more read: its record is of the kind, and says pass when it matches.
LEMMA ReadMoves ==
    ASSUME TypeOK, FabricInv, ReadbackFrame
    PROVE  /\ AtStep("read") /\ prog' = prog /\ board' = board
           /\ run'.home = run.home /\ run'.arm = run.arm
           /\ \E r \in Entries :
                /\ run'.reads = Append(run.reads, r) /\ r.env = Env
                /\ r.pass <=> r.got = Wanted(Env)
                /\ (Strict /\ ~r.pass) => outcome' # None
<1>1. AtStep("read") /\ OnAxi /\ prog' = prog /\ board' = board
  BY DEF ReadbackFrame, Answered, Running, AtStep, Live, Still
<1>2. Env \in Envs /\ board.fabric \in [Envs -> Values]
  BY <1>1, Here DEF AtStep, FabricInv, OnAxi
<1>3. PICK got \in {board.fabric[Env], "blank", "garbage", None} :
         LET pass == got = Wanted(Env)
         IN  /\ run' = [run EXCEPT !.reads = Append(@, [env |-> Env, got |-> got, pass |-> pass,
                                                        writes |-> Len(run.taken)])]
             /\ IF Strict /\ ~pass THEN Ended("STOP") ELSE Going
  BY DEF ReadbackFrame
<1> DEFINE pass == got = Wanted(Env)
           r == [env |-> Env, got |-> got, pass |-> pass, writes |-> Len(run.taken)]
<1>4. got \in Values \cup {"garbage", None}
  BY <1>2, <1>3 DEF Values
<1>5. Len(run.taken) \in Nat /\ pass \in BOOLEAN
  BY DEF TypeOK
<1>6. r \in Entries /\ r.env = Env /\ (r.pass <=> r.got = Wanted(Env))
  BY <1>2, <1>4, <1>5 DEF Entries
<1>7. run' = [run EXCEPT !.reads = Append(run.reads, r)] /\ (Strict /\ ~pass => outcome' # None)
  BY <1>3 DEF Ended, Concluded, Closed, None
<1>8. run'.reads = Append(run.reads, r) /\ run'.home = run.home /\ run'.arm = run.arm
  BY <1>7 DEF TypeOK, RunFields
<1>9. r.pass <=> pass
  OBVIOUS
<1> HIDE DEF r
<1> QED
  BY <1>1, <1>6, <1>7, <1>8, <1>9

\* A transfer leaves frames in the fabric, whatever it took.
LEMMA WrittenFabric ==
    ASSUME TypeOK, FabricInv, ExecuteWrite
    PROVE  /\ board'.fabric \in [Envs -> Values] /\ OnAxi /\ Marked
           /\ board'.boot = board.boot /\ run'.home = run.home /\ run'.reads = run.reads /\ run'.arm = run.arm
<1>1. OnAxi /\ Marked /\ run' = [run EXCEPT !.taken = Append(@, board.ddr)]
  BY DEF ExecuteWrite
<1>2. PICK f \in Effects(board.ddr) : board' = [board EXCEPT !.fabric = f, !.done = TRUE]
  BY DEF ExecuteWrite
<1>3. board.fabric \in [Envs -> Values]
  BY <1>1 DEF FabricInv, OnAxi
<1>4. f \in [Envs -> Values]
  <2>1. CASE board.ddr \in Envs \X {"cand", "blank"}
    <3>1. board.ddr[1] \in Envs /\ board.ddr[2] \in Values
      BY <2>1 DEF Values
    <3>2. /\ [board.fabric EXCEPT ![board.ddr[1]] = board.ddr[2]] \in [Envs -> Values]
          /\ [e \in Envs |-> board.ddr[2]] \in [Envs -> Values]
      BY <3>1, <1>3
    <3> QED
      BY <1>2, <1>3, <2>1, <3>2 DEF Effects
  <2>2. CASE board.ddr \notin Envs \X {"cand", "blank"}
    BY <1>2, <1>3, <2>2 DEF Effects, Values
  <2> QED
    BY <2>1, <2>2
<1>5. board'.fabric = f /\ board'.boot = board.boot
  BY <1>2 DEF TypeOK, BoardFields
<1>6. run'.home = run.home /\ run'.reads = run.reads /\ run'.arm = run.arm
  BY <1>1 DEF TypeOK, RunFields
<1> QED
  BY <1>1, <1>4, <1>5, <1>6

\* Every step keeps it.
LEMMA StepFabric == ASSUME TypeOK, FabricInv, [Next]_vars PROVE FabricInv'
<1>1. CASE Dark
  BY <1>1, DarkKeeps DEF FabricInv, OnAxi, Marked
<1>2. CASE Reset
  <2>1. board'.fabric = Nothing /\ run' = run /\ prog' = prog
    BY <1>2 DEF Reset, PowerOn
  <2> QED
    BY <2>1 DEF FabricInv, OnAxi
<1>3. CASE NextSession
  <2>1. board'.fabric = Nothing /\ run'.reads = <<>>
    BY <1>3 DEF NextSession, PowerOn, Blank
  <2> QED
    BY <2>1 DEF FabricInv, OnAxi
<1>4. CASE Load
  <2>1. board'.fabric = BlankCandidate /\ board'.boot = board.boot
    BY <1>4 DEF Load, TypeOK, BoardFields
  <2>2. run'.home = board.boot /\ run'.reads = run.reads /\ prog' = prog
    BY <1>4 DEF Load, TypeOK, RunFields, Still
  <2>3. BlankCandidate \in [Envs -> Values]
    BY DEF BlankCandidate, Values
  <2> QED
    BY <2>1, <2>2, <2>3 DEF FabricInv, OnAxi, Marked
<1>5. CASE ExecuteWrite
  <2>1. prog' = prog
    BY <1>5 DEF ExecuteWrite, Still
  <2> QED
    BY <1>5, <2>1, WrittenFabric DEF FabricInv, Marked
<1>6. CASE ReadbackFrame
  <2>1. /\ AtStep("read") /\ prog' = prog /\ board' = board /\ run'.home = run.home
    BY <1>6, ReadMoves
  <2>2. PICK r \in Entries : run'.reads = Append(run.reads, r) /\ r.env = Env /\ (r.pass <=> r.got = Wanted(Env))
    BY <1>6, ReadMoves
  <2>3. run.reads \in Seq(Entries)
    BY DEF FabricInv
  <2>4. /\ run'.reads \in Seq(Entries) /\ DOMAIN run'.reads = 1..(Len(run.reads) + 1)
        /\ \A i \in DOMAIN run'.reads : (i \in DOMAIN run.reads /\ run'.reads[i] = run.reads[i]) \/ run'.reads[i] = r
    BY <2>2, <2>3
  <2>5. prog.kind # "L2" => Wanted(Env) = prog.want[r.env]
    BY <2>2 DEF Wanted
  <2>6. ASSUME prog.kind # "L2", NEW i \in DOMAIN run'.reads
        PROVE  run'.reads[i].pass <=> run'.reads[i].got = prog.want[run'.reads[i].env]
    <3>1. CASE i \in DOMAIN run.reads /\ run'.reads[i] = run.reads[i]
      BY <2>6, <3>1 DEF FabricInv
    <3>2. CASE run'.reads[i] = r
      BY <2>2, <2>5, <2>6, <3>2
    <3> QED
      BY <2>4, <3>1, <3>2
  <2> QED
    BY <2>1, <2>4, <2>6 DEF FabricInv, OnAxi, Marked
<1> QED
  BY <1>1, <1>2, <1>3, <1>4, <1>5, <1>6 DEF Next, Dark, Jtag

-----------------------------------------------------------------------------
(* The way to the ARM. *)

\* Where a run that may arm stands: the envelopes written are those behind the
\* program counter, each approved as the candidate's stream; so are the reads
\* and the claim; the readout passed where it has been judged; and an armed
\* run has only its control before it.
PathInv ==
    Live /\ Arms =>
      /\ Len(run.taken) <= Envelopes
      /\ \A i \in DOMAIN prog.script :
           prog.script[i].op = "write" => (i < pc <=> prog.script[i].env <= Len(run.taken))
      /\ \A k \in DOMAIN run.approved : run.approved[k] = Stream(k)
      /\ \A i \in DOMAIN prog.script :
           i < pc /\ prog.script[i].op = "read" => \E k \in DOMAIN run.reads : run.reads[k].env = prog.script[i].env
      /\ prog.kind = "L4" \/ Op = "arm" => AllPass
      /\ \A i \in DOMAIN prog.script : i < pc /\ prog.script[i].op = "claim" => marker
      /\ run.arm # Nothing <=> Op = "control"

\* The script the program counter stands in, at a write: its envelope is the
\* one after those taken.
LEMMA WriteNext ==
    ASSUME TypeOK, NEW n \in 1..Len(prog.script), prog.script[n].op = "write",
           NEW len \in Nat,
           \A i \in DOMAIN prog.script :
               prog.script[i].op = "write" => (i < n <=> prog.script[i].env <= len)
    PROVE  /\ prog.script[n].env = len + 1
           /\ \A i \in DOMAIN prog.script :
                prog.script[i].op = "write" => (i < n + 1 <=> prog.script[i].env <= len + 1)
<1> DEFINE s == prog.script
<1>1. s \in Seq([op : STRING, env : Nat]) /\ DOMAIN s = 1..Len(s) /\ Len(s) \in Nat /\ Guarded(prog)
  BY ScriptOf
<1>2. \A i \in 1..Len(s) : s[i].env \in Nat
  <2>1. ASSUME NEW S, NEW q \in Seq(S), NEW i \in 1..Len(q) PROVE q[i] \in S
    OBVIOUS
  <2>2. \A i \in 1..Len(s) : s[i] \in [op : STRING, env : Nat]
    BY ONLY <1>1, <2>1
  <2> QED
    BY <2>2
<1>3. s[n].env \in Envs
  BY <1>1 DEF Guarded
<1>4. Envelopes \in Nat
  BY BoardRunAssumption
<1>5. s[n].env \in Nat /\ s[n].env >= 1
  BY <1>3, <1>4 DEF Envs
<1>6. ~(s[n].env <= len)
  BY <1>1
<1>7. s[n].env > 1 => \E j \in 1..(n - 1) : s[j] = Step("write", s[n].env - 1)
  BY <1>1 DEF Guarded
<1>8. ASSUME s[n].env > 1 PROVE s[n].env - 1 <= len
  <2>1. PICK j \in 1..(n - 1) : s[j] = Step("write", s[n].env - 1)
    BY <1>7, <1>8
  <2>2. s[j].op = "write" /\ s[j].env = s[n].env - 1
    BY <2>1 DEF Step
  <2>3. j \in DOMAIN s /\ j < n
    BY <1>1, <2>1
  <2> QED
    BY <2>2, <2>3
<1>9. s[n].env = len + 1
  BY <1>5, <1>6, <1>8
<1>10. ASSUME NEW i \in DOMAIN s, s[i].op = "write" PROVE i < n + 1 <=> s[i].env <= len + 1
  <2>1. i \in 1..Len(s) /\ s[i].env \in Nat
    BY <1>1, <1>2
  <2>2. CASE i < n
    <3>1. s[i].env <= len
      BY <1>10, <2>2
    <3> QED
      BY <2>1, <2>2, <3>1
  <2>3. CASE i = n
    BY <2>1, <2>3, <1>9
  <2>4. CASE i > n
    <3>1. n \in 1..(i - 1)
      BY <2>1, <2>4
    <3>2. \A j \in 1..(i - 1) : s[j].op = "write" => s[j].env < s[i].env
      BY <1>1, <1>10, <2>1 DEF Guarded
    <3>3. s[n].env < s[i].env
      BY <3>1, <3>2
    <3> QED
      BY <2>1, <2>4, <1>9, <3>3
  <2> QED
    BY <2>1, <2>2, <2>3, <2>4
<1> QED
  BY <1>9, <1>10

\* What the step after this one may be, in a run that may arm.
LEMMA ArmsNext ==
    ASSUME TypeOK, Live, Arms, prog' = prog, pc' = pc + 1, Live'
    PROVE  /\ pc + 1 \in 1..Len(prog.script)
           /\ Op # "control" /\ (Op' = "control" <=> Op = "arm")
           /\ Op' = "arm" /\ prog.kind = "L3" => Op = "link3"
           /\ Op' = "write" => prog.script[pc + 1].env = Env
<1>1. /\ Guarded(prog) /\ DOMAIN prog.script = 1..Len(prog.script) /\ Len(prog.script) \in Nat
      /\ pc \in 1..Len(prog.script)
  BY ScriptOf DEF Live
<1>2. pc + 1 \in 1..Len(prog.script) /\ pc + 1 > 1 /\ (pc + 1) - 1 = pc /\ pc + 1 \in (pc + 1)..Len(prog.script)
  BY <1>1 DEF Live
<1>3. Op' = prog.script[pc + 1].op
  BY DEF Op
<1>4. Op' = "control" => Op = "arm"
  BY <1>1, <1>2, <1>3 DEF Guarded, Op
<1>5. Op = "arm" => Op' = "control"
  BY <1>1, <1>2, <1>3 DEF Guarded, Op
<1>6. Op' = "arm" /\ prog.kind = "L3" => Op = "link3"
  BY <1>1, <1>2, <1>3 DEF Guarded, Op
<1>7. Op' = "write" => prog.script[pc + 1].env = Env
  BY <1>1, <1>2, <1>3 DEF Guarded, Env
<1>8. Op # "control"
  <2> SUFFICES ASSUME Op = "control" PROVE FALSE
    OBVIOUS
  <2>1. pc > 1 /\ prog.script[pc - 1].op = "arm"
    BY <1>1 DEF Guarded, Op
  <2>2. pc - 1 \in 1..Len(prog.script) /\ pc + 1 \in ((pc - 1) + 1)..Len(prog.script)
    BY <1>1, <1>2, <2>1
  <2>3. prog.script[pc + 1].op = "control"
    BY <1>1, <2>1, <2>2 DEF Guarded
  <2> QED
    BY <1>3, <1>4, <2>3
<1> QED
  BY <1>2, <1>4, <1>5, <1>6, <1>7, <1>8

\* The envelopes written, after a step of the program.
LEMMA WrittenMoves ==
    ASSUME TypeOK, PathInv, Live, Arms, prog' = prog, pc' = pc + 1, Live',
           run'.taken \in Seq(Held),
           Len(run'.taken) = IF Op = "write" THEN Len(run.taken) + 1 ELSE Len(run.taken)
    PROVE  /\ Len(run'.taken) <= Envelopes
           /\ \A i \in DOMAIN prog.script :
                prog.script[i].op = "write" => (i < pc + 1 <=> prog.script[i].env <= Len(run'.taken))
<1>1. /\ Len(run.taken) \in Nat /\ Len(run'.taken) \in Nat /\ pc \in Nat /\ Envelopes \in Nat
      /\ pc \in 1..Len(prog.script) /\ DOMAIN prog.script = 1..Len(prog.script)
  <2>1. Len(run.taken) \in Nat /\ Len(run'.taken) \in Nat /\ pc \in Nat
    BY DEF TypeOK
  <2>2. Envelopes \in Nat
    BY BoardRunAssumption
  <2>3. pc \in 1..Len(prog.script) /\ DOMAIN prog.script = 1..Len(prog.script)
    BY ScriptOf DEF Live
  <2> QED
    BY <2>1, <2>2, <2>3
<1>2. /\ Len(run.taken) <= Envelopes
      /\ \A i \in DOMAIN prog.script :
           prog.script[i].op = "write" => (i < pc <=> prog.script[i].env <= Len(run.taken))
  BY DEF PathInv
<1>3. CASE Op = "write"
  <2>1. /\ prog.script[pc].env = Len(run.taken) + 1
        /\ \A i \in DOMAIN prog.script :
             prog.script[i].op = "write" => (i < pc + 1 <=> prog.script[i].env <= Len(run.taken) + 1)
    BY <1>1, <1>2, <1>3, WriteNext DEF Op
  <2>2. Env \in Envs
    BY <1>3, Here
  <2>3. Len(run.taken) + 1 <= Envelopes
    BY <1>1, <2>1, <2>2 DEF Env, Envs
  <2> QED
    BY <1>3, <2>1, <2>3
<1>4. CASE Op # "write"
  <2>1. \A i \in DOMAIN prog.script : prog.script[i].op = "write" => i # pc
    BY <1>4 DEF Op
  <2>2. \A i \in 1..Len(prog.script) : i # pc => (i < pc + 1 <=> i < pc)
    BY <1>1
  <2> QED
    BY <1>1, <1>2, <1>4, <2>1, <2>2
<1> QED
  BY <1>3, <1>4

\* Any step of the program that goes on keeps it, if it does its own part.
LEMMA PathMoves ==
    ASSUME TypeOK, PathInv, Live, Arms, prog' = prog, pc' = pc + 1, Live',
           run'.taken \in Seq(Held),
           Len(run'.taken) = IF Op = "write" THEN Len(run.taken) + 1 ELSE Len(run.taken),
           \A k \in DOMAIN run'.approved : run'.approved[k] = Stream(k),
           marker \/ Op = "claim" => marker',
           \A k \in DOMAIN run.reads : k \in DOMAIN run'.reads /\ run'.reads[k] = run.reads[k],
           Op = "read" => \E k \in DOMAIN run'.reads : run'.reads[k].env = Env,
           prog.kind = "L4" \/ Op = "link3" => AllPass',
           run'.arm # Nothing <=> run.arm # Nothing \/ Op = "arm"
    PROVE  PathInv'
<1>1. /\ Len(run'.taken) <= Envelopes
      /\ \A i \in DOMAIN prog.script :
           prog.script[i].op = "write" => (i < pc + 1 <=> prog.script[i].env <= Len(run'.taken))
  BY WrittenMoves
<1>2. pc \in 1..Len(prog.script) /\ DOMAIN prog.script = 1..Len(prog.script) /\ pc \in Nat
  BY ScriptOf DEF TypeOK, Live
<1>3. \A i \in DOMAIN prog.script : i < pc + 1 => i < pc \/ i = pc
  BY <1>2
<1>4. \A k : Stream(k)' = Stream(k)
  BY DEF Stream
<1>5. ASSUME NEW i \in DOMAIN prog.script, i < pc + 1, prog.script[i].op = "read"
      PROVE  \E k \in DOMAIN run'.reads : run'.reads[k].env = prog.script[i].env
  <2>1. CASE i < pc
    BY <1>5, <2>1 DEF PathInv
  <2>2. CASE i = pc
    BY <1>5, <2>2 DEF Op, Env
  <2> QED
    BY <1>3, <1>5, <2>1, <2>2
<1>6. ASSUME NEW i \in DOMAIN prog.script, i < pc + 1, prog.script[i].op = "claim"
      PROVE  marker'
  <2>1. CASE i < pc
    BY <1>6, <2>1 DEF PathInv
  <2>2. CASE i = pc
    BY <1>6, <2>2 DEF Op
  <2> QED
    BY <1>3, <1>6, <2>1, <2>2
<1>7. prog.kind = "L4" \/ Op' = "arm" => AllPass'
  BY ArmsNext DEF Arms
<1>8. run'.arm # Nothing <=> Op' = "control"
  BY ArmsNext DEF PathInv
<1> QED
  BY <1>1, <1>4, <1>5, <1>6, <1>7, <1>8 DEF PathInv

\* It is left alone where none of its parts moves.
LEMMA PathKeeps ==
    ASSUME PathInv, prog' = prog, pc' = pc, Live' => Live,
           run'.approved = run.approved, run'.taken = run.taken, run'.reads = run.reads,
           marker => marker', run'.arm # Nothing <=> run.arm # Nothing
    PROVE  PathInv'
<1> SUFFICES ASSUME Live', Arms' PROVE PathInv'
  BY DEF PathInv
<1>1. Live /\ Arms /\ Op' = Op /\ (AllPass => AllPass') /\ \A k : Stream(k)' = Stream(k)
  BY DEF Arms, Op, AllPass, Stream
<1> QED
  BY <1>1 DEF PathInv

\* What a plain step does to the readout, the marker and the ARM.
LEMMA PlainPath ==
    ASSUME TypeOK, FabricInv, Plain
    PROVE  /\ marker => marker'
           /\ Live /\ Op = "claim" => marker' \/ outcome' # None
           /\ IF ArmAndScore THEN AtStep("arm") /\ run'.arm # Nothing ELSE run'.arm = run.arm
           /\ IF ReadbackFrame THEN AtStep("read") ELSE run'.reads = run.reads
<1> USE DEF TypeOK, RunFields
<1>1. marker => marker'
  BY DEF Plain, Refused, Killed, Load, ClaimProvisionRuling, Provision, Keyed, ReadbackFrame, LinkThree,
     Phase, EndPcapPhase, ArmAndScore, NegativeControl, AxiStop, Take, Continuity, Still, ruling
<1>2. Live /\ Op = "claim" => marker' \/ outcome' # None
  <2>1. ClaimProvisionRuling => marker' \/ outcome' # None
    BY DEF ClaimProvisionRuling, Ended, Concluded, Closed, None
  <2> QED
    BY <2>1, PlainMoves
<1>3. IF ArmAndScore THEN AtStep("arm") /\ run'.arm # Nothing ELSE run'.arm = run.arm
  <2>1. CASE ArmAndScore
    <3>1. AtStep("arm") /\ run'.arm = Sent
      BY <2>1, ArmMoves
    <3>2. Sent # Nothing
      BY DEF Sent, Signed, Payload, Nothing
    <3> QED
      BY <2>1, <3>1, <3>2
  <2>2. CASE ~ArmAndScore
    BY <2>2, ControlMoves DEF Plain, Refused, Killed, Load, ClaimProvisionRuling, Provision, Keyed, ReadbackFrame, LinkThree,
       Phase, EndPcapPhase, AxiStop, Take, Continuity, Still, SameBooks
  <2> QED
    BY <2>1, <2>2
<1>4. IF ReadbackFrame THEN AtStep("read") ELSE run'.reads = run.reads
  <2>1. CASE ReadbackFrame
    BY <2>1, ReadMoves
  <2>2. CASE Load
    BY <2>2 DEF Load, Answered, Running, ReadbackFrame
  <2>3. CASE ~ReadbackFrame /\ ~Load
    BY <2>3, DarkKeeps DEF Plain, Dark
  <2> QED
    BY <2>1, <2>2, <2>3
<1> QED
  BY <1>1, <1>2, <1>3, <1>4

\* Which step it was, of a run that goes on.
LEMMA PlainWhich ==
    ASSUME Plain, Live, outcome' = None
    PROVE  /\ Op = "arm" => ArmAndScore
           /\ Op = "read" => ReadbackFrame
           /\ Op = "link3" => AllPass
<1> USE DEF Answered, Running, Ended, Concluded, Closed, None
<1>1. CASE Refused \/ Killed \/ Load \/ ClaimProvisionRuling \/ Provision \/ Keyed \/ ReadbackFrame
  BY <1>1 DEF Refused, Killed, Load, ClaimProvisionRuling, Provision, Keyed, ReadbackFrame
<1>2. CASE LinkThree \/ Phase \/ EndPcapPhase \/ AxiStop \/ Take \/ Continuity
  BY <1>2 DEF LinkThree, Phase, EndPcapPhase, AxiStop, Take, Continuity
<1>3. CASE ArmAndScore
  BY <1>3 DEF ArmAndScore
<1>4. CASE NegativeControl
  BY <1>4 DEF NegativeControl
<1> QED
  BY <1>1, <1>2, <1>3, <1>4 DEF Plain

\* Every step keeps it.
LEMMA StepPath == ASSUME TypeOK, FabricInv, LinkInv, PathInv, [Next]_vars PROVE PathInv'
<1> USE DEF TypeOK
<1>0. TypeOK' /\ run.taken \in Seq(Held) /\ run'.taken \in Seq(Held)
  BY StepType
<1> SUFFICES ASSUME Live', Arms' PROVE PathInv'
  BY DEF PathInv
<1>1. CASE StageAndReread
  <2>1. AtStep("stage") /\ prog' = prog /\ run'.taken = run.taken /\ Live /\ Op = "stage"
    BY <1>1, StageMoves DEF AtStep
  <2>2. pc' = pc + 1 /\ run'.approved = Append(run.approved, board'.ddr)
    BY <1>1, StageMoves DEF Live
  <2>3. Arms /\ Len(run.approved) = Len(run.taken) /\ Len(run.taken) \in Nat
    BY <2>1 DEF Arms, LinkInv
  <2>4. Op' = "write" /\ pc + 1 \in 1..Len(prog.script) /\ prog.script[pc + 1].env = Env
    BY <2>1, <2>2, <2>3, NextStep, ArmsNext
  <2>5. \A i \in DOMAIN prog.script :
           prog.script[i].op = "write" => (i < pc + 1 <=> prog.script[i].env <= Len(run.taken))
    BY <2>1, <2>2, <2>3, <1>0, WrittenMoves
  <2>6. prog.script[pc + 1].op = "write"
    BY <2>1, <2>2, <2>4 DEF Op
  <2>7. Env = Len(run.taken) + 1
    BY <2>3, <2>4, <2>5, <2>6, WriteNext
  <2>8. board'.ddr = Stream(Env)
    <3>1. PICK s \in {Stream(Env), Garbled} : board' = Stored(DcacheOff(board), s)
      BY <1>1 DEF StageAndReread
    <3>2. board'.ddr = s /\ Reread(board') = s
      BY <3>1 DEF Stored, DcacheOff, Reread, BoardFields
    <3>3. Reread(board') = Stream(Env)
      BY <1>1 DEF StageAndReread, Ended, Concluded, Closed, Live, None
    <3> QED
      BY <3>2, <3>3
  <2>9. board'.ddr \in Held /\ run.approved \in Seq(Held)
    BY <1>0
  <2>10. ASSUME NEW k \in DOMAIN run'.approved PROVE run'.approved[k] = Stream(k)
    <3>1. k \in 1..(Len(run.approved) + 1)
      BY <2>2, <2>9
    <3>2. CASE k = Len(run.approved) + 1
      BY <2>2, <2>3, <2>7, <2>8, <2>9, <3>2
    <3>3. CASE k # Len(run.approved) + 1
      <4>1. k \in DOMAIN run.approved /\ run'.approved[k] = run.approved[k]
        BY <2>2, <2>9, <3>1, <3>3
      <4> QED
        BY <2>1, <2>3, <4>1 DEF PathInv
    <3> QED
      BY <3>2, <3>3
  <2>11. run'.reads = run.reads /\ run'.arm = run.arm /\ marker' = marker
    BY <1>1 DEF StageAndReread, Still, RunFields
  <2>12. \A k \in DOMAIN run.reads : k \in DOMAIN run'.reads /\ run'.reads[k] = run.reads[k]
    BY <2>11
  <2>13. prog.kind = "L4" => AllPass'
    BY <2>1, <2>3, <2>11 DEF PathInv, AllPass
  <2> QED
    BY <1>0, <2>1, <2>2, <2>3, <2>10, <2>11, <2>12, <2>13, PathMoves
<1>2. CASE ExecuteWrite
  <2>1. /\ Live /\ Op = "write" /\ prog' = prog /\ run'.approved = run.approved
        /\ run'.taken = Append(run.taken, board.ddr) /\ pc' = pc + 1
    BY <1>2, WriteMoves DEF AtStep, Live
  <2>2. Arms
    BY <2>1 DEF Arms
  <2>3. Len(run'.taken) = Len(run.taken) + 1
    BY <1>0, <2>1
  <2>4. run'.reads = run.reads /\ run'.arm = run.arm /\ marker' = marker
    BY <1>2, WrittenFabric DEF ExecuteWrite, Still
  <2>5. \A k \in DOMAIN run'.approved : run'.approved[k] = Stream(k)
    BY <2>1, <2>2 DEF PathInv
  <2>6. prog.kind = "L4" => AllPass'
    BY <2>1, <2>2, <2>4 DEF PathInv, AllPass
  <2>7. \A k \in DOMAIN run.reads : k \in DOMAIN run'.reads /\ run'.reads[k] = run.reads[k]
    BY <2>4
  <2> QED
    BY <1>0, <2>1, <2>2, <2>3, <2>4, <2>5, <2>6, <2>7, PathMoves
<1>3. CASE Corrupt
  <2>1. /\ Live /\ Op = "corrupt" /\ prog' = prog /\ pc' = pc + 1 /\ marker' = marker
        /\ run'.approved = run.approved /\ run'.taken = run.taken /\ run'.reads = run.reads /\ run'.arm = run.arm
    BY <1>3, CorruptMoves DEF AtStep, Live, Still
  <2>2. Arms
    BY <2>1 DEF Arms
  <2>3. \A k \in DOMAIN run'.approved : run'.approved[k] = Stream(k)
    BY <2>1, <2>2 DEF PathInv
  <2>4. prog.kind = "L4" => AllPass'
    BY <2>1, <2>2 DEF PathInv, AllPass
  <2>5. \A k \in DOMAIN run.reads : k \in DOMAIN run'.reads /\ run'.reads[k] = run.reads[k]
    BY <2>1
  <2> QED
    BY <1>0, <2>1, <2>2, <2>3, <2>4, <2>5, PathMoves
<1>4. CASE Plain
  <2>1. prog' = prog /\ run'.approved = run.approved /\ run'.taken = run.taken /\ Arms
    BY <1>4, PlainKeeps DEF Arms
  <2>2. CASE Live /\ Op = "control" /\ pc' = pc
    <3>1. run'.arm = run.arm /\ run'.reads = run.reads /\ (marker => marker')
      BY <1>4, <2>2, PlainPath DEF AtStep
    <3> QED
      BY <2>1, <2>2, <3>1, PathKeeps
  <2>3. CASE Live /\ Op \notin {"stage", "write"} /\ outcome' = None /\ pc' = pc + 1
    <3>1. marker \/ Op = "claim" => marker'
      BY <1>4, <2>3, PlainPath
    <3>2. \A k \in DOMAIN run'.approved : run'.approved[k] = Stream(k)
      BY <2>1, <2>3 DEF PathInv
    <3>3. run'.arm # Nothing <=> run.arm # Nothing \/ Op = "arm"
      BY <1>4, <2>3, PlainPath, PlainWhich DEF AtStep
    <3>4. CASE ReadbackFrame
      <4>1. PICK r \in Entries : /\ run'.reads = Append(run.reads, r) /\ r.env = Env
                                 /\ r.pass <=> r.got = Wanted(Env)
                                 /\ (Strict /\ ~r.pass) => outcome' # None
        BY <3>4, ReadMoves
      <4>2. Op = "read"
        BY <3>4, ReadMoves DEF AtStep
      <4>3. run.reads \in Seq(Entries)
        BY DEF FabricInv
      <4>4. /\ \A k \in DOMAIN run.reads : k \in DOMAIN run'.reads /\ run'.reads[k] = run.reads[k]
            /\ Len(run.reads) + 1 \in DOMAIN run'.reads /\ run'.reads[Len(run.reads) + 1] = r
            /\ \A k \in DOMAIN run'.reads : k \in DOMAIN run.reads \/ k = Len(run.reads) + 1
        BY <4>1, <4>3
      <4>5. \E k \in DOMAIN run'.reads : run'.reads[k].env = Env
        BY <4>1, <4>4
      <4>6. prog.kind = "L4" => AllPass'
        <5> SUFFICES ASSUME prog.kind = "L4" PROVE AllPass'
          OBVIOUS
        <5>1. r.pass
          BY <2>3, <4>1 DEF Strict
        <5>2. AllPass
          BY <2>1, <2>3 DEF PathInv
        <5> QED
          BY <4>4, <5>1, <5>2 DEF AllPass
      <4> QED
        BY <1>0, <2>1, <2>3, <3>1, <3>2, <3>3, <4>2, <4>4, <4>5, <4>6, PathMoves
    <3>5. CASE ~ReadbackFrame
      <4>1. run'.reads = run.reads /\ Op # "read"
        BY <1>4, <2>3, <3>5, PlainPath, PlainWhich
      <4>2. prog.kind = "L4" \/ Op = "link3" => AllPass'
        BY <1>4, <2>1, <2>3, <4>1, PlainWhich DEF PathInv, AllPass
      <4>3. \A k \in DOMAIN run.reads : k \in DOMAIN run'.reads /\ run'.reads[k] = run.reads[k]
        BY <4>1
      <4> QED
        BY <1>0, <2>1, <2>3, <3>1, <3>2, <3>3, <4>1, <4>2, <4>3, PathMoves
    <3> QED
      BY <3>4, <3>5
  <2>4. ~(Live /\ Op = "phase")
    BY <2>1, Here DEF Arms
  <2> QED
    BY <1>4, <2>2, <2>3, <2>4, PlainMoves DEF Live
<1>5. CASE Reset
  <2>1. UNCHANGED <<prog, pc, run, outcome, marker>>
    BY <1>5, ResetMoves
  <2> QED
    BY <2>1, PathKeeps DEF Live
<1>6. CASE NextSession
  <2>1. pc' = 1 /\ prog' \in Programs /\ run' = Blank
    BY <1>6, SessionMoves DEF NextSession
  <2>2. run'.approved = <<>> /\ run'.taken = <<>> /\ run'.reads = <<>> /\ run'.arm = Nothing
    BY <2>1 DEF Blank
  <2>3. Op' = "load"
    BY <2>1, FirstStep DEF Live, Op
  <2>4. DOMAIN prog'.script = 1..Len(prog'.script) /\ Guarded(prog') /\ Len(prog'.script) \in Nat
    BY <2>1, BoardRunAssumption
  <2>5. ASSUME NEW i \in DOMAIN prog'.script, prog'.script[i].op = "write" PROVE prog'.script[i].env \in Envs
    BY <2>4, <2>5 DEF Guarded
  <2>6. Envelopes \in Nat
    BY BoardRunAssumption
  <2>7. \A i \in DOMAIN prog'.script : ~(i < 1) /\ (prog'.script[i].op = "write" => ~(prog'.script[i].env <= 0))
    BY <2>4, <2>5, <2>6 DEF Envs
  <2>8. AllPass' /\ Len(run'.taken) = 0 /\ DOMAIN run'.approved = {}
    BY <2>2 DEF AllPass
  <2>9. /\ Len(run'.taken) <= Envelopes
        /\ \A i \in DOMAIN prog'.script :
             prog'.script[i].op = "write" => (i < 1 <=> prog'.script[i].env <= Len(run'.taken))
    BY <2>6, <2>7, <2>8
  <2> QED
    BY <2>1, <2>2, <2>3, <2>7, <2>8, <2>9 DEF PathInv
<1>7. CASE Jtag \/ Over \/ UNCHANGED vars
  <2>1. UNCHANGED <<prog, pc, run, outcome, marker>>
    BY <1>7 DEF Jtag, AskJtag, ReadDie, FileJtag, Over, vars, ruling
  <2> QED
    BY <2>1, PathKeeps DEF Live
<1> QED
  BY <1>1, <1>2, <1>3, <1>4, <1>5, <1>6, <1>7 DEF Next, Plain, Jtag

\* The ARM itself finds the whole chain behind it.
LEMMA ArmFinds ==
    ASSUME TypeOK, FabricInv, LinkInv, PathInv, AtStep("arm"), OnAxi
    PROVE  /\ Arms /\ Marked /\ AllPass
           /\ run.taken = [e \in Envs |-> Stream(e)]
           /\ \A e \in Envs : \E i \in DOMAIN run.reads : run.reads[i].env = e
           /\ prog.negative # "unprovisioned" => marker
<1>1. Live /\ Op = "arm"
  BY DEF AtStep
<1>2. Arms /\ Marked /\ AllPass
  BY <1>1, Here DEF PathInv, FabricInv
<1>3. /\ pc \in 1..Len(prog.script) /\ DOMAIN prog.script = 1..Len(prog.script) /\ Len(prog.script) \in Nat
      /\ Guarded(prog) /\ prog.script[pc].op = "arm"
  BY <1>1, ScriptOf DEF Live, Op
<1>4. \A e \in Envs : /\ \E j \in 1..(pc - 1) : prog.script[j] = Step("write", e)
                      /\ \E j \in 1..(pc - 1) : prog.script[j] = Step("read", e)
  BY <1>3 DEF Guarded
<1>5. prog.negative # "unprovisioned" => \E j \in 1..(pc - 1) : prog.script[j] = Step("claim", 0)
  BY <1>3 DEF Guarded
<1>6. \A j \in 1..(pc - 1) : j \in DOMAIN prog.script /\ j < pc
  BY <1>3
<1>7. \A op, e : Step(op, e).op = op /\ Step(op, e).env = e
  BY DEF Step
<1>8. ASSUME NEW e \in Envs PROVE \E i \in DOMAIN run.reads : run.reads[i].env = e
  <2>1. PICK j \in 1..(pc - 1) : prog.script[j] = Step("read", e)
    BY <1>4
  <2> QED
    BY <1>1, <1>2, <1>6, <1>7, <2>1 DEF PathInv
<1>9. prog.negative # "unprovisioned" => marker
  <2> SUFFICES ASSUME prog.negative # "unprovisioned" PROVE marker
    OBVIOUS
  <2>1. PICK j \in 1..(pc - 1) : prog.script[j] = Step("claim", 0)
    BY <1>5
  <2> QED
    BY <1>1, <1>2, <1>6, <1>7, <2>1 DEF PathInv
<1>10. ASSUME NEW e \in Envs PROVE e <= Len(run.taken)
  <2>1. PICK j \in 1..(pc - 1) : prog.script[j] = Step("write", e)
    BY <1>4
  <2> QED
    BY <1>1, <1>2, <1>6, <1>7, <2>1 DEF PathInv
<1>11. Len(run.taken) = Envelopes
  <2>1. Len(run.taken) \in Nat /\ Envelopes \in Nat
    BY BoardRunAssumption DEF TypeOK
  <2>2. Len(run.taken) <= Envelopes
    BY <1>1, <1>2 DEF PathInv
  <2>3. CASE Envelopes = 0
    BY <2>1, <2>2, <2>3
  <2>4. CASE Envelopes # 0
    <3>1. Envelopes \in Envs
      BY <2>1, <2>4 DEF Envs
    <3> QED
      BY <2>1, <2>2, <3>1, <1>10
  <2> QED
    BY <2>3, <2>4
<1>12. ASSUME NEW e \in Envs PROVE run.taken[e] = Stream(e)
  <2>1. e \in DOMAIN run.taken
    BY <1>11 DEF TypeOK, Envs
  <2>2. e \in DOMAIN run.approved /\ run.taken[e] = run.approved[e]
    <3>1. e <= Len(run.approved) /\ run.taken[e] = run.approved[e]
      BY <2>1 DEF LinkInv, LinkTwoHolds
    <3>2. e \in Nat /\ e >= 1
      BY BoardRunAssumption DEF Envs
    <3> QED
      BY <3>1, <3>2 DEF TypeOK
  <2> QED
    BY <1>1, <1>2, <2>2 DEF PathInv
<1>13. run.taken = [e \in Envs |-> Stream(e)]
  <2>1. DOMAIN run.taken = Envs /\ run.taken = [e \in DOMAIN run.taken |-> run.taken[e]]
    BY <1>11 DEF TypeOK, Envs
  <2> QED
    BY <2>1, <1>12
<1> QED
  BY <1>2, <1>8, <1>9, <1>13

\* An armed run has nothing but its end before it.
LEMMA ArmedRests ==
    ASSUME TypeOK, FabricInv, PathInv, ArmNeedsLinks, run.arm # Nothing, [Next]_vars
    PROVE  \/ NextSession \/ Reset
           \/ Dark /\ ~ArmAndScore /\ UNCHANGED <<run.taken, run.arm>> /\ (marker => marker')
<1>1. Live => Op = "control"
  BY DEF ArmNeedsLinks, PathInv, Arms
<1>2. ~StageAndReread /\ ~ExecuteWrite /\ ~Corrupt /\ ~ReadbackFrame
  BY <1>1, StageMoves, WriteMoves, CorruptMoves, ReadMoves DEF AtStep
<1>3. ~Load /\ ~ArmAndScore
  BY <1>1 DEF Load, ArmAndScore, Answered, Running, Live
<1>4. CASE Plain
  BY <1>2, <1>3, <1>4, PlainKeeps, PlainPath DEF Plain, Dark
<1>5. CASE Jtag \/ Over \/ UNCHANGED vars
  <2>1. UNCHANGED <<run, marker>>
    BY <1>5 DEF Jtag, AskJtag, ReadDie, FileJtag, Over, vars, ruling
  <2> QED
    BY <1>3, <1>5, <2>1 DEF Dark
<1> QED
  BY <1>2, <1>4, <1>5 DEF Next, Plain, Jtag

\* Every step keeps what an armed run rests on.
LEMMA StepArmed == ASSUME TypeOK, FabricInv, LinkInv, PathInv, ArmNeedsLinks, [Next]_vars PROVE ArmNeedsLinks'
<1> SUFFICES ASSUME run'.arm # Nothing PROVE ArmNeedsLinks'
  BY DEF ArmNeedsLinks
<1>1. CASE ArmAndScore
  <2>1. AtStep("arm") /\ OnAxi
    BY <1>1 DEF ArmAndScore, Answered, Running, AtStep, Live
  <2>2. /\ prog' = prog /\ board'.fabric = board.fabric /\ board'.boot = board.boot
        /\ run'.reads = run.reads /\ run'.home = run.home
    BY <1>1, DarkKeeps DEF Dark
  <2>3. run'.taken = run.taken /\ (marker => marker')
    BY <1>1, PlainKeeps, PlainPath DEF Plain
  <2> QED
    BY <2>1, <2>2, <2>3, ArmFinds DEF ArmNeedsLinks, Arms, Marked, AllPass, Stream
<1>2. CASE ~ArmAndScore /\ run.arm = Nothing
  <2>1. CASE Plain
    BY <1>2, <2>1, PlainPath
  <2>2. CASE Jtag \/ Over \/ UNCHANGED vars
    BY <1>2, <2>2 DEF Jtag, AskJtag, ReadDie, FileJtag, Over, vars
  <2>3. CASE StageAndReread
    <3>1. run'.arm = run.arm
      BY <2>3 DEF StageAndReread, TypeOK, RunFields
    <3> QED
      BY <1>2, <3>1
  <2>4. CASE ExecuteWrite
    BY <1>2, <2>4, WrittenFabric
  <2>5. CASE Corrupt
    BY <1>2, <2>5, CorruptMoves
  <2>6. CASE Reset
    BY <1>2, <2>6, ResetMoves
  <2>7. CASE NextSession
    BY <2>7 DEF NextSession, Blank, Nothing
  <2> QED
    BY <2>1, <2>2, <2>3, <2>4, <2>5, <2>6, <2>7 DEF Next, Plain, Jtag
<1>3. CASE run.arm # Nothing /\ NextSession
  BY <1>3 DEF NextSession, Blank
<1>4. CASE run.arm # Nothing /\ Reset
  <2>1. UNCHANGED <<prog, run, marker>> /\ ~OnAxi'
    BY <1>4, ResetMoves
  <2> QED
    BY <1>4, <2>1 DEF ArmNeedsLinks, OnAxi, AllPass, Stream
<1>5. CASE run.arm # Nothing /\ Dark /\ UNCHANGED <<run.taken, run.arm>> /\ (marker => marker')
  <2>1. /\ prog' = prog /\ board'.fabric = board.fabric /\ board'.boot = board.boot
        /\ run'.reads = run.reads /\ run'.home = run.home
    BY <1>5, DarkKeeps
  <2> QED
    BY <1>5, <2>1 DEF ArmNeedsLinks, Marked, AllPass, Stream
<1> QED
  BY <1>1, <1>2, <1>3, <1>4, <1>5, ArmedRests

\* All of the run's parts at the start.
LEMMA InitPath == Init => FabricInv /\ PathInv /\ ArmNeedsLinks
<1> SUFFICES ASSUME Init PROVE FabricInv /\ PathInv /\ ArmNeedsLinks
  OBVIOUS
<1>1. /\ run.reads = <<>> /\ run.approved = <<>> /\ run.taken = <<>> /\ run.arm = Nothing
      /\ board.fabric = Nothing /\ pc = 1 /\ prog \in Programs
  BY DEF Init, Blank, PowerOn
<1>2. FabricInv /\ ArmNeedsLinks
  BY <1>1 DEF FabricInv, OnAxi, ArmNeedsLinks
<1>3. Envelopes \in Nat /\ DOMAIN prog.script = 1..Len(prog.script) /\ Guarded(prog) /\ Len(prog.script) \in Nat
  BY <1>1, BoardRunAssumption
<1>4. ASSUME NEW i \in DOMAIN prog.script, prog.script[i].op = "write" PROVE prog.script[i].env \in Envs
  BY <1>3, <1>4 DEF Guarded
<1>5. \A i \in DOMAIN prog.script : ~(i < 1) /\ (prog.script[i].op = "write" => ~(prog.script[i].env <= 0))
  BY <1>3, <1>4 DEF Envs
<1>6. Live => Op = "load"
  BY <1>1, FirstStep DEF Live, Op
<1>7. AllPass /\ Len(run.taken) = 0 /\ DOMAIN run.approved = {}
  BY <1>1 DEF AllPass
<1>8. /\ Len(run.taken) <= Envelopes
      /\ \A i \in DOMAIN prog.script :
           prog.script[i].op = "write" => (i < pc <=> prog.script[i].env <= Len(run.taken))
  BY <1>1, <1>3, <1>5, <1>7
<1>9. PathInv
  BY <1>1, <1>5, <1>6, <1>7, <1>8 DEF PathInv
<1> QED
  BY <1>2, <1>9

\* host/l3_runner.py arm_and_score: in every script of L3 and L4 and whatever
\* the board does, nothing is armed but a candidate whose every envelope was
\* approved and transferred as approved, whose every frame read back as meant,
\* in the boot that loaded the fabric and under a ruling that was claimed.
THEOREM LinksHoldAlways == Spec => []LinksHold
<1>1. LinkInv /\ ArmNeedsLinks => LinksHold
  BY DEF LinkInv, LinksHold
<1> QED
  BY <1>1, InitLink, InitPath, TypeCorrect, StepLink, StepFabric, StepPath, StepArmed, PTL DEF Spec

-----------------------------------------------------------------------------
(* The outcome. *)

\* The key a run's provisioning writes.
KeyOf == IF prog.negative = "wrong_key" THEN "K2" ELSE "K"

\* The key of the fabric is the run's own or none, and none is missing behind
\* the step that asked STATUS for it.
GateInv ==
    /\ board.key \in {None, KeyOf} /\ board.nonce \in Nat
    /\ prog.negative = "unprovisioned" => board.key = None
    /\ Live /\ Arms /\ OnAxi /\ prog.negative # "unprovisioned" =>
         \A i \in DOMAIN prog.script : i < pc /\ prog.script[i].op = "keyed" => board.key # None

\* What the log has, and what it was taken from: a record that does not hold
\* is of a gate that failed or of a reading that was wrong, and one that holds
\* is of this very fabric, and of a gate that consumed the ARM.
OutInv ==
    /\ verdict \in {None, "PASS", "HOLD"}
    /\ outcome = None => run.control = None
    /\ run.arm = Nothing => run.score = Nothing /\ run.defect # "gate"
    /\ run.score # Nothing /\ ~ScoreRecordHolds(run.score) => run.defect \in {"gate", "misread"}
    /\ AtStep("control") => run.score # Nothing /\ verdict # None
    /\ AtStep("control") /\ OnAxi /\ ScoreRecordHolds(run.score) =>
         /\ board.fabric = prog.want /\ board.key = "K"
         /\ \E n \in Nat : run.arm = Signed(prog.want, prog.want, n) /\ board.nonce = n + 1

\* What the steps do to the key and the nonce.
LEMMA KeyMoves ==
    ASSUME TypeOK, [Next]_vars
    PROVE  \/ prog' = prog /\ board'.key = board.key /\ board'.nonce = board.nonce
           \/ (Load \/ Reset \/ NextSession) /\ board'.key = None /\ board'.nonce = 0
           \/ AtStep("provision") /\ prog' = prog /\ board'.key = KeyOf /\ board'.nonce = board.nonce
           \/ (ArmAndScore \/ NegativeControl) /\ prog' = prog /\ board'.key = board.key
              /\ (board'.nonce = board.nonce \/ board'.nonce = board.nonce + 1)
<1> USE DEF TypeOK, BoardFields
<1>1. CASE Refused \/ Killed \/ ClaimProvisionRuling \/ Keyed \/ ReadbackFrame
  BY <1>1 DEF Refused, Killed, ClaimProvisionRuling, Keyed, ReadbackFrame, Still
<1>2. CASE LinkThree \/ Phase \/ EndPcapPhase \/ AxiStop \/ Take \/ Continuity
  BY <1>2 DEF LinkThree, Phase, EndPcapPhase, AxiStop, Take, Continuity, Still
<1>3. CASE Load \/ Reset \/ NextSession
  <2>1. CASE Load
    BY <2>1 DEF Load
  <2>2. CASE Reset
    <3>1. board'.key = None /\ board'.nonce = 0
      BY <2>2 DEF Reset, PowerOn
    <3> QED
      BY <2>2, <3>1
  <2>3. CASE NextSession
    <3>1. board'.key = None /\ board'.nonce = 0
      BY <2>3 DEF NextSession, PowerOn
    <3> QED
      BY <2>3, <3>1
  <2> QED
    BY <1>3, <2>1, <2>2, <2>3
<1>4. CASE Provision
  BY <1>4 DEF Provision, Running, AtStep, Live, KeyOf
<1>5. CASE ArmAndScore
  <2>1. \E p, a : board' = Strobed(p, a)
    BY <1>5, ArmCases
  <2> QED
    BY <1>5, <2>1, ArmMoves DEF Strobed, Still
<1>6. CASE NegativeControl
  <2>1. \E p, a : board' = Strobed(p, a)
    BY <1>6 DEF NegativeControl
  <2> QED
    BY <1>6, <2>1, ControlMoves DEF Strobed, Still
<1>7. CASE StageAndReread
  <2>1. PICK s \in {Stream(Env), Garbled} : board' = Stored(DcacheOff(board), s)
    BY <1>7 DEF StageAndReread
  <2>2. board'.key = board.key /\ board'.nonce = board.nonce
    BY <2>1 DEF Stored, DcacheOff
  <2> QED
    BY <1>7, <2>2 DEF StageAndReread, Still
<1>8. CASE ExecuteWrite
  BY <1>8 DEF ExecuteWrite, Still
<1>9. CASE Corrupt
  BY <1>9, CorruptCases, CorruptMoves DEF Still
<1>10. CASE Jtag \/ Over \/ UNCHANGED vars
  BY <1>10 DEF Jtag, AskJtag, ReadDie, FileJtag, Over, vars
<1> QED
  BY <1>1, <1>2, <1>3, <1>4, <1>5, <1>6, <1>7, <1>8, <1>9, <1>10 DEF Next, Jtag

\* How a run that may arm and has its fabric got where it is.
LEMMA Onward ==
    ASSUME TypeOK, FabricInv, [Next]_vars, Live', Arms', OnAxi', ~Load
    PROVE  /\ Live /\ Arms /\ OnAxi /\ prog' = prog
           /\ pc' = pc \/ (pc' = pc + 1 /\ (Op = "keyed" => Keyed))
<1> USE DEF Answered, Running
<1>0. outcome' = None
  BY DEF Live
<1>1. CASE Reset \/ NextSession
  <2>1. ~OnAxi'
    BY <1>1, ResetMoves DEF NextSession, PowerOn, OnAxi
  <2> QED
    BY <2>1
<1>2. CASE Jtag \/ Over \/ UNCHANGED vars
  BY <1>2 DEF Jtag, AskJtag, ReadDie, FileJtag, Over, vars, Live, Arms, OnAxi, Op
<1>3. CASE StageAndReread
  BY <1>0, <1>3, StageMoves, DarkKeeps DEF AtStep, Live, Dark, Arms, OnAxi
<1>4. CASE ExecuteWrite
  BY <1>0, <1>4, WriteMoves DEF AtStep, Live, Arms
<1>5. CASE Corrupt
  BY <1>0, <1>5, CorruptMoves, DarkKeeps DEF AtStep, Live, Dark, Arms, OnAxi
<1>6. CASE Plain
  <2>1. prog' = prog /\ Arms
    BY <1>6, PlainKeeps DEF Arms
  <2>2. OnAxi
    <3>1. CASE ReadbackFrame
      BY <3>1 DEF ReadbackFrame
    <3>2. CASE ~ReadbackFrame
      BY <1>6, <3>2, DarkKeeps DEF Plain, Dark, OnAxi
    <3> QED
      BY <3>1, <3>2
  <2>3. Live /\ (pc' = pc \/ pc' = pc + 1)
    BY <1>0, <1>6, <2>1, PlainMoves, Here DEF Arms
  <2>4. Live /\ Op = "keyed" /\ pc' = pc + 1 => Keyed
    <3> USE <1>0 DEF Ended, Concluded, Closed, Live
    <3>1. CASE Refused \/ Killed \/ Load \/ ClaimProvisionRuling \/ Provision \/ ReadbackFrame
      BY <3>1 DEF Refused, Killed, Load, ClaimProvisionRuling, Provision, ReadbackFrame, TypeOK, None
    <3>2. CASE LinkThree \/ Phase \/ EndPcapPhase \/ AxiStop \/ Take \/ Continuity
      BY <3>2 DEF LinkThree, Phase, EndPcapPhase, AxiStop, Take, Continuity
    <3>3. CASE ArmAndScore \/ NegativeControl
      BY <3>3, ArmMoves, ControlMoves DEF AtStep
    <3> QED
      BY <1>6, <3>1, <3>2, <3>3 DEF Plain
  <2> QED
    BY <2>1, <2>2, <2>3, <2>4
<1> QED
  BY <1>1, <1>2, <1>3, <1>4, <1>5, <1>6 DEF Next, Plain, Jtag

\* Every step keeps it.
LEMMA StepGate == ASSUME TypeOK, FabricInv, GateInv, [Next]_vars PROVE GateInv'
<1>1. board'.key \in {None, KeyOf'} /\ board'.nonce \in Nat /\ (prog'.negative = "unprovisioned" => board'.key = None)
  <2>1. AtStep("provision") => prog.negative # "unprovisioned"
    BY ScriptOf DEF AtStep, Live, Op, Guarded
  <2> QED
    BY <2>1, KeyMoves DEF GateInv, KeyOf
<1>2. ASSUME Live', Arms', OnAxi', prog'.negative # "unprovisioned",
             NEW i \in DOMAIN prog'.script, i < pc', prog'.script[i].op = "keyed"
      PROVE  board'.key # None
  <2>1. CASE Load
    <3>1. Live /\ Op = "load" /\ prog' = prog /\ pc' = pc + 1
      BY <2>1 DEF Load, Answered, Running, Live, Still, Going
    <3>2. pc = 1 /\ DOMAIN prog.script = 1..Len(prog.script)
      BY <3>1, ScriptOf DEF Live, Ordered, Op
    <3>3. i = pc
      BY <1>2, <3>1, <3>2
    <3> QED
      BY <1>2, <3>1, <3>3 DEF Op
  <2>2. CASE ~Load
    <3>1. /\ Live /\ Arms /\ OnAxi /\ prog' = prog
          /\ pc' = pc \/ (pc' = pc + 1 /\ (Op = "keyed" => Keyed))
      BY <1>2, <2>2, Onward
    <3>2. board.key # None => board'.key # None
      <4>1. ~Reset /\ ~NextSession
        BY <1>2, ResetMoves DEF NextSession, PowerOn, OnAxi
      <4> QED
        BY <2>2, <4>1, KeyMoves DEF KeyOf, None
    <3>3. CASE i < pc
      BY <1>2, <3>1, <3>2, <3>3 DEF GateInv
    <3>4. CASE ~(i < pc)
      <4>1. DOMAIN prog.script = 1..Len(prog.script) /\ pc \in Nat
        BY ScriptOf DEF TypeOK
      <4>2. i = pc /\ pc' = pc + 1
        BY <1>2, <3>1, <3>4, <4>1
      <4>3. Keyed /\ outcome' = None
        <5>1. Op = "keyed"
          BY <1>2, <3>1, <4>2 DEF Op
        <5>2. outcome' = None
          BY <1>2 DEF Live
        <5>3. pc' # pc
          BY <4>1, <4>2
        <5> QED
          BY <3>1, <5>1, <5>2, <5>3
      <4>4. board' = board /\ board.key # None
        BY <1>2, <3>1, <4>3 DEF Keyed, Ended, Concluded, Closed, None
      <4> QED
        BY <4>4
    <3> QED
      BY <3>3, <3>4
  <2> QED
    BY <2>1, <2>2
<1> QED
  BY <1>1, <1>2 DEF GateInv

\* The fault the gate owes to what the runner carries to it.
LEMMA SentFault ==
    /\ board.key = None => FaultOf(Sent) = "F_KEY"
    /\ board.key = "K2" => FaultOf(Sent) = "F_ARM_AUTH"
    /\ board.key = "K" => FaultOf(Sent) = IF board.fabric = prog.want THEN None ELSE "F_ARM_TABLE"
<1>1. /\ Sent.commit = prog.want /\ Sent.tables = prog.want
      /\ Sent.tag = Tag("K", prog.want, prog.want, board.nonce)
  BY DEF Sent, Signed, Payload
<1>2. Tag("K2", prog.want, prog.want, board.nonce) # Tag("K", prog.want, prog.want, board.nonce)
  <2>1. \A k : Tag(k, prog.want, prog.want, board.nonce).key = k
    BY DEF Tag
  <2> QED
    BY <2>1
<1> QED
  BY <1>1, <1>2 DEF FaultOf, None

\* A control before the ARM is owed its fault.
LEMMA PreFault ==
    ASSUME TypeOK, GateInv, AtStep("arm"), OnAxi, prog.negative \in PreControls
    PROVE  FaultOf(Sent) = ExpectedFault(prog.negative)
<1>1. CASE prog.negative = "unprovisioned"
  BY <1>1, SentFault DEF GateInv, ExpectedFault
<1>2. CASE prog.negative = "wrong_key"
  <2>1. Live /\ Op = "arm" /\ Arms
    BY Here DEF AtStep
  <2>2. /\ pc \in 1..Len(prog.script) /\ DOMAIN prog.script = 1..Len(prog.script) /\ Len(prog.script) \in Nat
        /\ Guarded(prog) /\ prog.script[pc].op = "arm"
    BY <2>1, ScriptOf DEF Live, Op
  <2>3. \E j \in 1..(pc - 1) : prog.script[j] = Step("keyed", 0)
    BY <1>2, <2>2 DEF Guarded
  <2>4. PICK j \in 1..(pc - 1) : prog.script[j] = Step("keyed", 0)
    BY <2>3
  <2>5. j \in DOMAIN prog.script /\ j < pc /\ prog.script[j].op = "keyed"
    BY <2>2, <2>4 DEF Step
  <2>6. board.key # None
    BY <1>2, <2>1, <2>5 DEF GateInv
  <2>7. board.key = "K2"
    BY <1>2, <2>6 DEF GateInv, KeyOf
  <2> QED
    BY <1>2, <2>7, SentFault DEF ExpectedFault
<1> QED
  BY <1>1, <1>2 DEF PreControls

\* A control after a score that holds is owed its fault.
LEMMA ControlFault ==
    ASSUME board.key = "K", board.fabric = prog.want, prog.want # BlankCandidate,
           NEW n \in Nat, run.arm = Signed(prog.want, prog.want, n), board.nonce = n + 1,
           prog.negative \in PostControls
    PROVE  FaultOf(ControlPayload(prog.negative)) = ExpectedFault(prog.negative)
<1> DEFINE w == prog.want
           B == BlankCandidate
           p == ControlPayload(prog.negative)
           T(c, t, m) == Tag("K", c, t, m)
<1>1. \A c, t, m : T(c, t, m).commit = c /\ T(c, t, m).tables = t /\ T(c, t, m).nonce = m /\ T(c, t, m) # Nothing
  BY DEF Tag, Nothing
<1>2. \A c, t, m : /\ Signed(c, t, m).commit = c /\ Signed(c, t, m).tables = t /\ Signed(c, t, m).tag = T(c, t, m)
                   /\ [Signed(c, t, m) EXCEPT !.commit = w].commit = w
                   /\ [Signed(c, t, m) EXCEPT !.commit = w].tables = t
                   /\ [Signed(c, t, m) EXCEPT !.commit = w].tag = T(c, t, m)
  BY DEF Signed, Payload
<1>3. FaultOf(p) = IF p.tag # T(p.commit, p.tables, board.nonce) THEN "F_ARM_AUTH"
                   ELSE IF p.tables # w THEN "F_ARM_TABLE" ELSE None
  BY DEF FaultOf, None
<1>4. CASE prog.negative = "unsigned"
  <2>1. p.tag = Nothing
    BY <1>4 DEF ControlPayload, Payload
  <2> QED
    BY <1>1, <1>3, <1>4, <2>1 DEF ExpectedFault
<1>5. CASE prog.negative = "replay"
  <2>1. p = Signed(w, w, n)
    BY <1>5 DEF ControlPayload
  <2>2. p.tag = T(w, w, n) /\ p.tag.nonce = n
    BY <1>1, <1>2, <2>1
  <2>3. p.tag # T(p.commit, p.tables, board.nonce)
    BY <1>1, <2>2
  <2> QED
    BY <1>3, <1>5, <2>3 DEF ExpectedFault
<1>6. CASE prog.negative = "other_candidate"
  <2>1. p = [Signed(B, B, board.nonce) EXCEPT !.commit = w]
    BY <1>6 DEF ControlPayload
  <2>2. p.commit = w /\ p.tables = B /\ p.tag = T(B, B, board.nonce)
    BY <1>2, <2>1
  <2>3. p.tag # T(p.commit, p.tables, board.nonce)
    BY <1>1, <2>2
  <2> QED
    BY <1>3, <1>6, <2>3 DEF ExpectedFault
<1>7. CASE prog.negative = "wrong_table"
  <2>1. p = Signed(B, B, board.nonce)
    BY <1>7 DEF ControlPayload
  <2>2. p.commit = B /\ p.tables = B /\ p.tag = T(B, B, board.nonce)
    BY <1>2, <2>1
  <2> QED
    BY <1>3, <1>7, <2>2 DEF ExpectedFault
<1> QED
  BY <1>4, <1>5, <1>6, <1>7 DEF PostControls

\* A score that is logged after the gate was read as valid: when its record
\* holds the gate did validate the candidate, and consumed its nonce.
LEMMA ScoreIs ==
    ASSUME TypeOK, GateInv, prog.negative \notin PreControls, NEW g \in Shown(Sent),
           g.seen.stepped, g.seen.fault = None, NEW r \in Records(Sent, g.defect)
    PROVE  /\ ScoreRecordHolds(r.score) =>
                board.fabric = prog.want /\ board.key = "K" /\ g.real.stepped /\ g.real.fault = None
           /\ ~ScoreRecordHolds(r.score) => r.defect \in {"gate", "misread"}
           /\ r.score # Nothing
<1>1. \/ g.real.fault = FaultOf(Sent) /\ g.real.stepped = TRUE /\ g.seen = g.real /\ g.defect = run.defect
      \/ run.defect = None /\ g.defect = "gate" /\ g.seen = g.real
      \/ run.defect = None /\ g.defect = "misread" /\ g.real.fault = FaultOf(Sent) /\ g.real.stepped = TRUE
  BY ShownIs
<1>2. /\ r.score # Nothing
      /\ \/ r.score = ScoreRecord(Sent.commit, board.fabric, board.key # None) /\ r.defect = g.defect
         \/ g.defect = None /\ r.defect = "misread"
  BY RecordsAre
<1>3. board.key \in {None, "K"} /\ Sent.commit = prog.want
  BY DEF GateInv, KeyOf, PreControls, Sent, Signed, Payload
<1>4. FaultOf(Sent) = None <=> board.key = "K" /\ board.fabric = prog.want
  BY <1>3, SentFault DEF None
<1>5. \A c, t, k : ScoreRecordHolds(ScoreRecord(c, t, k)) <=> c = prog.want /\ t = prog.want /\ k = TRUE
  <2>1. \A c, t, k : /\ ScoreRecord(c, t, k).commit = c /\ ScoreRecord(c, t, k).tables = t
                     /\ ScoreRecord(c, t, k).keyed = k
    BY DEF ScoreRecord
  <2> TAKE c, t, k
  <2>2. CASE c = prog.want /\ t = prog.want /\ k = TRUE
    BY <2>2 DEF ScoreRecordHolds
  <2>3. CASE ScoreRecord(c, t, k) = ScoreRecord(prog.want, prog.want, TRUE)
    <3>1. /\ ScoreRecord(c, t, k).commit = c /\ ScoreRecord(c, t, k).tables = t
          /\ ScoreRecord(c, t, k).keyed = k
      BY <2>1
    <3>2. /\ ScoreRecord(prog.want, prog.want, TRUE).commit = prog.want
          /\ ScoreRecord(prog.want, prog.want, TRUE).tables = prog.want
          /\ ScoreRecord(prog.want, prog.want, TRUE).keyed = TRUE
      BY DEF ScoreRecord
    <3>3. c = prog.want /\ t = prog.want /\ k = TRUE
      BY ONLY <2>3, <3>1, <3>2
    <3> QED
      BY <2>3, <3>3 DEF ScoreRecordHolds
  <2> QED
    BY <2>2, <2>3 DEF ScoreRecordHolds
<1>7. CASE r.score = ScoreRecord(Sent.commit, board.fabric, board.key # None) /\ r.defect = g.defect
  <2>0. ((board.key # None) = TRUE) <=> board.key # None
    OBVIOUS
  <2>1. ScoreRecordHolds(r.score) <=> board.fabric = prog.want /\ board.key # None
    <3>1. ScoreRecordHolds(ScoreRecord(Sent.commit, board.fabric, board.key # None))
            <=> Sent.commit = prog.want /\ board.fabric = prog.want /\ (board.key # None) = TRUE
      BY <1>5
    <3> QED
      BY <1>3, <1>7, <2>0, <3>1
  <2>2. ScoreRecordHolds(r.score) => FaultOf(Sent) = None /\ board.key = "K" /\ board.fabric = prog.want
    BY <1>3, <1>4, <2>1
  <2>3. ~ScoreRecordHolds(r.score) => FaultOf(Sent) # None
    BY <1>4, <2>1 DEF None
  <2> QED
    BY <1>1, <1>2, <1>7, <2>2, <2>3 DEF None
<1>8. CASE g.defect = None /\ r.defect = "misread"
  <2>1. g.real.fault = FaultOf(Sent) /\ g.real.stepped = TRUE /\ g.seen = g.real
    BY <1>1, <1>8 DEF None
  <2> QED
    BY <1>2, <1>4, <1>8, <2>1
<1> QED
  BY <1>2, <1>7, <1>8

\* The step before a control is the ARM, or it is the control still.
LEMMA BeforeControl ==
    ASSUME TypeOK, [Next]_vars, AtStep("control")'
    PROVE  \/ ArmAndScore
           \/ AtStep("control") /\ prog' = prog /\ (NegativeControl \/ Reset \/ Jtag \/ Over \/ UNCHANGED vars)
<1>0. Live' /\ Op' = "control" /\ outcome' = None
  BY DEF AtStep, Live
<1>1. TypeOK'
  BY StepType
<1>2. ASSUME Live, pc' = pc + 1, prog' = prog PROVE Arms /\ Op = "arm"
  <2>1. /\ Guarded(prog) /\ Shaped(prog) /\ pc + 1 \in 1..Len(prog.script) /\ (pc + 1) - 1 = pc
        /\ prog.script[pc + 1].op = "control"
    BY <1>0, <1>2, ScriptOf DEF Live, Op
  <2>2. prog.negative \in PostControls /\ prog.script[pc].op = "arm"
    BY <2>1 DEF Guarded
  <2>3. prog.negative # None
    BY <2>2 DEF PostControls, None
  <2> QED
    BY <2>1, <2>2, <2>3 DEF Shaped, Arms, Op
<1>3. CASE Plain
  <2>1. prog' = prog
    BY <1>3, PlainKeeps
  <2>2. CASE Live /\ Op = "control" /\ pc' = pc
    <3>1. NegativeControl
      BY <1>0, <1>3, <2>2 DEF Plain, Refused, Killed, Load, ClaimProvisionRuling, Provision, Keyed, ReadbackFrame,
         LinkThree, Phase, EndPcapPhase, ArmAndScore, AxiStop, Take, Continuity, Answered, Running, Ended, Concluded, Closed, None
    <3> QED
      BY <2>1, <2>2, <3>1 DEF AtStep
  <2>3. CASE Live /\ pc' = pc + 1
    BY <1>0, <1>2, <1>3, <2>1, <2>3, PlainWhich
  <2>4. CASE Live /\ Op = "phase" /\ pc' = Len(prog.script) - Envelopes
    BY <1>0, <2>1, <2>4, LastStep DEF AtStep
  <2> QED
    BY <1>0, <1>3, <2>2, <2>3, <2>4, PlainMoves
<1>4. CASE StageAndReread
  BY <1>0, <1>2, <1>4, StageMoves DEF AtStep
<1>5. CASE ExecuteWrite
  BY <1>0, <1>2, <1>5, WriteMoves DEF AtStep
<1>6. CASE Corrupt
  BY <1>0, <1>2, <1>6, CorruptMoves DEF AtStep, Still
<1>7. CASE Reset
  BY <1>0, <1>7, ResetMoves DEF AtStep, Live, Op
<1>8. CASE NextSession
  <2>1. prog' \in Programs /\ pc' = 1
    BY <1>8, SessionMoves
  <2> QED
    BY <1>0, <2>1, FirstStep DEF Live, Op
<1>9. CASE Jtag \/ Over \/ UNCHANGED vars
  <2>1. UNCHANGED <<prog, pc, outcome>>
    BY <1>9 DEF Jtag, AskJtag, ReadDie, FileJtag, Over, vars
  <2> QED
    BY <1>0, <1>9, <2>1 DEF AtStep, Live, Op
<1> QED
  BY <1>3, <1>4, <1>5, <1>6, <1>7, <1>8, <1>9 DEF Next, Plain, Jtag

\* What is concluded stays as it was.
LEMMA OverRests ==
    ASSUME outcome # None, [Next]_vars
    PROVE  \/ NextSession
           \/ UNCHANGED <<board, prog, pc, run, verdict, outcome, sealed>>
<1>1. CASE Reset \/ Refused \/ Killed \/ Load \/ ClaimProvisionRuling \/ Provision \/ Keyed
  BY <1>1 DEF Reset, Refused, Killed, Load, ClaimProvisionRuling, Provision, Keyed, Answered, Running
<1>2. CASE StageAndReread \/ ExecuteWrite \/ Corrupt \/ ReadbackFrame \/ LinkThree \/ Phase \/ EndPcapPhase
  BY <1>2 DEF StageAndReread, ExecuteWrite, Corrupt, ReadbackFrame, LinkThree, Phase, EndPcapPhase,
     Answered, Running
<1>3. CASE ArmAndScore \/ NegativeControl \/ AxiStop \/ Take \/ Continuity
  BY <1>3 DEF ArmAndScore, NegativeControl, AxiStop, Take, Continuity, Answered, Running
<1>4. CASE Jtag \/ Over \/ UNCHANGED vars
  BY <1>4 DEF Jtag, AskJtag, ReadDie, FileJtag, Over, vars
<1> QED
  BY <1>1, <1>2, <1>3, <1>4 DEF Next, Jtag

\* The steps that leave the log alone.
LEMMA LogKeeps ==
    ASSUME TypeOK, [Next]_vars, ~ArmAndScore, ~NegativeControl, ~NextSession
    PROVE  /\ prog' = prog /\ verdict' = verdict
           /\ run'.score = run.score /\ run'.control = run.control /\ run'.arm = run.arm
           /\ Corrupt \/ run'.defect = run.defect
<1> USE DEF TypeOK, RunFields
<1>1. CASE Refused \/ Killed \/ Load \/ ClaimProvisionRuling \/ Provision \/ Keyed
  BY <1>1 DEF Refused, Killed, Load, ClaimProvisionRuling, Provision, Keyed, Still, SameBooks
<1>2. CASE StageAndReread \/ ExecuteWrite \/ ReadbackFrame
  BY <1>2 DEF StageAndReread, ExecuteWrite, ReadbackFrame, Still
<1>3. CASE LinkThree \/ Phase \/ EndPcapPhase \/ AxiStop \/ Take \/ Continuity
  BY <1>3 DEF LinkThree, Phase, EndPcapPhase, AxiStop, Take, Continuity, Still, SameBooks
<1>4. CASE Corrupt
  BY <1>4, CorruptMoves DEF Corrupt, Still
<1>5. CASE Reset \/ Jtag \/ Over \/ UNCHANGED vars
  BY <1>5 DEF Reset, Jtag, AskJtag, ReadDie, FileJtag, Over, vars
<1> QED
  BY <1>1, <1>2, <1>3, <1>4, <1>5 DEF Next, Jtag

\* The ARM leaves a log of its own.
LEMMA ArmOut == ASSUME TypeOK, GateInv, OutInv, ArmAndScore PROVE OutInv'
<1>1. AtStep("arm") /\ prog' = prog /\ run'.arm = Sent /\ board'.fabric = board.fabric /\ board'.key = board.key
  BY ArmMoves DEF Still
<1>2. Sent # Nothing /\ run'.arm # Nothing
  BY <1>1 DEF Sent, Signed, Payload, Nothing
<1>3. PICK g \in Shown(Sent) : board' = Strobed(Sent, g.real) /\ ArmEnds(g)
  BY ArmCases
<1>4. CASE outcome' # None /\ run'.score = Nothing /\ verdict' = verdict
  BY <1>2, <1>4 DEF OutInv, AtStep, Live
<1>5. ASSUME prog.negative \notin PreControls, g.seen.stepped, g.seen.fault = None,
             NEW r \in Records(Sent, g.defect), NEW v \in {"PASS", "HOLD"},
             run' = [run EXCEPT !.arm = Sent, !.score = r.score, !.control = None, !.defect = r.defect],
             IF prog.negative \in PostControls THEN Going /\ verdict' = v ELSE Concluded(v, run') /\ UNCHANGED verdict
      PROVE  OutInv'
  <2>1. run'.score = r.score /\ run'.control = None /\ run'.defect = r.defect
    BY <1>5 DEF TypeOK, RunFields
  <2>2. /\ ScoreRecordHolds(r.score) =>
             board.fabric = prog.want /\ board.key = "K" /\ g.real.stepped /\ g.real.fault = None
        /\ ~ScoreRecordHolds(r.score) => r.defect \in {"gate", "misread"}
        /\ r.score # Nothing
    BY <1>5, ScoreIs
  <2>4. verdict' \in {None, "PASS", "HOLD"} /\ (outcome' = None => verdict' # None)
    BY <1>5 DEF OutInv, Concluded, Closed, None
  <2>5. board.nonce \in Nat /\ Sent = Signed(prog.want, prog.want, board.nonce)
    BY DEF GateInv, Sent
  <2>6. g.real.stepped => board'.nonce = board.nonce + 1
    BY <1>3 DEF Strobed, TypeOK, BoardFields
  <2>8. ScoreRecordHolds(r.score) =>
          /\ board'.fabric = prog'.want /\ board'.key = "K"
          /\ \E n \in Nat : run'.arm = Signed(prog'.want, prog'.want, n) /\ board'.nonce = n + 1
    BY <1>1, <2>2, <2>5, <2>6
  <2>9. Signed(prog.want, prog.want, board.nonce)' = Signed(prog'.want, prog'.want, board'.nonce)
    BY DEF Signed, Payload
  <2> QED
    BY <1>1, <1>2, <2>1, <2>2, <2>4, <2>8 DEF OutInv, AtStep, Live, ScoreRecordHolds
<1> QED
  <2>1. \/ outcome' # None /\ run'.score = Nothing /\ verdict' = verdict
        \/ /\ prog.negative \notin PreControls /\ g.seen.stepped /\ g.seen.fault = None
           /\ \E r \in Records(Sent, g.defect), v \in {"PASS", "HOLD"} :
                /\ run' = [run EXCEPT !.arm = Sent, !.score = r.score, !.control = None, !.defect = r.defect]
                /\ IF prog.negative \in PostControls THEN Going /\ verdict' = v
                   ELSE Concluded(v, run') /\ UNCHANGED verdict
    BY <1>3 DEF ArmEnds, Ended, Concluded, Closed, OfControl, TypeOK, RunFields, None
  <2> QED
    BY <1>4, <1>5, <2>1

\* A control ends the run.
LEMMA ControlEnds ==
    ASSUME TypeOK, OutInv, NegativeControl
    PROVE  outcome' # None
<1>1. AtStep("control") /\ verdict # None
  BY ControlMoves DEF OutInv
<1>2. \E f, r : Concluded("CRASHED", r) \/ Concluded(OfControl(f, verdict), r)
  BY DEF NegativeControl
<1> QED
  BY <1>1, <1>2 DEF Concluded, Closed, OfControl, OutInv, None

\* Every step keeps it.
LEMMA StepOut == ASSUME TypeOK, FabricInv, PathInv, GateInv, OutInv, [Next]_vars PROVE OutInv'
<1>1. CASE ArmAndScore
  BY <1>1, ArmOut
<1>2. CASE NegativeControl
  <2>1. /\ AtStep("control") /\ prog' = prog /\ verdict' = verdict
        /\ run'.arm = run.arm /\ run'.score = run.score /\ outcome' # None
    BY <1>2, ControlMoves, ControlEnds DEF Still
  <2>2. run.arm # Nothing
    BY <2>1 DEF OutInv
  <2>3. run.defect \in {"gate", "misread"} => run'.defect = run.defect
    <3>1. PICK p : \E g \in Shown(p) : run'.defect = g.defect
      BY <1>2 DEF NegativeControl, TypeOK, RunFields
    <3> QED
      BY <3>1, ShownIs DEF None
  <2> QED
    BY <2>1, <2>2, <2>3 DEF OutInv, AtStep, Live, ScoreRecordHolds
<1>3. CASE NextSession
  <2>1. run' = Blank /\ verdict' = None /\ pc' = 1 /\ prog' \in Programs
    BY <1>3 DEF NextSession
  <2>2. ~AtStep("control")'
    BY <2>1, FirstStep DEF AtStep, Live, Op
  <2> QED
    BY <2>1, <2>2 DEF OutInv, Blank, None
<1>4. CASE ~ArmAndScore /\ ~NegativeControl /\ ~NextSession
  <2>1. /\ prog' = prog /\ verdict' = verdict
        /\ run'.score = run.score /\ run'.control = run.control /\ run'.arm = run.arm
        /\ Corrupt \/ run'.defect = run.defect
    BY <1>4, LogKeeps
  <2>2. outcome' = None => outcome = None
    BY <1>4, OverRests
  <2>3. CASE Corrupt
    <3>1. AtStep("corrupt") /\ Arms
      BY <2>3, CorruptMoves, Here DEF AtStep, Arms
    <3>2. run.arm = Nothing
      BY <3>1 DEF PathInv, AtStep
    <3>3. run'.defect # "gate"
      <4>1. \A w \in Ways : w.defect # "gate"
        BY DEF Ways, Way, None
      <4>2. PICK w \in Ways : run' = [run EXCEPT !.reread = w.reread, !.defect = w.defect]
        BY <2>3, CorruptCases
      <4> QED
        BY <4>1, <4>2 DEF TypeOK, RunFields
    <3>4. ~AtStep("control")'
      BY <1>4, <2>3, <3>1, BeforeControl DEF AtStep
    <3> QED
      BY <2>1, <2>2, <3>2, <3>3, <3>4 DEF OutInv
  <2>4. CASE ~Corrupt
    <3>1. AtStep("control")' =>
            AtStep("control") /\ (Reset \/ Jtag \/ Over \/ UNCHANGED vars)
      BY <1>4, BeforeControl
    <3>2. AtStep("control")' /\ OnAxi' => OnAxi /\ UNCHANGED <<board, run>>
      <4>1. Reset => ~OnAxi'
        BY ResetMoves
      <4> QED
        BY <3>1, <4>1 DEF Jtag, AskJtag, ReadDie, FileJtag, Over, vars, OnAxi
    <3>3. run'.defect = run.defect
      BY <2>1, <2>4
    <3>4. ScoreRecordHolds(run.score)' <=> ScoreRecordHolds(run.score)
      BY <2>1 DEF ScoreRecordHolds
    <3>5. /\ run'.arm = Nothing => run'.score = Nothing /\ run'.defect # "gate"
          /\ run'.score # Nothing /\ ~ScoreRecordHolds(run.score)' => run'.defect \in {"gate", "misread"}
      BY <2>1, <3>3, <3>4 DEF OutInv
    <3>6. AtStep("control")' => run'.score # Nothing /\ verdict' # None
      BY <2>1, <3>1 DEF OutInv
    <3>7. AtStep("control")' /\ OnAxi' /\ ScoreRecordHolds(run.score)' =>
            /\ board'.fabric = prog'.want /\ board'.key = "K"
            /\ \E n \in Nat : run'.arm = Signed(prog'.want, prog'.want, n) /\ board'.nonce = n + 1
      <4> SUFFICES ASSUME AtStep("control")', OnAxi', ScoreRecordHolds(run.score)'
                   PROVE  /\ board'.fabric = prog'.want /\ board'.key = "K"
                          /\ \E n \in Nat : run'.arm = Signed(prog'.want, prog'.want, n) /\ board'.nonce = n + 1
        OBVIOUS
      <4>1. AtStep("control") /\ OnAxi /\ ScoreRecordHolds(run.score) /\ board' = board
        BY <3>1, <3>2, <3>4
      <4>2. /\ board.fabric = prog.want /\ board.key = "K"
            /\ \E n \in Nat : run.arm = Signed(prog.want, prog.want, n) /\ board.nonce = n + 1
        BY <4>1 DEF OutInv
      <4> QED
        BY <2>1, <4>1, <4>2
    <3> QED
      BY <2>1, <2>2, <3>5, <3>6, <3>7 DEF OutInv
  <2> QED
    BY <2>3, <2>4
<1> QED
  BY <1>1, <1>2, <1>3, <1>4

\* Any other end is what it says, or the log it leaves is rejected.
LEMMA OthersEnd ==
    ASSUME outcome = None, [Next]_vars, ~Corrupt, ~ArmAndScore, ~NegativeControl
    PROVE  /\ outcome' = "KILL" => ~LogHolds(run)
           /\ outcome' \in {"PASS", "HOLD"} => Continuity \/ Take
<1> USE DEF Ended, Concluded, Closed, Going, None
<1>1. CASE Reset \/ NextSession \/ Jtag \/ Over \/ UNCHANGED vars
  BY <1>1 DEF Reset, NextSession, Jtag, AskJtag, ReadDie, FileJtag, Over, vars
<1>2. CASE Refused \/ Killed \/ Load \/ ClaimProvisionRuling \/ Provision \/ Keyed
  BY <1>2 DEF Refused, Killed, Load, ClaimProvisionRuling, Provision, Keyed
<1>3. CASE StageAndReread \/ ExecuteWrite \/ ReadbackFrame \/ LinkThree \/ Phase \/ EndPcapPhase
  BY <1>3 DEF StageAndReread, ExecuteWrite, ReadbackFrame, LinkThree, Phase, EndPcapPhase
<1>4. CASE AxiStop \/ Take \/ Continuity
  BY <1>4 DEF AxiStop, Take, Continuity
<1> QED
  BY <1>1, <1>2, <1>3, <1>4 DEF Next, Jtag

\* L4 speaks of a corruption that lies in the buffer, or was lost.
LEMMA CorruptConcludes ==
    ASSUME TypeOK, Corrupt
    PROVE  PassIsVerified' /\ KillIsReal'
<1>1. AtStep("corrupt") /\ prog' = prog /\ prog.kind = "L4" /\ outcome = None
  BY CorruptMoves, Here DEF AtStep, Still, Live
<1>2. PICK w \in Ways :
        /\ board'.ddr = w.ddr /\ board'.done = w.done
        /\ run' = [run EXCEPT !.reread = w.reread, !.defect = w.defect]
        /\ IF w.reread = Stream(1) \/ w.done THEN Ended("KILL") ELSE Going
  BY CorruptCases
<1>3. run'.reread = w.reread /\ run'.defect = w.defect
  BY <1>2 DEF TypeOK, RunFields
<1>4. Stream(1)' = Stream(1) /\ Garbled # Stream(1)
  BY <1>1 DEF Stream, Garbled
<1>5. IF w.reread = Stream(1) \/ w.done THEN outcome' = "KILL" ELSE outcome' = None
  BY <1>1, <1>2 DEF Ended, Concluded, Closed, Going
<1>6. w.reread = Stream(1) \/ w.done =>
        w.defect = "lost" \/ (w.ddr # Stream(1) /\ (w.reread = Stream(1) \/ w.done))
  BY <1>4 DEF Ways, Way
<1> QED
  BY <1>1, <1>2, <1>3, <1>4, <1>5, <1>6 DEF PassIsVerified, KillIsReal, None

\* What L3 and L4 conclude of the ARM is so.
LEMMA ArmConcludes ==
    ASSUME TypeOK, FabricInv, PathInv, GateInv, OutInv, ArmAndScore
    PROVE  PassIsVerified' /\ KillIsReal'
<1>1. /\ AtStep("arm") /\ OnAxi /\ prog' = prog /\ run'.arm = Sent /\ run'.home = run.home
      /\ board'.fabric = board.fabric /\ board'.key = board.key /\ board'.boot = board.boot
  BY ArmMoves DEF Still
<1>2. Sent # Nothing
  BY DEF Sent, Signed, Payload, Nothing
<1>3. PICK g \in Shown(Sent) : board' = Strobed(Sent, g.real) /\ ArmEnds(g)
  BY ArmCases
<1>4. board'.fault = g.real.fault /\ board'.armed = IF g.real.fault = None THEN Sent ELSE Nothing
  BY <1>3 DEF Strobed, TypeOK, BoardFields
<1>5. outcome = None /\ Arms /\ Marked /\ run.arm = Nothing /\ prog.kind # "L2" /\ Shaped(prog)
  <2>1. Live /\ Op = "arm" /\ Arms /\ Marked
    BY <1>1, Here DEF AtStep, FabricInv
  <2> QED
    BY <2>1, ScriptOf DEF Live, PathInv, Arms
<1>6. Marked' /\ LogHolds(run)
  BY <1>1, <1>5 DEF Marked, LogHolds, OutInv
<1>7. CASE Ended("STOP")
  BY <1>6, <1>7 DEF Ended, Concluded, Closed, PassIsVerified, KillIsReal
<1>8. CASE /\ prog.negative \in PreControls
           /\ run' = [run EXCEPT !.arm = Sent, !.score = Nothing, !.control = g.seen.fault, !.defect = g.defect]
           /\ Concluded(OfControl(g.seen.fault, "PASS"), run')
  <2>1. run'.score = Nothing /\ run'.control = g.seen.fault /\ run'.defect = g.defect
    BY <1>8 DEF TypeOK, RunFields
  <2>2. FaultOf(Sent) = ExpectedFault(prog.negative) /\ ExpectedFault(prog.negative) # None
    BY <1>1, <1>8, PreFault DEF ExpectedFault, None
  <2>3. LogHolds(run') <=> g.seen.fault = None \/ g.seen.fault = ExpectedFault(prog.negative)
    BY <2>1 DEF LogHolds
  <2>4. outcome' = IF g.seen.fault = ExpectedFault(prog.negative) THEN "PASS" ELSE "KILL"
    BY <1>8, <2>2, <2>3 DEF Concluded, Closed, OfControl
  <2>5. \/ g.real.fault = ExpectedFault(prog.negative) /\ g.seen.fault = g.real.fault
        \/ g.defect = "gate" /\ g.seen = g.real
        \/ g.defect = "misread" /\ g.real.fault = ExpectedFault(prog.negative)
    BY <2>2, ShownIs
  <2>6. outcome' = "PASS" => g.real.fault = ExpectedFault(prog.negative)
    BY <2>4, <2>5
  <2>7. outcome' = "KILL" => g.defect \in {"gate", "misread"}
    BY <2>4, <2>5
  <2>8. PassIsVerified'
    BY <1>1, <1>4, <1>5, <1>8, <2>2, <2>4, <2>6 DEF PassIsVerified
  <2>9. KillIsReal'
    BY <1>1, <1>2, <2>1, <2>7 DEF KillIsReal
  <2> QED
    BY <2>8, <2>9
<1>9. ASSUME prog.negative \notin PreControls, g.seen.stepped, g.seen.fault = None,
             NEW r \in Records(Sent, g.defect), NEW v \in {"PASS", "HOLD"},
             run' = [run EXCEPT !.arm = Sent, !.score = r.score, !.control = None, !.defect = r.defect],
             IF prog.negative \in PostControls THEN Going /\ verdict' = v ELSE Concluded(v, run') /\ UNCHANGED verdict
      PROVE  PassIsVerified' /\ KillIsReal'
  <2>1. run'.score = r.score /\ run'.control = None /\ run'.defect = r.defect
    BY <1>9 DEF TypeOK, RunFields
  <2>2. /\ ScoreRecordHolds(r.score) =>
             board.fabric = prog.want /\ board.key = "K" /\ g.real.stepped /\ g.real.fault = None
        /\ ~ScoreRecordHolds(r.score) => r.defect \in {"gate", "misread"}
        /\ r.score # Nothing
    BY <1>9, ScoreIs
  <2>3. CASE prog.negative \in PostControls
    BY <1>5, <1>9, <2>3 DEF Going, PassIsVerified, KillIsReal, None
  <2>4. CASE prog.negative \notin PostControls
    <3>1. prog.negative = None /\ None \notin PreControls
      BY <1>5, <1>9, <2>4 DEF Shaped, PreControls, None
    <3>2. outcome' = IF ScoreRecordHolds(r.score) THEN v ELSE "KILL"
      BY <1>9, <2>1, <2>2, <2>4 DEF Concluded, Closed, LogHolds
    <3>3. PassIsVerified'
      BY <1>1, <1>4, <1>5, <1>6, <2>2, <3>1, <3>2 DEF PassIsVerified
    <3>4. KillIsReal'
      BY <1>1, <1>2, <2>1, <2>2, <3>2 DEF KillIsReal
    <3> QED
      BY <3>3, <3>4
  <2> QED
    BY <2>3, <2>4
<1> QED
  BY <1>3, <1>7, <1>8, <1>9 DEF ArmEnds

\* What L3 concludes of its control is so.
LEMMA ControlConcludes ==
    ASSUME TypeOK, FabricInv, OutInv, GateInv, NegativeControl
    PROVE  PassIsVerified' /\ KillIsReal'
<1> DEFINE p == ControlPayload(prog.negative)
           expected == ExpectedFault(prog.negative)
<1>1. /\ AtStep("control") /\ OnAxi /\ prog' = prog /\ run'.arm = run.arm /\ run'.home = run.home
      /\ run'.score = run.score
      /\ board'.fabric = board.fabric /\ board'.key = board.key /\ board'.boot = board.boot
  BY ControlMoves DEF Still
<1>2. PICK g \in Shown(p) :
        /\ board' = Strobed(p, g.real)
        /\ run' = [run EXCEPT !.control = IF g.seen.fault = expected /\ ~g.seen.stepped THEN None ELSE g.seen.fault,
                              !.defect = g.defect]
        /\ Concluded(IF g.seen.fault = expected /\ ~g.seen.stepped THEN "CRASHED"
                     ELSE OfControl(g.seen.fault, verdict), run')
  BY DEF NegativeControl
<1>3. board'.fault = g.real.fault /\ (g.real.fault # None => board'.armed = Nothing)
  BY <1>2 DEF Strobed, TypeOK, BoardFields
<1>4. /\ run'.control = IF g.seen.fault = expected /\ ~g.seen.stepped THEN None ELSE g.seen.fault
      /\ run'.defect = g.defect
  BY <1>2 DEF TypeOK, RunFields
<1>5. /\ prog.negative \in PostControls /\ prog.negative # None /\ prog.negative \notin PreControls
      /\ Marked /\ prog.kind = "L3" /\ prog.want # BlankCandidate
  <2>1. prog.negative \in PostControls /\ Marked
    BY <1>1, Here DEF AtStep, FabricInv
  <2>2. prog.negative # None /\ prog.negative \notin PreControls
    BY <2>1 DEF PreControls, PostControls, None
  <2> QED
    BY <2>1, <2>2, ScriptOf DEF Shaped
<1>6. /\ run.score # Nothing /\ run.arm # Nothing /\ verdict \in {"PASS", "HOLD"} /\ expected # None
      /\ Marked'
  BY <1>1, <1>5 DEF OutInv, Marked, ExpectedFault, None
<1>7. LogHolds(run') <=> ScoreRecordHolds(run.score) /\ (run'.control # None => run'.control = expected)
  BY <1>1, <1>6 DEF LogHolds
<1>8. outcome' = IF LogHolds(run') THEN IF g.seen.fault = expected /\ ~g.seen.stepped THEN "CRASHED"
                                        ELSE OfControl(g.seen.fault, verdict)
                 ELSE "KILL"
  BY <1>2 DEF Concluded, Closed
<1> HIDE DEF expected, p
<1>9. CASE ~ScoreRecordHolds(run.score)
  <2>1. run.defect \in {"gate", "misread"} /\ outcome' = "KILL"
    BY <1>6, <1>7, <1>8, <1>9 DEF OutInv
  <2>2. g.defect = run.defect
    BY <2>1, ShownIs DEF None
  <2> QED
    BY <1>1, <1>4, <1>6, <2>1, <2>2 DEF PassIsVerified, KillIsReal
<1>10. CASE ScoreRecordHolds(run.score)
  <2>1. /\ board.fabric = prog.want /\ board.key = "K"
        /\ \E n \in Nat : run.arm = Signed(prog.want, prog.want, n) /\ board.nonce = n + 1
    BY <1>1, <1>10 DEF OutInv
  <2>2. FaultOf(p) = expected
    BY <1>5, <2>1, ControlFault DEF p, expected
  <2>3. \/ g.real.fault = expected /\ g.seen.fault = expected
        \/ g.defect = "gate" /\ g.seen = g.real
        \/ g.defect = "misread" /\ g.real.fault = expected
    BY <2>2, ShownIs
  <2>4. /\ outcome' \in {"PASS", "HOLD"} => g.seen.fault = expected
        /\ outcome' = "KILL" => g.seen.fault # expected
    BY <1>4, <1>6, <1>7, <1>8, <1>10 DEF OfControl, expected
  <2>5. outcome' \in {"PASS", "HOLD"} => g.real.fault = expected
    BY <2>3, <2>4
  <2>6. outcome' = "KILL" => g.defect \in {"gate", "misread"}
    BY <2>3, <2>4
  <2>7. PassIsVerified'
    BY <1>1, <1>3, <1>5, <1>6, <2>1, <2>5 DEF PassIsVerified, expected
  <2>8. KillIsReal'
    BY <1>1, <1>4, <1>6, <2>6 DEF KillIsReal
  <2> QED
    BY <2>7, <2>8
<1> QED
  BY <1>9, <1>10

\* Every step keeps what was concluded true.
LEMMA StepOutcome ==
    ASSUME TypeOK, FabricInv, PathInv, GateInv, OutInv, OutcomeIsTrue, [Next]_vars
    PROVE  OutcomeIsTrue'
<1>1. CASE outcome # None /\ NextSession
  BY <1>1 DEF NextSession, OutcomeIsTrue, PassIsVerified, KillIsReal, None
<1>2. CASE outcome # None /\ ~NextSession
  <2>1. UNCHANGED <<board, prog, pc, run, verdict, outcome, sealed>>
    BY <1>2, OverRests
  <2> QED
    BY <2>1 DEF OutcomeIsTrue, PassIsVerified, KillIsReal, Marked, Stream
<1>3. CASE Corrupt
  BY <1>3, CorruptConcludes DEF OutcomeIsTrue
<1>4. CASE ArmAndScore
  BY <1>4, ArmConcludes DEF OutcomeIsTrue
<1>5. CASE NegativeControl
  BY <1>5, ControlConcludes DEF OutcomeIsTrue
<1>6. CASE outcome = None /\ ~Corrupt /\ ~ArmAndScore /\ ~NegativeControl
  <2>1. /\ outcome' = "KILL" => ~LogHolds(run)
        /\ outcome' \in {"PASS", "HOLD"} => Continuity \/ Take
    BY <1>6, OthersEnd
  <2>2. KillIsReal'
    <3> SUFFICES ASSUME outcome' = "KILL" PROVE KillIsReal'
      BY DEF KillIsReal
    <3>1. run.defect \in {"gate", "misread"} /\ run.arm # Nothing
      BY <1>6, <2>1 DEF LogHolds, OutInv
    <3>2. run'.defect = run.defect /\ run'.arm = run.arm
      <4>1. ~NextSession
        BY <1>6 DEF NextSession
      <4> QED
        BY <1>6, <4>1, LogKeeps
    <3> QED
      BY <3>1, <3>2 DEF KillIsReal
  <2>3. PassIsVerified'
    <3>1. CASE Continuity
      <4>1. /\ Live /\ Op = "continuity" /\ prog' = prog /\ run' = run
            /\ outcome' = "PASS" => \A i \in DOMAIN run.samples : run.samples[i]
        BY <1>6, <3>1 DEF Continuity, Running, Live, Ended, Concluded, Closed, Still, SameBooks
      <4>2. prog.kind = "L2"
        BY <4>1, Here
      <4> QED
        BY <4>1, <4>2 DEF PassIsVerified
    <3>2. CASE Take
      <4>1. Live /\ Op = "sample" /\ prog' = prog /\ outcome' # "PASS"
        BY <1>6, <3>2 DEF Take, Answered, Running, Live, Ended, Concluded, Closed, Going, Still, None
      <4>2. prog.kind = "L2"
        BY <4>1, Here
      <4> QED
        BY <4>1, <4>2 DEF PassIsVerified
    <3> QED
      BY <2>1, <3>1, <3>2 DEF PassIsVerified
  <2> QED
    BY <2>2, <2>3 DEF OutcomeIsTrue
<1> QED
  BY <1>1, <1>2, <1>3, <1>4, <1>5, <1>6

\* host/l3_runner.py run_l3, l4_runner.py run_l4 and l2_runner.py run_l2: with
\* one answer of the gate, one reading or one word gone wrong in a session, and
\* whatever frames and transfers do, PASS and HOLD are the fabric's word for this
\* candidate, or the one fault a control asks for, and KILL is said only of an
\* interlock that failed, of a corruption that was lost or of a wrong reading.
THEOREM OutcomeHolds == Spec => []OutcomeIsTrue
<1>1. Init => GateInv /\ OutInv /\ OutcomeIsTrue
  <2> SUFFICES ASSUME Init PROVE GateInv /\ OutInv /\ OutcomeIsTrue
    OBVIOUS
  <2>1. /\ verdict = None /\ outcome = None /\ ~OnAxi /\ board.key = None /\ board.nonce = 0 /\ run = Blank
        /\ pc = 1 /\ prog \in Programs
    BY DEF Init, PowerOn, OnAxi
  <2>2. ~AtStep("control")
    BY <2>1, FirstStep DEF AtStep, Live, Op
  <2> QED
    BY <2>1, <2>2 DEF GateInv, OutInv, OutcomeIsTrue, PassIsVerified, KillIsReal, Blank, None
<1> QED
  BY <1>1, InitLink, InitPath, TypeCorrect, StepLink, StepFabric, StepPath, StepGate, StepOut, StepOutcome, PTL DEF Spec

-----------------------------------------------------------------------------
(* The blame. *)

\* A set of indices that is not empty has a last one.
LEMMA LastIndex ==
    ASSUME NEW n \in Nat, NEW S \in SUBSET (1..n), S # {}
    PROVE  \E i \in S : \A j \in S : j <= i
<1> DEFINE R == {p \in Nat \X Nat : p[1] < p[2]}
           T == {n - i : i \in S}
<1>1. IsWellFoundedOn(R, Nat)
  BY NatLessThanWellFounded DEF OpToRel
<1>2. T \subseteq Nat /\ T # {}
  <2>1. \A i \in S : n - i \in Nat
    <3>1. \A i \in 1..n : n - i \in Nat
      OBVIOUS
    <3> QED
      BY <3>1
  <2> QED
    BY <2>1
<1>3. PICK x \in T : \A y \in T : ~(<<y, x>> \in R)
  <2> HIDE DEF R, T
  <2> QED
    BY <1>1, <1>2, WFMin
<1>4. PICK i \in S : x = n - i
  BY <1>3
<1>5. ASSUME NEW j \in S PROVE j <= i
  <2>1. n - j \in T /\ n - j \in Nat /\ n - i \in Nat /\ i \in 1..n /\ j \in 1..n
    BY <1>2
  <2>2. ~(<<n - j, n - i>> \in R)
    BY <1>3, <1>4, <2>1
  <2>3. ~(n - j < n - i)
    BY <2>1, <2>2
  <2> QED
    BY <2>1, <2>3
<1> QED
  BY <1>5

\* The last read of a frame is a read of it, if there was one.
LEMMA LastReadIs ==
    ASSUME FabricInv, NEW e \in Envs
    PROVE  \/ LastRead(e) = [got |-> None, pass |-> FALSE]
           \/ \E i \in DOMAIN run.reads : run.reads[i].env = e /\ LastRead(e) = run.reads[i]
<1> DEFINE S == {i \in DOMAIN run.reads : run.reads[i].env = e}
<1>1. CASE S = {}
  BY <1>1 DEF LastRead
<1>2. CASE S # {}
  <2>1. S \in SUBSET (1..Len(run.reads)) /\ Len(run.reads) \in Nat
    BY DEF FabricInv
  <2>2. \E i \in S : \A j \in S : j <= i
    BY <1>2, <2>1, LastIndex
  <2>3. (CHOOSE i \in S : \A j \in S : j <= i) \in S
    BY <2>2
  <2>4. LastRead(e) = run.reads[CHOOSE i \in S : \A j \in S : j <= i]
    BY <1>2 DEF LastRead
  <2> QED
    BY <2>3, <2>4
<1> QED
  BY <1>1, <1>2

\* The terminal read is asked for only when the diagnostic is sealed, and its
\* verdict is judged of the run as it was left.
SealInv ==
    /\ sealed => outcome # None /\ prog.kind = "diag"
    /\ \A a \in Askers : asker[a] # "idle" => sealed
    /\ blame # None => sealed
    /\ blame \notin {None, "HOLD"} => blame = Adjudicate("READ")

\* A step of the runner seals what it ends and touches nothing of the terminal read.
LEMMA RunnerSeals ==
    ASSUME TypeOK, [Next]_vars, outcome = None, ~sealed, ~Jtag
    PROVE  UNCHANGED terminal /\ (sealed' => outcome' # None /\ prog'.kind = "diag")
<1> USE DEF Ended, Concluded, Closed, Going, Still, terminal, None
<1>1. CASE Reset \/ Refused \/ Killed \/ Over \/ UNCHANGED vars
  <2>1. CASE Reset
    BY <2>1 DEF Reset
  <2>2. CASE Refused
    BY <2>2 DEF Refused
  <2>3. CASE Killed
    BY <2>3 DEF Killed
  <2>4. CASE Over \/ UNCHANGED vars
    BY <2>4 DEF Over, vars
  <2> QED
    BY <1>1, <2>1, <2>2, <2>3, <2>4
<1>2. CASE Load \/ ClaimProvisionRuling \/ Provision \/ Keyed
  BY <1>2 DEF Load, ClaimProvisionRuling, Provision, Keyed
<1>3. CASE StageAndReread \/ ExecuteWrite \/ Corrupt \/ ReadbackFrame \/ LinkThree
  BY <1>3 DEF StageAndReread, ExecuteWrite, Corrupt, ReadbackFrame, LinkThree
<1>4. CASE Phase \/ EndPcapPhase \/ AxiStop \/ Take \/ Continuity
  BY <1>4 DEF Phase, EndPcapPhase, AxiStop, Take, Continuity
<1>5. CASE ArmAndScore
  <2>1. prog.kind \in {"L3", "L4"}
    BY <1>5, ArmMoves, Here DEF AtStep, Arms
  <2> QED
    BY <1>5, <2>1 DEF ArmAndScore
<1>6. CASE NegativeControl
  <2>1. Live /\ Op = "control"
    BY <1>6 DEF NegativeControl, Answered, Running, Live
  <2>2. prog.kind = "L3"
    BY <2>1, Here DEF PostControls
  <2> QED
    BY <1>6, <2>2 DEF NegativeControl
<1>7. ~NextSession
  BY DEF NextSession
<1> QED
  BY <1>1, <1>2, <1>3, <1>4, <1>5, <1>6, <1>7 DEF Next, Jtag

\* Every step keeps it.
LEMMA StepSeal == ASSUME TypeOK, SealInv, [Next]_vars PROVE SealInv'
<1>1. CASE outcome = None /\ ~Jtag
  <2>1. ~sealed /\ UNCHANGED terminal /\ (sealed' => outcome' # None /\ prog'.kind = "diag")
    BY <1>1, RunnerSeals DEF SealInv
  <2> QED
    BY <2>1 DEF SealInv, terminal
<1>2. CASE outcome # None /\ NextSession
  <2>1. ~sealed /\ sealed' = sealed /\ UNCHANGED terminal
    BY <1>2 DEF NextSession, SealInv
  <2> QED
    BY <2>1 DEF SealInv, terminal
<1>3. CASE outcome # None /\ ~NextSession /\ ~Jtag
  <2>1. UNCHANGED <<board, prog, pc, run, verdict, outcome, sealed>>
    BY <1>3, OverRests
  <2>2. UNCHANGED terminal
    BY <1>3 DEF Next, Reset, Refused, Killed, Load, ClaimProvisionRuling, Provision, Keyed, StageAndReread, ExecuteWrite,
       Corrupt, ReadbackFrame, LinkThree, Phase, EndPcapPhase, ArmAndScore, NegativeControl, AxiStop, Take,
       Continuity, Jtag, Over, vars, Still, terminal
  <2>3. Adjudicate("READ")' = Adjudicate("READ")
    BY <2>1 DEF Adjudicate, KindOf, LastRead
  <2> QED
    BY <2>1, <2>2, <2>3 DEF SealInv, terminal
<1>4. CASE Jtag
  <2>1. PICK a \in Askers : AskJtag(a) \/ ReadDie(a) \/ FileJtag(a)
    BY <1>4 DEF Jtag
  <2>2. UNCHANGED <<board, prog, run, outcome, sealed>>
    BY <2>1 DEF AskJtag, ReadDie, FileJtag
  <2>3. Adjudicate("READ")' = Adjudicate("READ")
    BY <2>2 DEF Adjudicate, KindOf, LastRead
  <2>4. CASE AskJtag(a)
    BY <2>2, <2>3, <2>4 DEF AskJtag, SealInv
  <2>5. sealed /\ \A b \in Askers : asker'[b] # "idle" => sealed'
    BY <2>1, <2>2 DEF AskJtag, ReadDie, FileJtag, SealInv
  <2>6. CASE ReadDie(a)
    BY <2>2, <2>3, <2>5, <2>6 DEF ReadDie, SealInv
  <2>7. CASE FileJtag(a)
    <3>1. CASE blame' = Adjudicate(asker[a])
      <4>1. asker[a] # "READ" => blame' = "HOLD"
        BY <3>1 DEF Adjudicate
      <4> QED
        BY <2>2, <2>3, <2>5, <3>1, <4>1 DEF SealInv
    <3>2. CASE blame' = blame
      BY <2>2, <2>3, <2>5, <3>2 DEF SealInv
    <3> QED
      BY <2>7, <3>1, <3>2 DEF FileJtag
  <2> QED
    BY <2>1, <2>4, <2>6, <2>7
<1> QED
  BY <1>1, <1>2, <1>3, <1>4

\* What the adjudication says of the frames it compared.
LEMMA BlameFits ==
    ASSUME TypeOK, FabricInv, SealInv, blame \notin {None, "HOLD", "DIVERGENT"}, OnAxi
    PROVE  CASE blame = "NO_REPRODUCTION" -> board.fabric = prog.want /\ \A e \in Envs : LastRead(e).pass
             [] blame = "PCAP_READBACK_ZERO" -> board.fabric = prog.want /\ \E e \in Envs : LastRead(e).got = "blank"
                                                                                           /\ prog.want[e] # "blank"
             [] blame = "FABRIC_BLANK" -> \E e \in Envs : board.fabric[e] = "blank" /\ prog.want[e] # "blank"
             [] blame = "FABRIC_MISPLACED" -> \E e \in Envs : board.fabric[e] # "blank" /\ prog.want[e] = "blank"
<1> DEFINE Kind(e) == KindOf(e, board.fabric[e])
           kinds == {Kind(e) : e \in Envs} \ {"CONSISTENT"}
<1>1. board.fabric \in [Envs -> Values] /\ board.fabric # Nothing
  BY DEF FabricInv, OnAxi
<1>2. prog.want \in [Envs -> {"cand", "blank"}]
  BY ScriptOf DEF Shaped
<1>3. prog.kind # "L2"
  BY DEF SealInv, None
<1>4. kinds = {KindOf(e, IF board.fabric = Nothing THEN "blank" ELSE board.fabric[e]) : e \in Envs} \ {"CONSISTENT"}
  BY <1>1
<1>5. blame = IF kinds = {} THEN "NO_REPRODUCTION"
              ELSE IF kinds \in {{"PCAP_READBACK_ZERO"}, {"FABRIC_BLANK"}} THEN CHOOSE k \in kinds : TRUE
              ELSE IF "FABRIC_MISPLACED" \in kinds /\ "PCAP_READBACK_ZERO" \notin kinds
              THEN "FABRIC_MISPLACED" ELSE "DIVERGENT"
  BY <1>4 DEF SealInv, Adjudicate
<1>6. \A e \in Envs :
        /\ Kind(e) = "CONSISTENT" => LastRead(e).pass /\ board.fabric[e] = prog.want[e]
        /\ Kind(e) = "PCAP_READBACK_ZERO" =>
             ~LastRead(e).pass /\ LastRead(e).got = "blank" /\ board.fabric[e] = prog.want[e]
        /\ Kind(e) = "FABRIC_BLANK" => board.fabric[e] = "blank" /\ prog.want[e] # "blank"
        /\ Kind(e) = "FABRIC_MISPLACED" => board.fabric[e] # "blank" /\ prog.want[e] = "blank"
  BY DEF KindOf
<1>7. \A e \in Envs : Kind(e) = "CONSISTENT" \/ Kind(e) \in kinds
  OBVIOUS
<1>8. \A k \in kinds : \E e \in Envs : k = Kind(e)
  OBVIOUS
<1>9. (\A e \in Envs : board.fabric[e] = prog.want[e]) => board.fabric = prog.want
  BY <1>1, <1>2
<1> HIDE DEF Kind, kinds
<1>10. CASE kinds = {}
  <2>1. blame = "NO_REPRODUCTION" /\ \A e \in Envs : Kind(e) = "CONSISTENT"
    BY <1>5, <1>7, <1>10
  <2> QED
    BY <1>6, <1>9, <2>1
<1>11. CASE kinds = {"PCAP_READBACK_ZERO"}
  <2>1. blame = "PCAP_READBACK_ZERO"
    <3>1. (CHOOSE k \in {"PCAP_READBACK_ZERO"} : TRUE) = "PCAP_READBACK_ZERO"
      OBVIOUS
    <3> QED
      BY <1>5, <1>11, <3>1
  <2>2. board.fabric = prog.want
    BY <1>6, <1>7, <1>9, <1>11
  <2>3. PICK e \in Envs : Kind(e) = "PCAP_READBACK_ZERO"
    BY <1>8, <1>11
  <2>4. ~LastRead(e).pass /\ LastRead(e).got = "blank"
    BY <1>6, <2>3
  <2>5. prog.want[e] # "blank"
    <3>1. LastRead(e) # [got |-> None, pass |-> FALSE]
      BY <2>4 DEF None
    <3>2. PICK i \in DOMAIN run.reads : run.reads[i].env = e /\ LastRead(e) = run.reads[i]
      BY <3>1, LastReadIs
    <3> QED
      BY <1>3, <2>4, <3>2 DEF FabricInv
  <2> QED
    BY <2>1, <2>2, <2>4, <2>5
<1>12. CASE kinds = {"FABRIC_BLANK"}
  <2>1. blame = "FABRIC_BLANK"
    <3>1. (CHOOSE k \in {"FABRIC_BLANK"} : TRUE) = "FABRIC_BLANK"
      OBVIOUS
    <3> QED
      BY <1>5, <1>12, <3>1
  <2>2. PICK e \in Envs : Kind(e) = "FABRIC_BLANK"
    BY <1>8, <1>12
  <2> QED
    BY <1>6, <2>1, <2>2
<1>13. CASE kinds \notin {{}, {"PCAP_READBACK_ZERO"}, {"FABRIC_BLANK"}}
  <2>1. blame = "FABRIC_MISPLACED" /\ "FABRIC_MISPLACED" \in kinds
    BY <1>5, <1>13
  <2>2. PICK e \in Envs : Kind(e) = "FABRIC_MISPLACED"
    BY <1>8, <2>1
  <2> QED
    BY <1>6, <2>1, <2>2
<1> QED
  BY <1>10, <1>11, <1>12, <1>13

\* host/l3_diag_runner.py adjudicate: for any number of envelopes and of
\* processes that ask for the terminal read, what is filed as the verdict of
\* the diagnostic is so of the fabric and of the readout it compared.
THEOREM BlameHolds == Spec => []BlameIsTrue
<1>1. Init => SealInv
  BY DEF Init, SealInv
<1>2. TypeOK /\ FabricInv /\ SealInv => BlameIsTrue
  BY BlameFits DEF BlameIsTrue, OnAxi
<1> QED
  BY <1>1, <1>2, InitPath, TypeCorrect, StepFabric, StepSeal, PTL DEF Spec

==============================================================================
