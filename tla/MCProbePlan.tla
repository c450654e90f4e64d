----------------------------- MODULE MCProbePlan -----------------------------
(* The instance: every plan within MaxEdits edits of one the planners build,  *)
(* an edit being a command left out, two exchanged, or one put in; what a     *)
(* write plan says of itself may follow its commands at any time.             *)
EXTENDS ProbePlan

CONSTANT MaxEdits

\* The sentinel of the plans below is one a plan may draw.
ASSUME SentinelAssumption == WordLimit > 3

VARIABLES plan, edits
planVars == <<plan, edits>>

Built == {[kind |-> "read", far |-> 1, order |-> o, sentinel |-> 3, script |-> BuildPlan(1, o, 3)] :
             o \in {"two-unidirectional", "one-bidirectional"}}
         \cup {[kind |-> "write", far |-> 1, order |-> "", sentinel |-> 3, script |-> BuildWritePlan(1),
               stream |-> WriteStream(1), frame_after |-> FrameOf(1)]}

PlanInit == plan \in Built /\ edits = 0

\* What may be put in: repetitions of legal commands and near misses of them.
ReadPool == {Write("INT_STS", 0, ClearMask, 1), Read("INT_STS", 1), Write("INT_STS", 0, Noop, 1),
             Write("DST", 0, Sentinel(0), ReadWords), Write("DST", 1, Sentinel(3), ReadWords),
             Write("CTRL", 0, Noop, 1), Write("DMA_DEST_LEN", 0, Length(0), 1),
             Write("CMD", 2, FarWord(2), 1), Write("CMD", 4, Noop, 1), Read("DST", ReadWords),
             Write("DST", 0, Sentinel(0), 1), [Write("CMD", 0, Noop, 1) EXCEPT !.form = "mw.b"]}
WritePool == {Write("INT_STS", 0, ClearMask, 1), Write("WR", 6, <<"init", 2>>, 1), Write("WR", 7, <<"ecc", 2>>, 1),
              Write("WR", 6, <<"init", 3>>, 1), Write("WR", 3, <<"GRESTORE", 0>>, 1), Write("WR", 11, Noop, 1),
              Write("WR", 4, FarWord(2), 1), Write("WR", 2, Noop, 1), Write("WR", 1, <<"RCRC", 1>>, 1), Write("DMA_SRC_LEN", 0, Length(3), 1), Write("CTRL", 0, Noop, 1)}
Pool == IF plan.kind = "read" THEN ReadPool ELSE WritePool

Edited(script) == /\ edits < MaxEdits
                  /\ edits' = edits + 1
                  /\ plan' = [plan EXCEPT !.script = script]

Drop == \E i \in DOMAIN plan.script : Edited(RemoveAt(plan.script, i))
Exchange == \E i \in 1..(Len(plan.script) - 1) :
    Edited([plan.script EXCEPT ![i] = plan.script[i + 1], ![i + 1] = plan.script[i]])
PutIn == \E i \in 1..(Len(plan.script) + 1), c \in Pool : Edited(InsertAt(plan.script, i, c))
\* The one operand that is not in a command: the sentinel a plan claims.
Reseed == \E v \in {0, 4, 5} :
    /\ plan.kind = "read" /\ plan.sentinel = 3 /\ edits < MaxEdits
    /\ edits' = edits + 1
    /\ plan' = [plan EXCEPT !.sentinel = v,
                            !.script = BuildPlan(plan.far, plan.order, v)]

\* What a write plan says of itself is made to agree with its commands.
Relabel ==
    /\ plan.kind = "write" /\ edits > 0 /\ WrittenOnce(plan.script)
    /\ plan' = [plan EXCEPT !.stream = StreamOf(plan.script), !.frame_after = FrameIn(StreamOf(plan.script))]
    /\ UNCHANGED edits

PlanNext == Drop \/ Exchange \/ PutIn \/ Reseed \/ Relabel
PlanSpec == PlanInit /\ [][PlanNext]_planVars

-----------------------------------------------------------------------------
(* What is checked. *)

Accepted == IF plan.kind = "read" THEN Adjudicated(plan) ELSE CheckWritePlan(plan)
Harmless == IF plan.kind = "read" THEN Sound(plan) ELSE SoundWrite(plan)

\* The guards accept what the planners build.
BuiltIsAccepted == edits = 0 => Accepted /\ Harmless

\* Three holes in the guards.  The read plan's: the destination filled again
\* with 0 after the prefill was verified, right before a stream, whose count
\* of words the 0 is added to.
Refilled == \E i \in 1..(Len(plan.script) - 1) :
    /\ plan.script[i].form = "mw.l" /\ plan.script[i].reg = "DST" /\ plan.script[i].value[2] = 0
    /\ plan.script[i + 1].reg = "CMD"

\* The write plan's: a burst that no IDCODE precedes or no WCFG precedes (the
\* walk judges an IDCODE that is there, and the order of the commands among
\* themselves alone), and a command whose header claims more words than one.
Unready(words) == \E b \in DOMAIN words :
    words[b][1] = "FDRI" /\ ~(Readiness \subseteq {words[i] : i \in 1..(b - 1)})
Miscounted(words) == \E i \in DOMAIN words : words[i][1] \in CommandWords /\ words[i][2] # 0

Hole == IF plan.kind = "read" THEN Refilled ELSE Unready(plan.stream) \/ Miscounted(plan.stream)

\* scripts/pcap_probe_plan.py:232: whatever the guards accept, and however it
\* was put together, drives the engine the way the probe needs: no stale or
\* erased completion, no foreign stream, no readout without a verified
\* prefill, one legal frame written where a write plan says; but for the
\* three holes.
AcceptedIsSound == Accepted /\ ~Hole => Harmless
=============================================================================
