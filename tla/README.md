# zynq-psoracle in TLA+

A bare-metal application on a Zynq board rewrites the LUTs of a *carrier* in the programmable logic, asks a host for a
signature over what it wrote, arms the carrier with that signature and records the score the carrier measures. A host
session paces the board over a serial console, keeps the books and validates them; runners load the board, spend the
owner's rulings and conclude PASS, HOLD, STOP or KILL. The claim the repository defends is that nothing is scored that was
not signed for, read back and recorded, and nothing concluded that did not happen, whatever the link, the board or the
order of the owner's work does. This directory models the parts that carry that claim. Paths are relative to the
repository's root.

## 1. Inventory

| Component (code) | State it keeps | Operations | Talks to | Hard behaviour | What makes it correct |
|---|---|---|---|---|---|
| Board transactions (`firmware/p3_rectx.c`, callers in `p3_app.c`) | the line built once, attempts, ignored lines, late acknowledgements, the first cause of a stop; the line being received and its bounds | `p3_tx_run` for IDENT, SIGNREQ, REC, TERM; the two forced-retry controls; the bounded receive | the host, by lines | three transmissions on a lossy line; a late acknowledgement inside the next wait; watchdog reset inside a transaction; lines cut or trickled | the board moves on only from what the host has; an honest session is never called a protocol error |
| Host console session (`host/l6_console.py`, `l6_rel.py`, `l6_rec.py`, `l5_notary.py`) | per-transaction ledgers, relay entries, collected records, budgets, the end of the epoch | `on_line` per type, broken-line handling, `tick`, silence, banner | the board; the signer | re-requests and replays bounded; broken lines whose owner must be guessed; CLOSE sent once | an answer is given once per seq, a record taken once and in order, a TERM believed only if the books agree |
| Audit pull (`firmware/p3_pull.c`, `host/l6_audit_pull.py`, its routing in `l6_console.py`) | board: announcements, served chunks, waits; host: chunk, attempt, verified, settled pulls, harvest | READY, GET, chunk, DONE, ABORT, AUDITWAIT | each other, paced by the host | six message types each of which may be lost or late; a pull settled before its line arrives; two budgets ending the epoch inside a pull | `audited` only if the host holds every chunk; nothing armed under a failed audit; the pull ends |
| ARM gate, MAC, nonce, scorer (`rtl/p3_arm_gate.v`, `p3_siphash.v`, `p3_axil.v`, `p3_core.v`, `imported/fabricmap/vivado/carrier/carrier_scorer.v`) | register file, gate state, nonce, readout, latch, fault, score | strobe, verify, sweep, compare, arm, score | one bus master (`arm_attempt`, or `host/l3_runner.py` with its negative controls) | latched results of the previous attempt; refusals that consume nonces; a strobe while a fault stands | only authenticated and read-back configurations are scored; faults are final; one nonce per attempt |
| Application main loop (`firmware/p3_app.c`) and its reference (`host/l5_refloop.py`) | candidate counters, stop cause, last signed candidate, restore and closing flags | `main`, `run_candidate`, `arm_attempt`, `closing_unsigned_control` | everything above, DEVCFG, DDR | a failure between any two steps of a candidate; the mandatory restore after a stop; two texts of one loop | the summary states what was done; the order stage, write, witness, sign, ARM, record |
| Console reader (`host/l6_reader.py`, the ledger of `l6_timing.py`) | partial line, pieces, banner | poll, quarantine | the wire | bytes of two lines glued together; a banner split over two reads | nothing said is dropped, nothing heard that was not said, however the reads cut it |
| Validators (`validators/records.py`, `audit.py`, `rejection.py`), session checks (`host/l6_checks.py`, `l6_rate.py`), schedule (`host/l6_schedule.py`) | none: functions of the finished books | findings, refusals, the conclusion | evidence files, runner | the order of the rules decides between HOLD and KILL; a rule honest sessions break, a lie it lets through | honest sessions pass, falsified ones are KILLed, nothing else is |
| Signer (`host/sign_arm.py`, `validators/signer.py`, `siphash.py`, key provisioning) | the key, the nonce it last signed for, the provisioning ruling's marker | sign, provision | runner, gate | the nonce chain shared with hardware; two markers of one ruling in two processes | one tag per nonce, one key per ruling |
| Board runs (`host/l2_runner.py`, `l3_runner.py`, `l4_runner.py`, `l3_diag_runner.py`) | staged stream, readbacks, verdicts, seal | load, provision, three links, ARM, controls, terminal read | U-Boot, signer, JTAG | a restart between approval and transfer, seen or not; a control after a PASS; a verdict filed twice | PASS is the fabric's own word, KILL an interlock that failed, a blame what is so |
| Probe plans and probes (`scripts/pcap_probe_plan.py`, `pcap_write_plan.py`, `board_session.py`, `pcap_probe_runner.py`, `p1_runner.py`, `p2_runner.py`) | plan; identity, epoch, marker, records, seal | build, validate, interpret, clean up | U-Boot, engine, JTAG | commands that are all legal in an order that is not; an engine that may do anything; an identity that outlives its epoch | an accepted plan does exactly the probe; a verdict is true of the transfer it judges |
| L5 and L6 campaign (`host/l5_runner.py`, `l6_runner.py`) | files, pins, rulings, reports | preflight, claim, provision, load, report | owner's files, board | the owner edits while a runner works from what it read | a session is the one both rulings name; a soak uses its own image's calibrations |
| Host gate and genome, staging, frames, search, operators (`host/p3_gate.py`, `p3_genome.py`, `firmware/p3_derive.c`, `p3_search.c`, `host/l6_operators.py`) | none or generator state | judge, derive, next candidate | signer, application | C and Python twins must agree | equal results |
| Bus shims, wire serialisers, generators, soaks, documents | - | - | - | - | - |

`PROJECT.json` lists the components with their status, the hazards at their lines and the property that covers each.

**How they interact.** The owner freezes, pins and issues rulings; a runner claims them, loads the board and provisions a
key (Campaign, BoardRun). The session opens with `IDENT`. One candidate of the scored loop goes through: stage and write
the frames; `SIGNREQ` → the notary's `SIGNOK`/`SIGNREF` (RelSession); on a signature, optionally an audit pull that must
finish before the ARM, or one that follows the record (AuditPull); `arm_attempt`, which stages commit, tables and tag,
strobes and polls (ArmGate); the `REC` transaction (RelSession). The session ends with `CLOSE` and `TERM`, the last
exchange against the clock (TermLinger); its books are judged by Books. Before all that, the probe chains establish that the
configuration port can be trusted (ProbePlan, BoardProbe) and the L2 to L4 runs that one candidate can be carried to the
fabric and armed (BoardRun).

## 2. Modules

| Module | Models | Composed with |
|---|---|---|
| `Handover` | abstract: answer, record and confirm each candidate once, strictly in that order, a stop last | |
| `RelSession` | the board's transactions against the host's console session, two lossy FIFO lines between them | refines `Handover` |
| `TermLinger` | the TERM transaction in time: the byte receiver with its clock and poll bounds, the host's acknowledgements and its linger | the last exchange of `RelSession`, at a finer grain |
| `AuditPromise` | abstract: `audited` only when every chunk is held, one mark, no ARM without it | |
| `AuditPull` | one candidate's pull: board loop, PullHost, the console session that opens, feeds, settles and answers for it | refines `AuditPromise` |
| `ArmGate` | register file, gate, MAC, scorer, clock by clock, against the application's ARM and the runner's controls | |
| `AppSession` | the application's main loop: every step of a candidate and its failure, the closing bracket, the restore, the summary | takes the exchanges at the outcomes RelSession and AuditPull allow and the carrier at ArmGate's answers; refines `Handover` |
| `RefLoop` | the Python reference loop as a second next-state relation over the same state | extends `AppSession` |
| `ProbePlan` | the planners, the guards that judge a plan, and the engine that runs one | |
| `BoardProbe` | guarded commands, identity, epoch, claim, the interpreter and cleanup, the three probe chains, seal and JTAG verifier | takes a plan as one transfer, which ProbePlan justifies |
| `BoardRun` | L2, L3 with its controls, L4 and the diagnostic as scripts over one machine; provisioning rulings; terminal read | takes the gate at ArmGate's answers |
| `Campaign` | preflight, rulings, load and report of C1, C2 and S under an owner who edits | |
| `Schedule` | the session's shape, brackets, operators' order, audit sampling, expected frames | used by `Books` |
| `Books` | the validators' and the runner's conclusion over the books of a session, with a generator of sessions | |
| `MC*` | the instances TLC checks (MCProbePlan also holds the edits and the properties of plans) | extend the above |
| `RelSession_proofs`, `TermLinger_proofs`, `RefLoop_proofs`, `ProbePlan_proofs`, `BoardProbe_proofs`, `BoardRun_proofs`, `Campaign_proofs`, `ArmPath_proofs` | the theorems | extend the module they name (ProbePlan_proofs through MCProbePlan); Campaign_proofs extends Campaign and Books, the session and the books that judge it, ArmPath_proofs AuditPull and ArmGate, the two interlocks before a score; the names of each pair do not meet |

### RelSession
*State.* `stage`, `waiting`, `attempts`, `stale`, `prevAcks` are the locals of `p3_tx_run`; `seq`, `outcome`, `why` are
`S.seq`, the record being sent and `S.kind`/`S.reason`. `notary`, `records` are the relay's entries and the collector's
records; `gets`, `acks` are the ledgers of each transaction; `crc`, `bad` the two budgets; `quiet` counts the board's
8-second bounds since the host last heard a valid line. `confirmed` is a history variable: records the board knows taken.
*Actions.* The board's disjuncts are one transmission, one line heard (acknowledgement, re-request, previous
acknowledgement, foreign or broken line), one bound that runs out, the work between reply and record, the CLOSE, the
watchdog. The host's are the cases of `ConsoleSession.on_line` in its order (ended, CRC-failed, malformed, then by type)
plus silence and banner. A broken line keeps or loses a head that shows its seq, which is what `head_fields` recovers.
*Link.* Each transmission may be lost, broken or doubled; every such event, and the watchdog's reset, counts against
`MaxFaults`; order is kept.

### TermLinger
*State.* `rx` is the receive in progress (`t_start`, `t_last`, `idle`, `total` and the line of `p3_rectx_recv_line_timed`);
`attempts`, `stale` are the locals of `p3_tx_run`; `until`, `acks`, `gets` the host's `linger_until` and the TERM's ledger;
`now` is wall time, `clock` says whether the board's global timer advances (the code keeps its poll counts for the case that
it does not). `missed` and `cut` are history.
*Actions.* `Poll` and `Byte` are the two halves of the receiver's loop, `Ignored` and `ResendOrHalt` what `p3_tx_run` makes of
what it returns; `on_term` and `on_broken_line` are TermHost's; `Unheard` is a TERM nobody reads because the loop is over.
*Time.* One poll that finds no byte is one unit, a waiting byte costs none: a board that is slower only ends its waits by the
same clock. A line is its head, its rest and its newline, which is where cutting or pausing it makes a difference; each takes up to
`Delay`. Time waits for a line that has arrived to be heard. The drop budget and the session's own bound are RelSession's.

### AuditPull
The board's `p3_pull_run` (announce, serve, done, abort, ignore, expire), then `decide`: the ARM or the record with the
mark. The host's handlers are those of `PullHost` with the branches of `ConsoleSession.on_line` around them: a READY
that opens a pull, one that repeats it, the chunk asked for, a stale copy, a wrong one, an AUDITWAIT with and without a
settled pull to replay, a chunk nobody asked for, a broken line with the two budgets, the chunk's deadline. A READY that
comes when the pull has already failed opens a second `PullHost`, as in the code.
*Time.* The board's bound is 8 s (`P3_BOUND_S`), three chunk deadlines of the host are 6 s (`CHUNK_TIMEOUT_S`): so the
board's bound fires only when the lines are empty and no pull is pending. The fault `LongStall` lifts that: it lets
lines be held back past the board's bound. The host's silence rule belongs to RelSession.

### ArmGate
`Clock` is one edge of everything in the logic: register file, gate state machine, MAC counter, sweep, scorer. The
master's actions are `arm_attempt`'s steps (check STATUS, stage payload, stage tag, strobe, bounded poll, judge) and the
runner's controls: unprovisioned, wrong key, unsigned, replayed tag, a tag of another candidate, a wrong table. Both
stop at a fault, so the test bench (`tb/tb_p3_core.v`, step 3) is the third master: it restages an authentic candidate
and strobes while recovery is required. One LUT
stands for the six, which run in lockstep; a tag is a record of key, payload and nonce (SipHash as an injective function);
the xorshift nonce is the index of its step.
*Assumed.* The master is the only bus writer and stages nothing while the gate is busy (both masters wait for the
settle); a read is issued after the response of the write before it; the configuration does not change between sweep and
end of scoring; a reset or a reconfiguration ends the behaviour.

### AppSession and RefLoop
*State.* `kind`, `seq`, `closing`, `last`, `audit`, `servedSeq` are the members of `S` of those meanings; `genome`, `asked`,
`staged`, `written`, `before`, `rec` the locals of `run_candidate` and `arm_attempt`; `fabric` holds one content per
envelope; `notary`, `log`, `confirmed` are the books of RelSession, `dmaFailed` and `pulled` history variables. A genome
stands for its frames, their hash and the signed tables; `"other"` for any content that is no genome's.
*Actions.* One per step of `run_candidate` in its order (`Propose`, the four ends of the sign exchange, `Stage`, link 2,
each envelope's DMA, link 3, the audit, `Strobe`, the poll's verdict, the record), each with its failures: those that stop
before the record, those that record and then stop, those that stop without any record. Then the closing control, the
`Finally` of `main`, the TERM. `legal`, the genomes the host's gate accepts, is any set, the blank candidate in it or not.
*Carrier.* What `arm_attempt` can observe: a valid result only for an authentic tag over the fabric it was signed for
(which is ArmGate's theorem), and otherwise, or even then, a refusal, an ARM that is not consumed or one that hangs. A
DMA may fail, leaving anything in its envelope, or land wrongly without a sign.
*The reference loop.* `RefLoop` writes `host/l5_refloop.py` as actions over that state and lets a behaviour be a session
of either. Where the reference departs from `p3_app.c` the actions differ: an identity refusal restores; a page that does
not parse makes the summary raise (`:311`); unparsable staged streams raise without summary or restore; a closing candidate
the gate refused has no sign reply for the control to replay (`:331`); a fault before the ARM has no record; every write
error is STOP_LINK2; the closing marks are set only after the closing candidate; the control is neither polled nor
nonce-checked; the restore may be refused or skipped. It has no audit and no retries.
*Left out.* Heartbeats, counters of transmissions, the AXI allowlist (no call leaves it), builders that overflow their
buffers, a budget of 0 (unbounded).

### ProbePlan and BoardProbe
A plan is a sequence of commands (`md.l`, `mw.l`, `dcache off`) on named regions. `Adjudicated` and `CheckWritePlan` are
the guards, check by check: sentinel, allowlist and extents, register writes, DMA groups and transactions, command-buffer
phases, stream grammar, schedule, and, last, that the `stream` and `frame_after` a write plan says of itself are the words of its
commands. `Run` is what no guard consults: the DMA engine as a fold over the commands, with a set
of faults (overlap, stale or erased completion, no verified prefill, buffer in use, foreign write). Nor do they consult the
configuration logic (`ConfigStep`, external): which burst it writes where, identified and told to write or not, and how many words a
header makes it skip. Words are names with a number (a length, an address, the words a command header claims too many); NOOP runs are
shortened.
BoardProbe's state is the board (boot, fabric, marker, buffer, engine, banner), one ruling with the processes started under
it, and the session (identity, epoch, `plmark`, records, seal). Each operation of `board_session.py` and of the three chains
is an action guarded as the code guards it: what is pending is judged before a command, its reply after. A transfer may
deliver the frame, nothing, a part, zeros, a neighbour, twins or garbage; the board may restart at any time and its banner may
be lost. `ProbeAssumption` says of the chains what the three have in common (`Chained`): a clock and its two observations come
first or not at all, a verifier comes last and only in a chain without observations; TLC confirms it of the real ones.

### BoardRun
Each runner is a script, a sequence of steps; a step is a function of the runners with everything it does to the
board. `board` is the machine (cache, memory as CPU and DMA see it, fabric, key, nonce, fault), `run` the runner's locals,
`session`, `marker`, `consumed`, `executed` the provisioning ruling seen from the signer and from the runner. `Reset`
happens between any two steps, with or without a banner seen; `Killed` ends the process anywhere. The terminal read has
several `Askers`. Once in a session one thing may be otherwise than it should (`run.defect`): the gate answers a strobe with another
fault, none, or an unstepped nonce; such an answer, or one of the words the score record is made of, is misread; L4's corrupting word
or its clear of INT_STS is lost, its re-reading is blind, or a transfer completes that nobody started. Every end passes through
`Concluded`: the log is validated last, and a rejection becomes the outcome whatever stood there.

### Campaign
Files are the values they hold and hashes are those values. The owner's actions (build, edit, freeze, promote, pin, declare
an import, spoil evidence, issue rulings) are external and happen at any moment. A runner's preflight is one atomic read of
everything; claim, provisioning and load are steps of their own. `ran` in a report is history: the image the
board really executed.

### Books and Schedule
A session is generated record by record, with at most one thing wrong on the board out of 22 kinds at any record, any end
(completed, stopped, protocol, crash with or without a signature or audit words in flight), then at most `MaxDamages` damages to the books.
`Validated` is the validator with its rules in the code's order, first failure wins; `Outcome` is the runner's
classification. Audit chunks are sparse; hashes are names.

## 3. What TLC checks

| Run | Instance | Shows |
|---|---|---|
| `rel_faults` | 2 candidates, the real attempt and replay counts, both forced controls, 3 faults | answers, records and confirmations stay in order and agree on both sides; the host calls an honest session a protocol error in one case only; the TERM tells the truth about the host's books; `Handover` is implemented; both sides end |
| `term_linger` | a bound of 4 units, a contract of 7, a margin of 2, a delay of 1; 3 faults of the link, cut lines among them, or bytes that never cease; timer running or standing | no line holds the receiver past one bound; the linger covers every resend while lines are lost or broken whole; with fewer faults than transmissions the board has its acknowledgement; the board halts |
| `gate` | 3 vectors, 3 genomes of which 2 compute different tables, 3 attempts of any kind | the interlock; every record's outcome, fault and nonce is what happened; a settled poll is this attempt's; faults are final; every strobe settles |
| `pull_faults` | 3 chunks, the real attempt counts, budgets at 1, stalls, 4 faults | `AuditPromise` is implemented; a completed pull is unconfirmed only after every AUDITWAIT; an epoch ending inside a pull aborts it once; the pull ends and the host learns of it |
| `app_session` | 2 genomes, 2 candidates between the baselines, 2 envelopes, every set of legal genomes, either loop | the log is the nonce chain the signatures named; the summary is true; no strobe without witnesses and audit; only the restore after a stop; `Handover` is implemented |
| `probe` | 2 processes, the three chains, 2 restarts, 1 banner lost | verdicts are true of the transfer they judge; PASS is the whole chain in one epoch and boot; blame needs a control; one attempt per ruling (a part of the first property); the engine is desynchronised before a verdict stops |
| `plan` | every plan within 2 edits (drop, exchange, put in, reseed) of the planners' three, its own account of itself kept or made to agree | the guards accept what is built, and nothing that would not do exactly the probe, but for three holes (section 5) |
| `board_run` | L3 with no control and each of the six, L4, L2, the diagnostic; 2 sessions under one ruling, 2 askers, 1 restart, 1 defect a session | approved is what was transferred; no ARM before three links; PASS and the blame are so, KILL is an interlock that failed unless a word was lost or misread (section 5); a ruling writes one key |
| `campaign` | 2 runners, 2 images, texts 6 to 8, 2 ruling pairs, 2 edits, no build inside a preamble | one start per ruling file; sessions as ruled; soaks calibrated on their image under a text that allows it |
| `books` | 3 candidates, one plan sampled and one full, 22 faults at any record, any end, 1 damage | honest sessions are judged by their end alone; KILL exactly for falsifiers; PASS means whole; `audited` is true |
| `image_swap` | `campaign` with builds at any moment | a report names another image than the board ran (finding) |
| `unsigned_hold` | `books` with 1 candidate, undamaged | an unsigned ARM that validates ends as a HOLD (finding) |

**Bounds and why they are enough.** `MaxFaults` is the only bound of RelSession and AuditPull that the code does not
have. Each exchange has three attempts, so 3 faults exhaust one and 4 in `pull_faults` reach one exhausted exchange plus a
fault in the next. Two candidates reach every relation between consecutive seqs (the late acknowledgement of seq 1 in the
sign wait of seq 2). `StaleLimit` (64 in the code) is out of reach of so few faults, so it is lowered to 2 where the
give-up path must fire (`pull_faults`, `term_linger`), and budgets to 1 for the same reason. In `term_linger` three faults spend
every attempt of the TERM; its times are small but in the order the code gives them (bound, poll and delays within the contract,
delay within the margin, poll cap above the bound), and each bound of the receiver is the first to run out in some behaviour. In ArmGate `MaxArms` is the model's bound:
three attempts are a first, a repetition (replayed tag) and one after a refusal; `SipCycles` and `VecCount` are small
because the gate's states differ only in their last cycle; `Order` is not the identity, so that a slice is not a prefix.
In `app_session` two genomes, `"other"` and two envelopes give every mixture a failed or misplaced write can leave. In `probe` two
restarts put one before and one after any step, or both in one stage, and one of the banners unseen. In
`plan` two edits reach every pair of an offence and its camouflage (a command dropped and put back elsewhere); the pool
holds each legal command that may be repeated, a near miss of each illegal kind, and words that the guard passes over (a NOOP in
the IDCODE's place, a command header with another count). `Relabel` is no edit: what a write plan says of itself may be brought to
agree with its commands at any time, as someone who rewrites the plan would. In `board_run` two envelopes tell a frame
of the candidate from a blank one; two sessions are a use and a reuse of the ruling. A session has one defect: with two, a gate that
validates what it should refuse and a misreading of just that, a control would make a false PASS, which no runner could notice. A gate
never shows "not valid" with no fault. In `campaign` two images and three texts are one image swap and one version
before, at and after the one that honours imports; two rulings reach the calibrations and a soak because
`FirstManifest` already pins calibrations. In `books` three candidates with `Every = 4` leave one record unaudited between
audited ones, and brackets on both ends.

**Fairness.** `rel_faults`, `pull_faults`: weak fairness of the board's next step and of the host's. The application is one
thread that either waits with a bound or acts, and the runner's loop reads and polls until its own end
(`host/l6_runner.py`); none of the link, none of the watchdog. `gate`: weak fairness of the clock and of the master's
steps. `term_linger`: weak fairness of the board's receiver and of the host. No strong fairness is used. Elsewhere only safety is stated. `CHECK_DEADLOCK` is on where an end is reached by
both sides (`Over`, an explicit stutter); it is off in `books`, `unsigned_hold`, `campaign`, `image_swap`, `plan` and
`term_linger`, whose systems stop for a good reason: the board has halted, the session is judged, the owner's bounds are spent, the edits are made.

## 4. What is proved

Eight modules of proofs, checked by TLAPS for every value of the constants that the modules' assumptions allow.

| Theorem | States | For |
|---|---|---|
| `ArmPath_proofs!TypeCorrect`, `Interlock`, `Settling`, `Sticky`, `RecordsTrue` | types; `ScoresOnlyVerified`; `SettledIsThisAttempt`; `FaultIsFinal`; `RecordsAreTrue` | all genomes, vector counts, slices, orders, targets, MAC latencies, poll bounds, attempts |
| `RelSession_proofs!TypeCorrect`, `Ordered`, `RecordsMatch`, `TermIsTrue`, `Implements` | types; `InOrder`; `RecordMatchesNotary`; `TermTellsTheTruth`; `KeepsPromise` (the refinement of `Handover`) | any number of candidates and faults, any limits |
| `RelSession_proofs!OrderEndsOnce`, `ProtocolHolds` | an order violation ends a session only over an unsigned stop; `ProtocolOnlyForUnsignedStop` | the same; the second where the bounds leave `ReplyRoom` |
| `TermLinger_proofs!TypeCorrect`, `Bounded`, `Covered` | types; `NoLineHoldsTheReceiver`; `LingerCoversLosses` | any attempts, bounds and delay within the contract (`BoundContract`), any number of faults, timer running or not |
| `TermLinger_proofs!FewFaultsAckedHolds` | `FewFaultsAcked` | the same, where the delay fits the receiver's bounds (`AnswersInTime`) |
| `ArmPath_proofs!Implements`, `Exhaustion`, `EndsAborted` | `KeepsPromise` (the refinement of `AuditPromise`); `UnconfirmedOnlyByExhaustion` for N > 1; `EndedPullIsAborted` | any number of chunks and faults, any limits, with or without stalls |
| `RefLoop_proofs!StrobesWhatItRead`, `StopIsQuiet`, `ChainHolds`, `SummaryHolds`, `LoopImplementsHandover` | `ArmsWhatItRead`; `OnlyRestoreAfterStop`; `LogIsAChain`; `SummaryIsTrue`; `KeepsPromise` (the refinement of `Handover`) | any genomes, budget and envelopes, both loops |
| `BoardProbe_proofs!TypeCorrect`, `TruthHolds`, `EngineCleanHolds` | types; `ChainTellsTheTruth`; `EngineLeftClean` | any chains that are `Chained`, any processes, restarts and lost banners |
| `ProbePlan_proofs!BuiltPlansAreAccepted`, `AcceptedPlansAreSound` | `BuiltIsAccepted`; `AcceptedIsSound` | any size of the destination buffer, any limit of a word above 3, any number of edits |
| `BoardRun_proofs!TypeCorrect`, `SpentOnce`, `LinkTwo`, `LinksHoldAlways`, `OutcomeHolds`, `BlameHolds` | types; `RulingSpentOnce`; `LinkTwoHolds`; `LinksHold`; `OutcomeIsTrue`; `BlameIsTrue` | any scripts that are `Ordered`, `Guarded` and `Shaped`, any sessions, askers and restarts |
| `Campaign_proofs!TypeCorrect`, `SpentOnce`, `AsRuled`, `ImportsRuled` | types; `RulingSpentOnce`; `RunsAsRuled`; `ImportsStayWhereRuled` | any runners, images, texts, rulings, edits |
| `Campaign_proofs!AuditedHolds`, `PassHolds` | `AuditedIsTrue`; `PassMeansWhole` of Books | any number of candidates, any plans and faults, any number of damages to the books |
| `Campaign_proofs!HonestHolds`, `KillHolds` | `HonestIsJudgedByItsEnd`; `KillMeansFalsified` of Books | any number of candidates, any plans and faults; the second where the books are damaged at most once (`MaxDamages <= 1`) |
| `Campaign_proofs!BindingTrue`, `SoakCalibrated` | `BindingIsTrue`; `SoakIsCalibrated` | the same, under `Quiet`: no image is built inside a preamble |

**ArmGate.** `ScoresOnlyVerified` alone is not inductive: a step into scoring says nothing about how `armed` was reached.
`IInv` adds three parts. `BusInv`: a write in flight is the one the master's position names, and the carrier is quiet
whenever the master stages or judges (this is where "nothing restaged under a running gate" is established, not assumed).
`GateInv`: what each gate state has already shown, in particular that during the sweep the vectors read so far agree with
the fabric. `AttemptInv`: where the nonce stands relative to the master's attempt. One detail the proof depends on: the
poll runs only after the write response, which is what makes "not busy" mean "not busy any more".

**The records of the gate.** What a record says was decided several steps before it is written, so the invariant follows the
attempt: `StagedInv`, the registers hold what the request put there; `RequestInv` (with `KindFits`), each kind of attempt has the
key, tag or table that is to be refused; `GateShows`, what the gate has meanwhile answered is the answer to that; `LogInv`, the
log is one nonce per attempt. Together with the invariant above they make each appended record true (`RecordIsTrue`).

**RelSession.** The books of two sides can only be related through the lines between them. `InFlight` says that every line,
whole or broken, lost later or not, was true when sent, and the lemmas show that what is true of a line stays
true: the books only grow (an answer, once given for a seq, is never changed) and the board's seq only advances. So a
late or repeated acknowledgement is harmless because it speaks of something that is still so. With `Books` (counts on both
sides, the last record, the end) this is inductive, and each step maps to a step of `Handover` or a stutter.
Two later invariants are about order and number. `OrderInv`: on a FIFO the lines of one seq come before those of the next, on
both lines, so the host sees a frame out of order in one case only (section 5). `CountFits` counts the answers of one
record, those sent, those on their way and those the sign wait has taken, and pays every repeated one from the host's two bounds
or from a fault. `ProtocolHolds` therefore needs `ReplyRoom`, that the strict rule's limit covers both bounds and the faults: with the
code's 3 replays, 2 re-requests and limit of 8 it holds for up to 4 faults of one session; more of them are not a
counterexample, only more than the count can pay.

**TermLinger.** `ClockInv` bounds the receive in progress. `OnTime` is a schedule: attempt k starts within k - 1 waits, its TERM
arrives a delay later, its answer two, and a `Wait` is a bound, a poll and two delays, which the contract keeps below the
host's figure; so the last TERM arrives within `Attempts - 1` waits and a delay, less than the linger
(`LingerIsEnough`). The schedule needs that what was read of a line still has its newline to come, which is false of cut
lines: without the condition `~cut` TLC finds the counterexample of section 5. `PayInv` is the account behind
`FewFaultsAcked`: a waiting board awaits its TERM, the answer to it or nothing, and an attempt that ended in nothing was paid for
by a fault of its own. Its condition `AnswersInTime`, that two delays of the link fit one bound of the clock and of the
polls, is what makes silence mean loss; the code's 8 s, 10^8 polls and three answers leave seconds for a delay of milliseconds.

**AuditPull.** `BoardFits` and `HostFits` are each side's own facts; `LinesToHost` and `LinesToBoard` say what a
line on its way implies of its sender. The hinge is FIFO order: on the board's line every READY precedes every chunk, so once
a chunk has reached the host no further pull can open, and before that only chunk 0 is asked for. For `Exhaustion`,
`AbortFits` and `MarkFits` (`Doomed`) follow what an ABORT on its way still decides. The theorem needs N > 1: for a span of one chunk TLC finds a late copy
of that chunk completing a second pull while the ABORT of the first is on its way. The real spans have eight.

**RefLoop.** `FabricFollows` (each envelope is what was last written or, after a failed DMA, remembered as
failed), `AuditFirst`, `EndsInOrder` and `ControlHasPayload`. One lemma per group of steps; the same invariants serve
both loops although their stops differ. `LogIsAChain` is a statement about numbers of records, so `BInv` ties the carrier's
nonce to what the records before a candidate consumed (`NonceFollows`, through `UsedAppend`) and every candidate in progress to
the entry the notary has for it (`BooksAgree`, `RecordFits`); the steps of `Handover` then follow from the lengths of the three books. `SInv`
is what each closing mark has behind it, from the step that set it to the summary that shows it.

**BoardProbe.** The chains are any that are `Chained`; the board may restart in any state, seen or unseen. `StageInv` is the
chain's place: the records so far are the stages so far, all good. `BootInv` is why an unseen restart cannot join two boots
into one PASS: the marker dies with the boot that set it, so a stage that begins is in the boot of all before it, except that the load
itself may have been lost before the marker was set, which the first stage that touches the fabric finds out (`BoardInv`:
nothing of the fabric outlives its boot). `ReadInv` follows the buffer from the prefill through the transfer to the readout: garbage,
or what was delivered, or the prefill when nothing was; this is what makes a verdict a statement about this very transfer. `SampleInv` does the
same for baseline and control. The last record of a running chain is good (`LastIsGood`), so a payload verdict can only
be the last one of a chain that stopped in its cleanup: `EngineLeftClean`.

**BoardRun.** The theorems are about any set of programs whose scripts are `Ordered` (a write follows its stage at once, a
provision its claim, the load is first), `Guarded` (the envelopes are written one after the other, an ARM comes after all of them
were written and read, after the claim and the reading of the key's state, and with nothing but its control behind it) and `Shaped` (negative controls are
L3's, with a candidate that is not blank); TLC confirms the three of the nine real ones. `LinkTwo` needs that a restart between approval
and transfer cannot leave the stream in the DMA's memory. `FabricInv` and `PathInv` are what a run that may arm has behind
it: each envelope written is the approved stream of the candidate, and since writes are in order the fabric is the candidate's when
the last one is done, or lost with its boot. `GateInv` ties key and nonce to the ARM. `OutInv` carries the score's word, its record and the defect over the control that follows it: with
one defect a session, an answer that was wrong was read as it was, and an answer misread had been the one owed, so what the log
accepts is the gate's word and what it rejects was a gate's failure or a misreading. `SealInv`
keeps the sealed run as the terminal read judges it, whichever process asks.

**Campaign.** `SpentOnce` rests on the claim being the creation of a file. `Measured` relates every report to
the image that ran; it holds only while nothing is built between preflight and load, hence `Quiet`, and `image_swap` shows
that the assumption is needed.

**Books.** The board is not believed and the books may be damaged any number of times, so the invariant (`BooksInv`) is what
no fault and no damage can undo. `LogHolds`: the records are those of the candidates in their order, with the genomes that were
really used, and a chunk says what was staged and read or was spoiled. `EndHolds`: a closing with its control has all candidates behind it, none
of which stopped, and names the nonce the unsigned ARM found. The rest is what acceptance adds: `Accepted`, `RecordRules` and `ControlRules` take
the verdict `ok` apart (no rule of `First` is broken, `FirstOk`), and an audit that is reassembled and compared leaves no
place for a spoiled chunk. Counting the chain needs no induction: in an accepted, closed log the consumed records are the scored ones.

What a verdict says of the board needs the opposite: what the books of a given session must look like. `SoundInv`: a session whose board
does nothing of what falsifies the claim leaves books that no rule can find false (`Harmless`: the numbers fit each record, an audit that can be
assembled is true, the control names the nonce that was spent), before and after one damage, since a damage takes something away, changes a count or
a mark, or makes the assembly ambiguous (`DamageKinds`); `NotFalse` goes through the rules in their order. Two damages can replace an audit word, one adding
the wrong word and one removing the right one; TLC then finds an honest session that is a KILL, hence the hypothesis of `KillHolds`. `WholeInv`: the books of a session that nothing
damaged are exactly those of its candidates (`FiledAs`, `Unspoilt`), of what it was given and of how it ended (`Given`, `Summed`).
From there each rule of the validator is decided by the fault alone: `MeasuredFalse` (link 2, nonce, tables), `AuditFalse` (staged or read
otherwise), `ControlDecides` (the closing ARM), and in a session without a fault no contract and no finding objects (`NothingFound`).

**Plans.** The guards and the engine are folds over a script of any length, and induction over data is out of reach. Each fold is
written (`Walk`) as a recursive function over the prefixes of the script and its step is an operator of its own, so a fold is its last
value (`*Unfolds`) and two lemmas, `UpTo` and `DownTo`, carry a fact along the prefixes; they rest on the well-foundedness
of the natural numbers, which the library states without an operator parameter. *Accepted is sound.* Tokens already emitted are never taken
back, except that the last may count more words, so tokens that end as the expected schedule were a part of it at every command (`Frozen`,
going backwards): this gives every command of an accepted plan its place in the schedule (`CommandStands`, `WriteCommandStands`).
What remains is to know what is in the buffers when a transfer fires. The two streams collected have together as many
words as their two tokens count, and neither can have more than its own; so each is whole where its token ends (`StreamsAt`). The count is where the read plan's hole is: a fill that claims 0, merged into
the token of a stream, adds nothing to it, and the proof needs `~Refilled` just there. A write plan's guard walks the stream as the
configuration logic does, and `Matched` relates the two walks word by word (`MatchOn`): same data, same commands, same words left of a burst. A
command whose header claims more words would put the logic out of step (`~Miscounted`), and that the device was ready at the burst is not
in the walk at all (`~Unready`); with both, an accepted stream `WritesOneFrame` (`StreamJudged`). `EngineAt` and `WriteAt` then say for each place what
the engine holds, one lemma for each kind of command, and its last place is `Sound` or `SoundWrite`. `PlanInv`
is the invariant of the edits: a plan stays a sequence of commands of its kind (`ReadCommand`, `WriteCommand`), that is, single-word writes of the
streams, whatever the words. *Built is
accepted.* A built script is laid out by place (`BuiltAt`, `WriteBuiltAt`), each walk is followed over its blocks (`Spelt`, `Drawn`,
`DmaNext`, `Walked`), and its soundness is that of any accepted plan. The one assumption, `SentinelAssumption`, is that 3, the sentinel the instance's
plans claim, is a word a plan may draw; the real limit is 2^32.

**Only model-checked.** Every invariant, every action property and every refinement that a passing run checks is a theorem. What stays
with TLC is liveness: `BoardHalts`, `HostEnds`, `PullEnds`, `StrobeSettles` and TermLinger's `BoardHalts`, because liveness under fairness and
ENABLED are beyond this prover. `BuiltIsAccepted` and `AcceptedIsSound` are proved for the planners' three plans and for edits from the two pools (the step from guard to engine, `WriteSound`, for any words at all);
a bulk write of a stream (`mw.l` into its buffer with a count above 1) is in neither, so of those nothing is shown. No module uses RECURSIVE.

## 5. Findings

Statements in the repository that a run refutes; `PROJECT.json` quotes them.

- `image_swap`: the L6 runner hashes the application image in preflight and reads the file again, unhashed, for the
  transfer minutes later; a rate report can bind a calibration to an image that did not run.
- `unsigned_hold`: the closing unsigned ARM that validates, a KILL in `docs/l5_prereg.md`, ends as a HOLD.

Met while modelling and kept as prose.

- Console: three lost SIGNREQs make the host end the epoch as a protocol error over the STOP_SIGN record
  (`host/l6_console.py:185`; `docs/l6_frame_reliability_design.md:312` promises the named stop); this is the exception in
  `ProtocolOnlyForUnsignedStop`. An answered seq can stay without a record although the stop is not STOP_SIGN
  (`firmware/p3_app.c:1261`; the design document, line 116). Under the crash policy a torn resend of an answered SIGNREQ
  ends the epoch CRASHED (`host/l6_console.py:406`).
- Linger: a TERMACK cut short costs the board one bound to abandon (`firmware/p3_rectx.c:138`) and then a fresh one of silence,
  so the next TERM comes two bounds later; one cut and one lost acknowledgement and the last TERM finds nobody reading, although the
  linger is said to cover both resends (`host/l6_rel.py:74`, `docs/l6_frame_reliability_design.md:187`). TLC finds it as soon as
  `LingerCoversLosses` is stated without `~cut`. Only the acknowledgement is lost, not the summary.
- Pull: one candidate can see a second pull and a second ABORT (`host/l6_console.py:432`, its comment at 337). An AUDIT line
  that arrives after its pull failed reaches the collector unchecked (`:466`); `AuditPromise` holds all the same because
  the board never confirms such a pull.
- Gate: `valid_latch` outlives the configuration it was set for (`rtl/p3_arm_gate.v:99`); the interlock does not rely on it.
- Application: the opening baseline sets the flag of the closing one (`firmware/p3_app.c:1386`), so every summary of a
  stop after it is refused by `validators/records.py:479`, before any falsifier is looked for; the conclusion is a HOLD.
  `docs/d1_standalone_spec.md` §4.0 wants the restore on PROTOCOL too and §3c a readback after it; the code restores on
  STOPPED only and does not read back.
- Plans: three holes, each an exception of `AcceptedIsSound`. The read plan's destination may be filled again, after its prefill was
  verified, by a fill whose value is 0 right before a stream (`scripts/pcap_probe_plan.py:451`, its comment at 444):
  `Refilled`. A write plan need have no IDCODE write (`scripts/pcap_write_plan.py:159` judges the value of one that is there, 139
  passes over the NOOP put in its place) and may have its WCFG after the burst (182 judges the order of the commands among
  themselves): `Unready`. The header of a command, an IDCODE or a FAR is not asked for its count, so that one that claims more words than it has passes while the
  device takes the next header for data: `Miscounted`, stated of the commands. None is in a plan the planners build, and
  `host/p1_runner.py:61` compares a write plan with the canonical one besides. Line 319 compares `frame_after` at a fixed
  offset, which is the burst's as long as no NOOP stands before it instead of behind it; so nothing is claimed of `frame_after`.
- Runs: a terminal JTAG read can be answered twice (`host/l3_diag_runner.py:173`, against `docs/l3_diag_spec.md:37`). A
  HOLD of L3's candidate becomes a KILL when the control after it fails (`host/l3_runner.py:538`; `docs/l3_design.md:23`
  agrees). The docstring of `host/l3_diag_runner.py` is stricter than its code, twice, and the table of
  `docs/l3_diag_spec.md:41` agrees with the code: NO_REPRODUCTION is said to mean that every PCAP read matched (15), and only the last read of each frame is looked
  at; FABRIC_BLANK is said to mean that PCAP and JTAG agree the frame is blank (17), and any PCAP read that is not PASS will do when the die is
  blank. `BlameIsTrue` states what the code's verdicts warrant. A restart between seal and terminal read can
  show as FABRIC_BLANK, which is why it speaks of runs without one.
- Runs, false KILLs: L4 says KILL of link 2 when the corrupting word itself, or the clear of INT_STS, was lost on the console
  (`host/l4_runner.py:84`, `:86`; the re-reading of 91 cannot tell, and `int_sts_before` is recorded and never looked at). L3 and
  L4 turn every rejection of the log into a KILL, one misread word of a record included, over whatever STOP, REFUSED or HOLD
  stood there (`host/l3_runner.py:540`, `host/l4_runner.py:163`), where L5 keeps a contract violation a HOLD
  (`validators/records.py:62`). These are the exceptions `lost` and `misread` of `KillIsReal`. A control not refused as expected is said
  to be a HOLD (`host/l3_runner.py:510`) but the log's rule on controls always makes it a KILL; and one refused with the expected fault by a gate
  that did not consume the nonce crashes the runner, because its note (384) is no field of the record
  (`validators/records.py:169`).
- Books: the partial audit chunks of a failed pull (`host/l6_console.py:289`) make the assembly fail and so mask an earlier
  falsifier as a HOLD.

## 6. Plan

Done: every module of section 2 with its run, and the theorems of section 4. What would come next, in order of worth:

1. A second bus master for ArmGate (torn nonce reads, a payload restaged under a running MAC), should the design ever
   get one; the two hazards are impossible with the present masters.
2. BoardRun's preflight of the pinned files and the evidence it leaves, joined to Campaign.
3. The receiver's time in the other transactions: only the TERM's has a deadline on the host's side.

## 7. Not modelled

- Data: frames, ECC and CRC words, genomes, LUT tables, search arithmetic, the signer's bytes. Names and injective
  functions stand for them. A line is whole, broken or lost, and a broken line is never taken for another whole one.
- Formatting, parsing, tokens and schema typing; evidence files; build tools; the AXI3 adapter; the operation of JTAG.
- Wall time: rates, distributions, heartbeat gaps, settle poll counts, stamps. Outside TermLinger, bounds that the code has in seconds
  are steps that may fire when their conditions allow (AuditPull says when).
- What needs two bus masters. The console reader's bytes (`host/l6_reader.py`, one sequential scan).
- Campaign: preflight is one atomic step and one board is used at a time; the pins other than image, text and calibration
  are represented by them.
- L6's superseded rec-v3 protocol; several audited candidates in a row; an honest board's impossible announcements.
- Books: one board fault per session; a damage never replaces an audit word in one step; a blank candidate is assumed legal where the restore is
  judged (`SummaryIsTrue`).

`PROJECT.json` gives the reason for each component.
