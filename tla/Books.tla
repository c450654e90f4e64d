------------------------------- MODULE Books -------------------------------
(* The books of a session and what the host concludes from them.            *)
(*                                                                          *)
(* A session leaves a log: the board's own loop records and summary, the    *)
(* notary's entries, the audit words it served, the transaction ledgers.    *)
(* The board is not believed: every claim a rule can check is checked, and  *)
(* the order of the rules decides whether a log is accepted, is a defect of *)
(* the instrument (HOLD) or falsifies the claim (KILL).  The validators are *)
(* modelled whole; the session is a generator of logs in which at most one  *)
(* thing is wrong on the board and MaxDamages things go wrong on the way.   *)
EXTENDS Sequences, Schedule

CONSTANTS N,        \* candidates between the two baselines
          Every,    \* every Every-th record is audited when sampling
          PerBeat,  \* SCORED records per record that may miss heartbeats
          Plans,    \* the plans considered: mode, policy, heartbeat rule
          Faults,   \* what may be wrong on the board, and at which record
          MaxDamages  \* damages done to the log after the session

ASSUME BooksAssumption ==
  /\ N \in Nat \ {0} /\ Every \in Nat \ {0} /\ PerBeat \in Nat \ {0} /\ MaxDamages \in Nat
  /\ Plans \subseteq [mode : Modes, policy : {"all-self-reporting", "sampled"}, hb : {"v06", "v07"}]
  /\ Faults \subseteq [kind : STRING, seq : Nat]

VARIABLES plan, fault,        \* chosen before the session
          silicon, truth,     \* the carrier's nonce, and what each candidate really staged
          log, pc, damages,   \* the books, and how far the session is
          verdict, outcome    \* the validator's and the runner's

booksVars == <<plan, fault, silicon, truth, log, pc, damages, verdict, outcome>>

Seqs == all_seqs(N)
Requested == IF plan.policy = "sampled" THEN sampled_audit_seqs(N, Every) ELSE Seqs
Arm(s) == schedule(N, plan.mode)[s]
DropBudget == crc_budget(expected_frames(N, Requested))
IsBracket(s) == s \in baseline_seqs(N)

(* The identity page, and the identity the application answers with. *)
Page == [master_seed |-> "seed", schedule_mode |-> plan.mode, operator_data |-> "map",
         protocol |-> "rel-v4", controls |-> TRUE]

-----------------------------------------------------------------------------
(* Rules, the first broken one of which gives the verdict.                  *)

Rule(holds, otherwise) == IF holds THEN "ok" ELSE otherwise

First(verdicts) ==
  LET broken == {i \in DOMAIN verdicts : verdicts[i] # "ok"}
  IN  IF broken = {} THEN "ok" ELSE verdicts[CHOOSE i \in broken : \A j \in broken : i <= j]

Each(Judged(_), n) == First([i \in 1 .. n |-> Judged(i)])

-----------------------------------------------------------------------------
(* One loop record.                                                         *)

Unsigned == {"REFUSED_BY_GATE", "STOP_SIGN"}
ArmOutcomes == {"STOP_SETTLE", "STOP_ARM", "REFUSED_BY_PL", "SCORED"}

Needs(o) ==
  CASE o = "REFUSED_BY_GATE" -> {"refusal"}
    [] o = "STOP_SIGN" -> {"stop"}
    [] o = "STOP_AUDIT" -> {"reply", "oracle", "auditStop"}
    [] o \in {"STOP_AXI", "STOP_LINK2"} -> {"reply"}
    [] OTHER -> {"reply", "oracle"}

Forbids(o) ==
  CASE o = "REFUSED_BY_GATE" -> {"reply", "arm", "score", "oracle"}
    [] o = "STOP_SIGN" -> {"reply", "refusal", "arm", "score", "oracle"}
    [] o \in {"STOP_AXI", "STOP_LINK2", "STOP_AUDIT"} -> {"arm", "score"}
    [] OTHER -> {}

\* The rules that follow the second link: what may be said without an ARM,
\* and what an ARM attempt must say.
ArmVerdict(r) ==
  LET o == r.outcome
      consumed == o \in {"REFUSED_BY_PL", "SCORED"}
  IN  First(<<
    Rule(r.read = r.commit /\ "arm" \in r.parts, "error"),
    Rule(o = "STOP_SETTLE" => "score" \notin r.parts /\ ~r.settled, "error"),
    Rule(o = "STOP_SETTLE" => r.na \in {r.nb, r.nb + 1}, "false"),
    Rule(o # "STOP_SETTLE" => r.settled, "error"),
    Rule(o = "STOP_ARM" => "score" \notin r.parts /\ r.na = r.nb, "error"),
    Rule(consumed => r.na = r.nb + 1, "false"),
    Rule(consumed => ((r.fault # 0) <=> (o = "REFUSED_BY_PL")), "error"),
    Rule(consumed => (("score" \in r.parts) <=> (o = "SCORED")), "error"),
    Rule(o = "SCORED" => r.hw = r.commit /\ r.tables = r.commit, "false")>>)

RecordVerdict(r) ==
  LET o == r.outcome
  IN  First(<<
    Rule(Needs(o) \subseteq r.parts /\ Forbids(o) \cap r.parts = {}, "error"),
    Rule(o = "STOP_SIGN" => ~r.audited, "error"),
    Rule(o \notin {"STOP_LINK2"} \cup Unsigned /\ "oracle" \in r.parts => r.staged = r.commit, "false"),
    Rule(o = "STOP_AUDIT" => ~r.audited, "error"),
    Rule(o = "STOP_LINK3" => {"arm", "score"} \cap r.parts = {} /\ r.read # r.commit, "error"),
    IF o \in ArmOutcomes THEN ArmVerdict(r) ELSE "ok">>)

SummaryVerdict(l) ==
  First(<<
    Rule(l.kind = "COMPLETED" => l.closing = {"restore", "baseline", "control"}, "error"),
    Rule(l.kind \in {"STOPPED", "PROTOCOL"} => l.closing \subseteq {"restore"}, "error"),
    Rule(l.kind = "CRASHED" => l.by = "collector" /\ l.closing = {}, "error"),
    Rule(l.audited <= l.total, "error"),
    Rule(l.dropped > DropBudget => l.kind \in {"PROTOCOL", "CRASHED"}, "error")>>)

-----------------------------------------------------------------------------
(* The audit gate: the served words, reassembled and recomputed.            *)

\* A streams-only audit is one chunk here, a full one two.
Whole(span) == IF span = "streams" THEN {0} ELSE {0, 1}

Assembled(chunks) ==
  /\ \A c, d \in chunks : c.seq = d.seq => c.span = d.span /\ (c.k = d.k => c = d)
  /\ \A c \in chunks : {d.k : d \in {e \in chunks : e.seq = c.seq}} = Whole(c.span)

Served(l) == {c.seq : c \in l.chunks}
Recorded(l) == {l.records[i].seq : i \in DOMAIN l.records}
Span(l, s) == (CHOOSE c \in l.chunks : c.seq = s).span
Words(l, s, k) == (CHOOSE c \in l.chunks : c.seq = s /\ c.k = k).words

self_report_class(r) ==
  IF r.outcome \in Unsigned \/ (r.outcome # "STOP_LINK2" /\ "oracle" \notin r.parts) THEN "none"
  ELSE IF r.outcome = "SCORED" THEN "scored" ELSE "auto"

WordsVerdict(l, r) ==
  LET link2 == r.outcome = "STOP_LINK2"
      staged == Words(l, r.seq, 0)
  IN  First(<<
    Rule(self_report_class(r) # "none", "error"),
    Rule(staged # "junk", "false"),
    Rule(link2 => staged # r.commit, "false"),
    Rule(~link2 => staged = r.staged, "false"),
    Rule(~link2 /\ Span(l, r.seq) = "full" => Words(l, r.seq, 1) = r.read, "false")>>)

\* mutant: a streams-only audit backs the readback too
HostMarkOfAnySpan(l, r) == r.seq \in Served(l)

(* Audited is what the host derives, never what the record says. *)
HostMark(l, r) == r.seq \in Served(l) /\ (r.outcome = "STOP_LINK2" \/ Span(l, r.seq) = "full")

\* mutant: the words are reassembled and never compared
VerifyShapeOnly(l) ==
  First(<<
    Rule(Assembled(l.chunks), "error"),
    Rule(Served(l) \subseteq Recorded(l), "error"),
    Each(LAMBDA i : IF l.records[i].seq \in Served(l)
                      THEN Rule(self_report_class(l.records[i]) # "none", "error") ELSE "ok",
         Len(l.records))>>)

Verify(l) ==
  First(<<
    Rule(Assembled(l.chunks), "error"),
    Rule(Served(l) \subseteq Recorded(l), "error"),
    Each(LAMBDA i : IF l.records[i].seq \in Served(l) /\ Assembled(l.chunks)
                      THEN WordsVerdict(l, l.records[i]) ELSE "ok",
         Len(l.records))>>)

HostAudited(l) == Cardinality({i \in DOMAIN l.records : HostMark(l, l.records[i])})

-----------------------------------------------------------------------------
(* The chain: what was signed is what was armed, attempt after attempt.     *)

Consumed(r) ==
  /\ "arm" \in r.parts
  /\ r.outcome # "STOP_ARM"
  /\ r.outcome = "STOP_SETTLE" => r.na # r.nb

Chain(l, i) == Cardinality({j \in 1 .. i : Consumed(l.records[j])})

Bound(l, i) ==
  LET r == l.records[i]
      o == r.outcome
      Answered(P(_)) == \E e \in l.entries : e.seq = r.seq /\ P(e)
      armed == o \notin Unsigned /\ "arm" \in r.parts
  IN  First(<<
    Rule(o = "STOP_SIGN" => i = Len(l.records), "error"),
    Rule(o = "REFUSED_BY_GATE" => Answered(LAMBDA e : e.answer = "refusal"), "error"),
    Rule(o \notin Unsigned => Answered(LAMBDA e : e.answer = "reply" /\ e.commit = r.commit), "error"),
    Rule(armed => Answered(LAMBDA e : e.nonce = r.nb), "false"),
    Rule(armed => r.nb = Chain(l, i - 1), "false")>>)

(* Every signature the host gave is accounted for by a record. *)
Orphans(l) == {e.seq : e \in l.entries} \ Recorded(l)

(* Where the scored records are, the first and the last of them. *)
Scored(l) == {i \in DOMAIN l.records : l.records[i].outcome = "SCORED"}
FirstScored(l) == l.records[CHOOSE i \in Scored(l) : \A j \in Scored(l) : i <= j]
LastScored(l) == l.records[CHOOSE i \in Scored(l) : \A j \in Scored(l) : i >= j]

F_ARM_AUTH == 13

Control(l) ==
  IF l.kind = "COMPLETED"
    THEN First(<<
      Rule(l.control # << >>, "error"),
      Rule(l.control = << >> \/ l.control[1].fault = F_ARM_AUTH, "false"),
      Rule(l.control = << >> \/ l.control[1].nb = Chain(l, Len(l.records)), "false"),
      Rule(Scored(l) # {} /\ FirstScored(l).commit = "blank" /\ LastScored(l).commit = "blank", "error")>>)
    ELSE Rule(l.control = << >>, "error")

(* The verdict on a log, in the order the rules are asked. *)
Validated(l) ==
  First(<<
    SummaryVerdict(l),
    Each(LAMBDA i : RecordVerdict(l.records[i]), Len(l.records)),
    Verify(l),
    Rule(\A i \in DOMAIN l.records : l.records[i].audited = HostMark(l, l.records[i]), "error"),
    Each(LAMBDA i : Bound(l, i), Len(l.records)),
    Rule(l.by = "app" => Orphans(l) = {}, "error"),
    Control(l),
    Rule(l.audited = HostAudited(l) /\ l.total = Len(l.records), "error")>>)

chain_length(l) == Chain(l, Len(l.records)) + (IF l.kind = "COMPLETED" THEN 1 ELSE 0)

-----------------------------------------------------------------------------
(* The policy, the schedule, the identity.                                  *)

check_audit_policy(l) ==
  \A i \in DOMAIN l.records :
    LET r == l.records[i]
        must == \/ self_report_class(r) = "auto"
                \/ self_report_class(r) = "scored" /\ r.seq \in Requested
    IN  must => HostMark(l, r)

\* mutant: a record without a label is not asked for one
check_arm_schedule_if_named(l) ==
  \A i \in DOMAIN l.records :
    LET r == l.records[i]
    IN  r.arm = "none" \/ (r.seq \in 2 .. N + 1 /\ r.arm = Arm(r.seq) /\ r.genome = Arm(r.seq))

check_arm_schedule(l) ==
  \A i \in DOMAIN l.records :
    LET r == l.records[i]
    IN  IF IsBracket(r.seq)
          THEN r.arm = "none"
          ELSE r.seq \in 2 .. N + 1 /\ r.arm = Arm(r.seq) /\ r.genome = Arm(r.seq)

check_l6_identity(l) == l.ident = Page

-----------------------------------------------------------------------------
(* The session checks of a log that was accepted: each is a HOLD.           *)

Heartbeats(l) ==
  LET scored == {l.records[i].seq : i \in Scored(l)}
      short == {s \in scored : l.missed[s] > 0}
      budget == hb_missing_budget(Cardinality(scored), PerBeat)
  IN  /\ Cardinality(short) <= budget
      /\ plan.hb = "v06" => \A s \in short : l.missed[s] = 1

structural_findings(l) ==
  /\ l.asked \subseteq Recorded(l)
  /\ \A i \in DOMAIN l.records :
       LET r == l.records[i]
           needs == \/ self_report_class(r) = "scored" /\ r.seq \in Requested
                    \/ self_report_class(r) = "auto"
       IN  needs => r.seq \in Served(l)
  /\ l.by = "app"
  /\ Heartbeats(l)

baseline_findings(l) ==
  /\ Scored(l) # {} /\ FirstScored(l).scores = "pinned"
  /\ l.kind = "COMPLETED" => Cardinality(Scored(l)) >= 2 /\ LastScored(l).scores = "pinned"

(* The transactions closed: every record by its own, and none without one. *)
rec_closure_findings(l) == l.recs = Recorded(l)
rel_closure_findings(l) ==
  /\ l.signs = Recorded(l)
  /\ \A i \in DOMAIN l.records : l.records[i].outcome # "STOP_SIGN"
  /\ l.kind # "PROTOCOL"
  /\ \A i \in DOMAIN l.records : HostMark(l, l.records[i]) => l.records[i].audited

rel_control_findings(l) == l.retried

soak_findings(l) == plan.policy = "sampled" => l.dropped <= DropBudget

NoFindings(l) ==
  /\ structural_findings(l) /\ baseline_findings(l) /\ rec_closure_findings(l)
  /\ rel_closure_findings(l) /\ rel_control_findings(l) /\ soak_findings(l)

Contracts(l) == check_audit_policy(l) /\ check_arm_schedule(l) /\ check_l6_identity(l)

\* mutant: a stopped session without findings passes
OutcomeOfAnyEnd(l, v) ==
  CASE v = "false" -> "KILL"
    [] v = "ok" /\ Contracts(l) /\ NoFindings(l) -> "PASS"
    [] OTHER -> "HOLD"

Outcome(l, v) ==
  CASE v = "false" -> "KILL"
    [] v = "ok" /\ Contracts(l) /\ NoFindings(l) /\ l.kind = "COMPLETED" -> "PASS"
    [] OTHER -> "HOLD"

-----------------------------------------------------------------------------
(* The session that leaves the books.  fault says what is wrong on the      *)
(* board and at which record; everything else happens as it must.           *)

NoFault == [kind |-> "none", seq |-> 0]
Bites(kind, s) == fault = [kind |-> kind, seq |-> s]

EmptyLog ==
  [ident |-> Page, records |-> << >>, entries |-> {}, chunks |-> {}, asked |-> {}, signs |-> {},
   recs |-> {}, missed |-> [s \in 1 .. N + 3 |-> 0], retried |-> TRUE, control |-> << >>,
   by |-> "app", kind |-> "none", closing |-> {}, audited |-> 0, total |-> 0, dropped |-> 0]

BooksInit ==
  /\ plan \in Plans
  /\ fault \in {NoFault} \cup Faults
  /\ silicon = 0
  /\ truth = << >>
  /\ log = [EmptyLog EXCEPT !.ident = IF fault.kind = "ident" THEN [Page EXCEPT !.schedule_mode = "other"] ELSE Page,
                            !.retried = fault.kind # "control",
                            !.dropped = IF fault.kind = "drops" THEN DropBudget + 1 ELSE DropBudget]
  /\ pc = "run"
  /\ damages = 0
  /\ verdict = "none" /\ outcome = "none"

NextSeq == Len(log.records) + 1

(* The application ends its search one candidate early, if that is the      *)
(* fault: the closing baseline then has the last candidate's number.        *)
Early == fault.kind = "short"
LastSeq == IF Early THEN N + 1 ELSE N + 2
Blank(s) == s \in {1, LastSeq}

OtherArm(a) == CHOOSE b \in Arms : b # a
Genome(s) ==
  IF Blank(s) THEN "blank"
  ELSE IF Bites("operator", s) THEN OtherArm(Arm(s)) ELSE Arm(s)
Label(s) ==
  IF Blank(s) THEN (IF Early /\ s = N + 1 /\ fault.seq = 1 THEN Arm(s) ELSE "none")
  ELSE IF Bites("label", s) THEN OtherArm(Arm(s)) ELSE Arm(s)

Record(s, o, parts) ==
  [seq |-> s, outcome |-> o, audited |-> FALSE, arm |-> Label(s), genome |-> Genome(s),
   parts |-> parts, commit |-> Genome(s), staged |-> Genome(s), read |-> Genome(s),
   nb |-> silicon, na |-> silicon, settled |-> TRUE, fault |-> 0,
   hw |-> Genome(s), tables |-> Genome(s), scores |-> "pinned"]

Entry(s, answer) == [seq |-> s, answer |-> answer, commit |-> Genome(s), nonce |-> silicon]

Chunks(s, span, t, ks) ==
  {[seq |-> s, span |-> span, k |-> k, words |-> IF k = 0 THEN t.staged ELSE t.read] : k \in ks}

(* What a candidate's staging buffer and fabric really hold. *)
Real(s) ==
  [staged |-> CASE Bites("staged", s) \/ Bites("link2", s) -> "other" [] Bites("junk", s) -> "junk" [] OTHER -> Genome(s),
   read |-> IF Bites("read", s) \/ Bites("brief", s) THEN "other" ELSE Genome(s)]

File(r, entries, chunks, t) ==
  /\ log' = [log EXCEPT !.records = Append(@, r), !.entries = @ \cup entries,
                        !.chunks = @ \cup chunks, !.asked = @ \cup {r.seq},
                        !.signs = @ \cup {r.seq}, !.recs = @ \cup {r.seq},
                        !.missed[r.seq] = CASE Bites("beat", r.seq) -> 1 [] Bites("beats", r.seq) -> 2 [] OTHER -> 0]
  /\ truth' = Append(truth, t)

\* A fault that has not bitten yet still bites: without it the session is
\* one of the sessions without a fault.
MayEndAt(s) == fault.seq <= s

Filing(s) == pc = "run" /\ s = NextSeq /\ s <= LastSeq
Steady == UNCHANGED <<plan, fault, damages, verdict, outcome>>

(* What a requested audit leaves: the whole words before the ARM. *)
AuditOf(s, t) ==
  IF s \notin Requested \/ Bites("skip", s) \/ Bites("forged", s) THEN {}
  ELSE IF Bites("brief", s) THEN Chunks(s, "streams", t, {0}) ELSE Chunks(s, "full", t, {0, 1})
MarkOf(s) == s \in Requested /\ ~Bites("skip", s)

(* A record that is never acknowledged ends the epoch, although the host    *)
(* has it.                                                                  *)
Score(s) ==
  /\ Filing(s)
  /\ LET t == Real(s)
         after == IF Bites("nonce", s) THEN silicon + 2 ELSE silicon + 1
     IN  /\ File([Record(s, "SCORED", {"reply", "oracle", "arm", "score"}) EXCEPT
                    !.audited = MarkOf(s), !.na = after,
                    !.staged = IF Bites("link2", s) THEN "other" ELSE @,
                    !.hw = IF Bites("hw", s) THEN "other" ELSE @,
                    !.tables = IF Bites("tables", s) THEN "other" ELSE @,
                    !.scores = IF Bites("scores", s) THEN "other" ELSE @],
                 {Entry(s, "reply")}, AuditOf(s, t), t)
         /\ silicon' = after
  /\ \/ pc' = IF s = LastSeq THEN "control" ELSE "run"
     \/ MayEndAt(s) /\ pc' = "unconfirmed"
  /\ Steady

RefuseAtGate(s) ==
  /\ Filing(s) /\ ~Blank(s)
  /\ File([Record(s, "REFUSED_BY_GATE", {"refusal"}) EXCEPT !.audited = FALSE],
          {Entry(s, "refusal")}, {}, Real(s))
  /\ \/ pc' = "run"
     \/ MayEndAt(s) /\ pc' = "unconfirmed"
  /\ UNCHANGED silicon /\ Steady

-----------------------------------------------------------------------------
(* The outcomes that end the epoch, each with the audit it may have served: *)
(* nothing, part of it, or all of it, confirmed on the board or not.        *)

Pulls(s, span, t) ==
  {[chunks |-> {}, audited |-> FALSE]}
    \cup {[chunks |-> Chunks(s, span, t, Whole(span)), audited |-> b] : b \in BOOLEAN}
    \cup (IF span = "full" THEN {[chunks |-> Chunks(s, span, t, {0}), audited |-> FALSE]} ELSE {})

Stop(r, entries, pull, t) ==
  /\ File([r EXCEPT !.audited = pull.audited], entries, pull.chunks, t)
  /\ pc' = "stopped"
  /\ Steady

StopSign(s) ==
  /\ Filing(s) /\ MayEndAt(s)
  /\ \E entries \in {{}, {Entry(s, "reply")}, {Entry(s, "refusal")}} :
       /\ Stop(Record(s, "STOP_SIGN", {"stop"}), entries, [chunks |-> {}, audited |-> FALSE], Real(s))
       /\ UNCHANGED silicon

StopLink2(s) ==
  /\ Filing(s) /\ MayEndAt(s)
  /\ LET t == [Real(s) EXCEPT !.staged = "other"]
     IN  \E pull \in Pulls(s, "streams", t) :
           /\ Stop([Record(s, "STOP_LINK2", {"reply"}) EXCEPT !.staged = "other"],
                   {Entry(s, "reply")}, pull, t)
           /\ UNCHANGED silicon

StopLink3(s) ==
  /\ Filing(s) /\ MayEndAt(s)
  /\ LET t == [Real(s) EXCEPT !.read = "other"]
     IN  \E pull \in Pulls(s, "full", t) :
           /\ Stop([Record(s, "STOP_LINK3", {"reply", "oracle"}) EXCEPT !.read = "other"],
                   {Entry(s, "reply")}, pull, t)
           /\ UNCHANGED silicon

(* STATUS refuses the ARM before it is made. *)
StopAxi(s) ==
  /\ Filing(s) /\ MayEndAt(s)
  /\ \E pull \in Pulls(s, "full", Real(s)) :
       /\ Stop(Record(s, "STOP_AXI", {"reply", "oracle"}), {Entry(s, "reply")}, pull, Real(s))
       /\ UNCHANGED silicon

(* The requested audit could not be completed, or not be confirmed. *)
StopAudit(s) ==
  /\ Filing(s) /\ MayEndAt(s) /\ s \in Requested
  /\ \E pull \in {p \in Pulls(s, "full", Real(s)) : ~p.audited} :
       /\ Stop(Record(s, "STOP_AUDIT", {"reply", "oracle", "auditStop"}), {Entry(s, "reply")}, pull,
               Real(s))
       /\ UNCHANGED silicon

(* An ARM that was hung, not consumed, or refused: the audit of a requested *)
(* candidate came before it, otherwise the stop makes its own.              *)
StopAtArm(s) ==
  /\ Filing(s) /\ MayEndAt(s)
  /\ \E o \in ArmOutcomes \ {"SCORED"}, step \in 0 .. 1, late \in 0 .. 1,
        pull \in Pulls(s, "full", Real(s)) :
       /\ s \in Requested => pull.audited
       /\ o = "STOP_ARM" => step = 0
       /\ o = "REFUSED_BY_PL" => step = 1
       /\ late = 1 => o = "STOP_SETTLE" /\ step = 0
       /\ Stop([Record(s, o, {"reply", "oracle", "arm"}) EXCEPT
                     !.na = silicon + step, !.settled = o # "STOP_SETTLE",
                     !.fault = IF o = "REFUSED_BY_PL" THEN F_ARM_AUTH ELSE 0],
               {Entry(s, "reply")}, pull, Real(s))
       /\ silicon' = silicon + step + late

(* The epoch stops inside a candidate without a record of it. *)
StopUnrecorded(s) ==
  /\ Filing(s) /\ MayEndAt(s)
  /\ \E answered \in BOOLEAN :
       log' = [log EXCEPT !.entries = @ \cup (IF answered THEN {Entry(s, "reply")} ELSE {}),
                          !.asked = @ \cup {s}, !.signs = @ \cup (IF answered THEN {s} ELSE {})]
  /\ pc' = "stopped"
  /\ UNCHANGED <<silicon, truth>> /\ Steady

-----------------------------------------------------------------------------
(* The end of the session.                                                  *)

BoardAudited(l) == Cardinality({i \in DOMAIN l.records : l.records[i].audited})

Summary(l, kind, closing) ==
  [l EXCEPT !.kind = kind, !.by = "app", !.closing = closing,
            !.audited = BoardAudited(l) + (IF fault.kind = "count" THEN 1 ELSE 0),
            !.total = Len(l.records)]

(* The application marks the closing baseline as done when any baseline is  *)
(* scored and acknowledged, the opening one included.                       *)
BaselineMark ==
  LET acknowledged == IF pc = "unconfirmed" THEN Len(log.records) - 1 ELSE Len(log.records)
  IN  IF \E i \in 1 .. acknowledged : Blank(i) /\ log.records[i].outcome = "SCORED"
        THEN {"baseline"} ELSE {}

(* The closing unsigned ARM: refused as it must be, refused for another     *)
(* reason, not settled, not consumed, or validated.  The last three stop    *)
(* the epoch without a control record, and say so in its reason alone.      *)
CloseSession ==
  /\ pc = "control"
  /\ \/ /\ fault.kind # "unsigned"
        /\ silicon' = silicon + 1
        /\ log' = [Summary(log, "COMPLETED", {"restore", "baseline", "control"}) EXCEPT
                     !.control = <<[fault |-> IF fault.kind = "refusal" THEN F_ARM_AUTH + 1 ELSE F_ARM_AUTH,
                                    nb |-> silicon]>>]
     \/ /\ silicon' \in IF fault.kind = "unsigned" THEN {silicon + 1} ELSE {silicon, silicon + 1}
        /\ log' = Summary(log, "STOPPED", {"restore"} \cup BaselineMark)
  /\ pc' = "ended"
  /\ UNCHANGED truth /\ Steady

(* A stop restores and sends its summary; a broken protocol restores        *)
(* nothing.                                                                 *)
EndStopped ==
  /\ pc \in {"stopped", "unconfirmed"}
  /\ \/ log' = Summary(log, "STOPPED", {"restore"} \cup BaselineMark)
     \/ /\ pc = "stopped" /\ ~(log.asked \subseteq Recorded(log))
        /\ log' = Summary(log, "PROTOCOL", BaselineMark)
  /\ pc' = "ended"
  /\ UNCHANGED <<silicon, truth>> /\ Steady

(* The count a collector's summary carries is the audit gate's. *)
crash_audit_count(l) == IF Verify(l) = "ok" THEN HostAudited(l) ELSE 0

(* The application is gone.  What was in flight: a signature, audit words.  *)
Crash ==
  /\ pc # "ended" /\ pc # "judged" /\ MayEndAt(NextSeq)
  /\ \E inFlight \in {"nothing", "signed", "audited"} :
       LET s == NextSeq
           l == [log EXCEPT !.entries = @ \cup (IF inFlight = "nothing" THEN {} ELSE {Entry(s, "reply")}),
                            !.chunks = @ \cup (IF inFlight = "audited" THEN Chunks(s, "full", Real(s), {0, 1}) ELSE {}),
                            !.asked = @ \cup (IF inFlight = "nothing" THEN {} ELSE {s})]
       IN  /\ inFlight # "nothing" => pc = "run" /\ s <= LastSeq
           /\ log' = [l EXCEPT !.by = "collector", !.kind = "CRASHED", !.audited = crash_audit_count(l),
                               !.total = Len(l.records)]
  /\ pc' = "ended"
  /\ UNCHANGED <<silicon, truth>> /\ Steady

-----------------------------------------------------------------------------
(* Damage to the books on their way: nothing the board or the carrier did.  *)

Damaged(l) ==
  {[l EXCEPT !.chunks = @ \ {c}] : c \in l.chunks}
    \cup {[l EXCEPT !.chunks = @ \cup {[c EXCEPT !.words = "junk"]}] : c \in l.chunks}
    \cup {[l EXCEPT !.entries = @ \ {e}] : e \in l.entries}
    \cup {[l EXCEPT !.records[i].audited = ~@] : i \in DOMAIN l.records}
    \cup (UNION {{[l EXCEPT !.records[i].parts = @ \ {p}] : p \in l.records[i].parts} : i \in DOMAIN l.records})
    \cup {[l EXCEPT !.records = SubSeq(@, 1, Len(@) - 1)] : i \in DOMAIN l.records \cap {1}}
    \cup {[l EXCEPT !.audited = @ + 1], [l EXCEPT !.total = @ + 1], [l EXCEPT !.control = << >>]}
    \cup {[l EXCEPT !.signs = @ \ {s}] : s \in l.signs}
    \cup {[l EXCEPT !.recs = @ \ {s}] : s \in l.recs}
    \cup {[l EXCEPT !.kind = k] : k \in {"COMPLETED", "STOPPED"}}

\* Bound: the books of a faulty board are damaged only if it completed.
MayDamage == damages < MaxDamages /\ (fault = NoFault \/ log.kind = "COMPLETED")

Damage ==
  /\ pc = "ended" /\ MayDamage
  /\ log' \in Damaged(log) \ {log}
  /\ damages' = damages + 1
  /\ UNCHANGED <<plan, fault, silicon, truth, pc, verdict, outcome>>

Adjudicate ==
  /\ pc = "ended"
  /\ verdict' = Validated(log)
  /\ outcome' = Outcome(log, verdict')
  /\ pc' = "judged"
  /\ UNCHANGED <<plan, fault, silicon, truth, log, damages>>

Candidate(s) ==
  \/ Score(s) \/ RefuseAtGate(s)
  \/ StopSign(s) \/ StopLink2(s) \/ StopLink3(s) \/ StopAxi(s) \/ StopAudit(s) \/ StopAtArm(s)
  \/ StopUnrecorded(s)

BooksNext ==
  \/ \E s \in Seqs : Candidate(s)
  \/ CloseSession \/ EndStopped \/ Crash
  \/ Damage \/ Adjudicate

BooksSpec == BooksInit /\ [][BooksNext]_booksVars

-----------------------------------------------------------------------------
(* What the verdicts are worth.                                             *)

Judged == pc = "judged"
Clean == fault = NoFault /\ damages = 0

(* An undamaged session of a sound board is judged by its end alone: a      *)
(* completed one passes whatever candidates the gate refused, every other   *)
(* is a HOLD (host/l5_runner.py:107, outcome_for).                          *)
HonestIsJudgedByItsEnd ==
  Judged /\ Clean => outcome = IF log.kind = "COMPLETED" THEN "PASS" ELSE "HOLD"

(* What docs/l5_prereg.md calls a falsification. *)
Falsifiers == {"staged", "read", "brief", "junk", "link2", "nonce", "hw", "tables", "refusal", "unsigned"}

(* Only a falsifier is a KILL: no loss, no duplicate and no miscount in the *)
(* books, on the board or on the way, is ever taken for one                 *)
(* (host/l5_runner.py:93, classify_rejection).                              *)
KillNeedsAFalsifier == Judged /\ outcome = "KILL" => fault.kind \in Falsifiers

(* A falsifier whose evidence is in the books of a completed, undamaged     *)
(* session is a KILL, and no other rule is asked before it                  *)
(* (validators/records.py:485).                                             *)
Evident(s) ==
  LET k == fault.kind
      r == log.records[s]
  IN  /\ fault.seq = s /\ r.outcome = "SCORED"
      /\ \/ k \in {"link2", "nonce", "hw", "tables"}
         \/ k \in {"staged", "read", "junk"} /\ s \in Requested
FalsifierIsKilled ==
  /\ Judged /\ damages = 0 /\ log.kind = "COMPLETED"
  /\ fault.kind = "refusal" \/ \E s \in DOMAIN log.records : Evident(s)
  => outcome = "KILL"
KillMeansFalsified == KillNeedsAFalsifier /\ FalsifierIsKilled

(* A PASS is a whole session: every candidate ran the scheduled operator,   *)
(* what was asked for was audited and is what was signed, the brackets are  *)
(* blank, every consumed ARM is in the chain and the unsigned one was       *)
(* refused, even when one thing is wrong on the board and another on the    *)
(* way (host/l6_runner.py:449).                                             *)
PassMeansWhole ==
  Judged /\ outcome = "PASS" =>
    /\ Len(log.records) = N + 2 /\ log.kind = "COMPLETED"
    /\ \A s \in Seqs :
         LET r == log.records[s]
         IN  /\ r.genome = IF IsBracket(s) THEN "blank" ELSE Arm(s)
             /\ r.outcome = "SCORED" /\ s \in Requested =>
                  r.audited /\ truth[s] = [staged |-> r.commit, read |-> r.commit]
    /\ silicon = Cardinality(Scored(log)) + 1
    /\ log.control[1].fault = F_ARM_AUTH

(* In an accepted log a record marked audited says what was really staged   *)
(* and read back (validators/audit.py:390).                                 *)
AuditedIsTrue ==
  Judged /\ verdict = "ok" =>
    \A s \in DOMAIN log.records :
      LET r == log.records[s]
      IN  r.audited =>
            IF r.outcome = "STOP_LINK2" THEN truth[s].staged # r.commit
            ELSE truth[s] = [staged |-> r.staged, read |-> r.read]

(* The session reached the closing control.                                 *)
ReachedControl(l) == Len(l.records) = LastSeq /\ l.records[LastSeq].outcome = "SCORED"

(* The closing unsigned ARM validated: the interlock did not hold.          *)
UnsignedArmIsKill ==
  Judged /\ fault.kind = "unsigned" /\ damages = 0 /\ log.by = "app" /\ ReachedControl(log)
  => outcome = "KILL"
=============================================================================
