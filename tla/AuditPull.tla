----------------------------- MODULE AuditPull -----------------------------
(***************************************************************************)
(* The host-paced audit pull of one candidate: the board's p3_pull_run     *)
(* (firmware/p3_pull.c) and the record that follows it (p3_app.c), against *)
(* the host's PullHost (host/l6_audit_pull.py) and the ConsoleSession that *)
(* creates, feeds and settles it (host/l6_console.py).                     *)
(*                                                                         *)
(* The link is RelSession's: it loses, breaks and repeats lines, and never *)
(* reorders them.  Every line carries the candidate's seq and the session's*)
(* token, and a chunk's content is the candidate's: they are abstract.  The*)
(* record's own transaction is RelSession's too; here it is one line that  *)
(* follows the pull's lines in order.                                      *)
(***************************************************************************)
EXTENDS Naturals, Sequences, FiniteSets

CONSTANTS
  N,              \* chunks of the span
  ReadyAttempts,  \* P3_PULL_READY_ATTEMPTS: announcements while no GET came
  WaitMax,        \* P3_PULL_WAIT_MAX: AUDITWAITs before the audit is given up
  StaleLimit,     \* P3_PULL_STALE_LIMIT: ignored lines that end one wait
  MaxRetries,     \* MAX_RETRIES: attempts of a chunk after the first
  DoneReplays,    \* DONE_REPLAY_MAX: AUDITWAITs one pull answers
  CrcBudget,      \* CRC-failed lines the epoch bears
  CrashPolicy,    \* bad_frame_policy: TRUE is BAD_FRAME_CRASH, FALSE is ledger
  BadBudget,      \* bad_frame_budget: malformed lines the ledger policy bears
  LongStall,      \* TRUE: the link may hold lines back past the board's bound
  MaxFaults       \* faults of the link in one behaviour (a bound of the model)

ASSUME PullAssumption ==
  /\ {N, ReadyAttempts, StaleLimit} \subseteq Nat \ {0}
  /\ {WaitMax, MaxRetries, DoneReplays, CrcBudget, BadBudget, MaxFaults} \subseteq Nat
  /\ {CrashPolicy, LongStall} \subseteq BOOLEAN

VARIABLES
  gated,      \* the SCORED path: the ARM waits for the audit the host asked for
  stage,      \* the application: "announce", "pull", "decide", "over"
  readySent,  \* p3_pull_result.ready_sent
  asked,      \* gets_seen # 0
  served,     \* served_mask
  waitsSent,  \* waits_sent
  stale,      \* lines ignored in this wait
  mark,       \* the record's `verified`, "open" until the pull ends
  armed,      \* the ARM that waited for the pull was issued
  b2h, h2b,   \* lines in flight, each way
  faults,     \* link faults so far
  pending,    \* a PullHost is in WAIT_CHUNK
  chunk, attempt, verified,  \* of that PullHost
  pulls,      \* how every settled pull of the candidate ended, in order
  replays,    \* done_replays of the last settled pull
  audits,     \* chunks of the candidate in Collector.audits
  aborts,     \* AUDITABORTs put on the wire, replays not counted
  crc, bad,   \* Timeline.crc_dropped, Timeline.bad_frames
  recorded,   \* the mark of the candidate's record at the host, "none" before
  end         \* Collector.epoch_end, "open" before it

board == <<gated, stage, readySent, asked, served, waitsSent, stale, mark, armed>>
puller == <<pending, chunk, attempt, verified>>
session == <<pulls, replays, audits, aborts>>
host == <<puller, session, crc, bad, recorded, end>>
pullVars == <<board, b2h, h2b, faults, host>>

-----------------------------------------------------------------------------
Chunks == 0 .. N - 1
Marks == {"audited", "replayed-only"}

BoardLine == [type : {"READY", "AUDIT", "WAIT", "REC"}, chunk : Chunks, mark : Marks \cup {"-"},
              form : {"ok", "crc", "malformed"}]
HostLine == [type : {"GET", "DONE", "ABORT"}, chunk : Chunks, form : {"ok", "broken"}]

Line(t, c) == [type |-> t, chunk |-> c, mark |-> "-", form |-> "ok"]
Record == [type |-> "REC", chunk |-> 0, mark |-> mark, form |-> "ok"]
Reply(t, c) == [type |-> t, chunk |-> c, form |-> "ok"]

\* Where a line sent may end up: with the reader, or wherever one fault of the
\* link leaves it.
FatesToHost(m) == {<<m>>, << >>, <<[m EXCEPT !.form = "crc"]>>, <<[m EXCEPT !.form = "malformed"]>>, <<m, m>>}
FatesToBoard(m) == {<<m>>, << >>, <<[m EXCEPT !.form = "broken"]>>, <<m, m>>}
Cost(fate, m) == IF fate = <<m>> THEN 0 ELSE 1
Spend(k) == faults + k <= MaxFaults /\ faults' = faults + k

\* One line, in a step that already cost `late` faults.
SendToHost(late, m) ==
  \E f \in FatesToHost(m) : Spend(late + Cost(f, m)) /\ b2h' = b2h \o f

SendToBoard(late, m) ==
  \E f \in FatesToBoard(m) : Spend(late + Cost(f, m)) /\ h2b' = h2b \o f

SendBoth(l, m) ==
  \E f \in FatesToBoard(l), g \in FatesToBoard(m) :
    Spend(Cost(f, l) + Cost(g, m)) /\ h2b' = h2b \o f \o g

QuietLine == b2h = << >> /\ h2b = << >>

-----------------------------------------------------------------------------
(* The board: p3_pull_run, then the record.                                 *)

AllServed == served = Chunks

\* p3_pull_run returns, and the record's mark is what it returned.
EndPull(m) == stage' = "decide" /\ mark' = m

Announce(late) == readySent' = readySent + 1 /\ SendToHost(late, Line("READY", 0))
CallForDoneForever(late) == UNCHANGED waitsSent /\ SendToHost(late, Line("WAIT", 0))
CallForDone(late) == waitsSent' = waitsSent + 1 /\ SendToHost(late, Line("WAIT", 0))

MayAnnounce == ~asked /\ readySent < ReadyAttempts
MayCallNever == FALSE
MayCall == asked /\ AllServed /\ waitsSent < WaitMax

\* A wait ran out: announce again while nobody asked, call for the DONE once
\* every chunk was served, both bounded; otherwise the audit is given up.
Expire(late) ==
  /\ stale' = 0
  /\ \/ MayAnnounce /\ Announce(late) /\ UNCHANGED <<stage, mark, waitsSent>>
     \/ MayCall /\ CallForDone(late) /\ UNCHANGED <<stage, mark, readySent>>
     \/ /\ ~MayAnnounce /\ ~MayCall
        /\ EndPull("replayed-only") /\ Spend(late)
        /\ UNCHANGED <<readySent, waitsSent, b2h>>

BoardAnnounce ==
  /\ stage = "announce"
  /\ stage' = "pull"
  /\ Announce(0)
  /\ UNCHANGED <<gated, asked, served, waitsSent, stale, mark, armed, h2b, host>>

Hears(t) == /\ stage = "pull"
            /\ h2b # << >>
            /\ Head(h2b).form = "ok" /\ Head(h2b).type = t
            /\ h2b' = Tail(h2b)

\* A chunk is served as often as it is asked for.
BoardServe ==
  /\ Hears("GET")
  /\ SendToHost(0, Line("AUDIT", Head(h2b).chunk))
  /\ asked' = TRUE
  /\ served' = served \cup {Head(h2b).chunk}
  /\ stale' = 0
  /\ UNCHANGED <<gated, stage, readySent, waitsSent, mark, armed, host>>

\* A DONE counts only after every chunk was served.
BoardDone ==
  /\ Hears("DONE")
  /\ EndPull(IF AllServed THEN "audited" ELSE "replayed-only")
  /\ UNCHANGED <<gated, readySent, asked, served, waitsSent, stale, armed, b2h, faults, host>>

BoardAbort ==
  /\ Hears("ABORT")
  /\ EndPull("replayed-only")
  /\ UNCHANGED <<gated, readySent, asked, served, waitsSent, stale, armed, b2h, faults, host>>

\* A broken line is ignored, and one too many ends the wait like its bound.
BoardIgnore ==
  /\ stage = "pull"
  /\ h2b # << >> /\ Head(h2b).form = "broken"
  /\ h2b' = Tail(h2b)
  /\ IF stale + 1 < StaleLimit
     THEN stale' = stale + 1 /\ UNCHANGED <<stage, mark, readySent, waitsSent, b2h, faults>>
     ELSE Expire(0)
  /\ UNCHANGED <<gated, asked, served, armed, host>>

\* The bound of the wait outlasts all the attempts of a chunk at the host, so
\* it runs out on a quiet line with no pull pending; any other time the link
\* stalled, which is one of its faults.
BoardBound ==
  /\ stage = "pull"
  /\ IF QuietLine /\ ~(pending /\ end = "open") THEN Expire(0) ELSE LongStall /\ Expire(1)
  /\ UNCHANGED <<gated, asked, served, armed, h2b, host>>

MayArmAnyway == gated

\* The ARM of a candidate whose audit was asked for waits for that audit.
MayArm == gated /\ mark = "audited"

BoardArm ==
  /\ stage = "decide"
  /\ MayArm /\ ~armed
  /\ armed' = TRUE
  /\ UNCHANGED <<gated, stage, readySent, asked, served, waitsSent, stale, mark, b2h, h2b, faults, host>>

BoardRecord ==
  /\ stage = "decide"
  /\ MayArm => armed
  /\ stage' = "over"
  /\ b2h' = Append(b2h, Record)
  /\ UNCHANGED <<gated, readySent, asked, served, waitsSent, stale, mark, armed, h2b, faults, host>>

\* The record's transaction and the waits after it ignore what is left of the
\* pull.
BoardDiscard ==
  /\ stage = "over"
  /\ h2b # << >>
  /\ h2b' = Tail(h2b)
  /\ UNCHANGED <<board, b2h, faults, host>>

BoardNext ==
  \/ BoardAnnounce \/ BoardServe \/ BoardDone \/ BoardAbort \/ BoardIgnore
  \/ BoardBound \/ BoardArm \/ BoardRecord \/ BoardDiscard

-----------------------------------------------------------------------------
(* The host: PullHost inside ConsoleSession.                                *)

Open == end = "open"
Get(c) == Reply("GET", c)
Abort == Reply("ABORT", 0)
Done == Reply("DONE", 0)

\* _pull_settle: the PullHost is torn down and becomes last_pull.
Settle(how) ==
  /\ pending' = FALSE
  /\ pulls' = Append(pulls, how)
  /\ replays' = 0
  /\ UNCHANGED <<chunk, attempt>>

\* _fail: one ABORT.
FailPull == /\ Settle("failed")
            /\ aborts' = aborts + 1
            /\ UNCHANGED <<verified, audits>>

RetriesLeft == attempt < MaxRetries

\* _attempt_failed: ask again, or give the pull up.
AttemptFailed(late) ==
  IF RetriesLeft
  THEN /\ attempt' = attempt + 1
       /\ SendToBoard(late, Get(chunk))
       /\ UNCHANGED <<pending, chunk, verified, session>>
  ELSE FailPull /\ SendToBoard(late, Abort)

FailSilentlyOnLastAttempt ==
  IF RetriesLeft
  THEN FailPull /\ SendBoth(Get(chunk), Abort)
  ELSE Settle("failed") /\ UNCHANGED <<verified, audits, aborts, h2b, faults>>

\* The CRC budget is crossed on a line of the pull: the line is its attempt
\* first, then the pull fails, with one ABORT in all.
FailOverBudget ==
  /\ FailPull
  /\ IF RetriesLeft THEN SendBoth(Get(chunk), Abort) ELSE SendToBoard(0, Abort)

NoPullChange == UNCHANGED <<puller, session, h2b, faults>>

HostTakes(form) == b2h # << >> /\ Head(b2h).form = form /\ b2h' = Tail(b2h)
HostHears(t) == Open /\ HostTakes("ok") /\ Head(b2h).type = t

\* A READY authorises a pull of the candidate whose record is outstanding.
HostReady ==
  /\ HostHears("READY") /\ ~pending
  /\ IF recorded = "none"
     THEN /\ pending' = TRUE /\ chunk' = 0 /\ attempt' = 0 /\ verified' = {}
          /\ SendToBoard(0, Get(0))
          /\ UNCHANGED <<session, end>>
     ELSE end' = "PROTOCOL_PULL" /\ NoPullChange
  /\ UNCHANGED <<board, crc, bad, recorded>>

HostReadyAgain ==
  /\ HostHears("READY") /\ pending
  /\ UNCHANGED <<board, h2b, faults, host>>

StaleDuplicate(c) == c < chunk /\ c \in verified

\* The chunk asked for is verified and harvested; the last one ends the pull.
HostVerify ==
  /\ HostHears("AUDIT") /\ pending
  /\ Head(b2h).chunk = chunk
  /\ verified' = verified \cup {chunk}
  /\ audits' = audits \cup {chunk}
  /\ IF chunk + 1 < N
     THEN /\ chunk' = chunk + 1 /\ attempt' = 0
          /\ SendToBoard(0, Get(chunk + 1))
          /\ UNCHANGED <<pending, pulls, replays>>
     ELSE Settle("done") /\ SendToBoard(0, Done)
  /\ UNCHANGED <<board, aborts, crc, bad, recorded, end>>

\* A late copy of a chunk already verified is ignored; any other chunk that
\* was not asked for is a failed attempt.
HostWrongChunk ==
  /\ HostHears("AUDIT") /\ pending
  /\ Head(b2h).chunk # chunk
  /\ IF StaleDuplicate(Head(b2h).chunk) THEN NoPullChange ELSE AttemptFailed(0)
  /\ UNCHANGED <<board, crc, bad, recorded, end>>

\* With no pull pending an AUDIT line is the collector's, which keeps it.
HostUnpulledAudit ==
  /\ HostHears("AUDIT") /\ ~pending
  /\ audits' = audits \cup {Head(b2h).chunk}
  /\ UNCHANGED <<board, h2b, faults, puller, pulls, replays, aborts, crc, bad, recorded, end>>

\* AUDITWAIT: the settled pull's DONE or ABORT again, within its bound.
HostWait ==
  /\ HostHears("WAIT")
  /\ IF ~pending /\ pulls # << >> /\ replays < DoneReplays
     THEN /\ replays' = replays + 1
          /\ SendToBoard(0, IF pulls[Len(pulls)] = "done" THEN Done ELSE Abort)
          /\ UNCHANGED <<puller, pulls, audits, aborts>>
     ELSE NoPullChange
  /\ UNCHANGED <<board, crc, bad, recorded, end>>

\* A record is accepted whether or not a pull is still pending.
HostRecord ==
  /\ HostHears("REC")
  /\ recorded' = Head(b2h).mark
  /\ UNCHANGED <<board, h2b, faults, puller, session, crc, bad, end>>

\* The chunk's deadline, on a quiet line or because the link was late.
HostTimeout ==
  /\ Open /\ pending
  /\ AttemptFailed(IF QuietLine THEN 0 ELSE 1)
  /\ UNCHANGED <<board, b2h, crc, bad, recorded, end>>

\* A CRC-failed line: the pull's failed attempt, and the budget for all types.
HostCrcFailed ==
  /\ Open /\ HostTakes("crc")
  /\ crc' = crc + 1
  /\ IF crc + 1 > CrcBudget
     THEN /\ end' = "PROTOCOL_CRC_BUDGET"
          /\ IF pending THEN FailOverBudget ELSE NoPullChange
     ELSE /\ UNCHANGED end
          /\ IF pending THEN AttemptFailed(0) ELSE NoPullChange
  /\ UNCHANGED <<board, bad, recorded>>

\* A malformed line: past the budget the pull fails without another attempt;
\* outside a pull the crash policy ends the epoch.
HostMalformed ==
  /\ Open /\ HostTakes("malformed")
  /\ bad' = bad + 1
  /\ IF ~CrashPolicy /\ bad + 1 > BadBudget
     THEN /\ end' = "PROTOCOL_BAD_FRAME_BUDGET"
          /\ IF pending THEN FailPull /\ SendToBoard(0, Abort) ELSE NoPullChange
     ELSE IF pending
     THEN AttemptFailed(0) /\ UNCHANGED end
     ELSE /\ end' = IF CrashPolicy THEN "CRASHED_FRAME" ELSE end
          /\ NoPullChange
  /\ UNCHANGED <<board, crc, recorded>>

\* After the end nothing on the line is evidence.
HostAfterEnd ==
  /\ ~Open /\ b2h # << >>
  /\ b2h' = Tail(b2h)
  /\ UNCHANGED <<board, h2b, faults, host>>

HostNext ==
  \/ HostReady \/ HostReadyAgain \/ HostVerify \/ HostWrongChunk \/ HostUnpulledAudit
  \/ HostWait \/ HostRecord \/ HostTimeout \/ HostCrcFailed \/ HostMalformed \/ HostAfterEnd

-----------------------------------------------------------------------------
PullInit ==
  /\ gated \in BOOLEAN
  /\ stage = "announce" /\ readySent = 0 /\ asked = FALSE /\ served = {}
  /\ waitsSent = 0 /\ stale = 0 /\ mark = "open" /\ armed = FALSE
  /\ b2h = << >> /\ h2b = << >> /\ faults = 0
  /\ pending = FALSE /\ chunk = 0 /\ attempt = 0 /\ verified = {}
  /\ pulls = << >> /\ replays = 0 /\ audits = {} /\ aborts = 0
  /\ crc = 0 /\ bad = 0 /\ recorded = "none" /\ end = "open"

Over == stage = "over" /\ QuietLine /\ ~(pending /\ Open) /\ UNCHANGED pullVars

PullNext == BoardNext \/ HostNext \/ Over

PullSpec == PullInit /\ [][PullNext]_pullVars

\* The application's loop runs, and so does the runner's while it lives.
FairPullSpec == PullSpec /\ WF_pullVars(BoardNext) /\ WF_pullVars(HostNext)

-----------------------------------------------------------------------------
(* Properties.                                                              *)

\* A pull the host completed and the board did not confirm cost every
\* AUDITWAIT the board had: a lost DONE alone never turns into
\* `replayed-only` (p3_pull.c against PullHost.on_wait).
UnconfirmedOnlyByExhaustion ==
  "done" \in {pulls[i] : i \in DOMAIN pulls} /\ mark = "replayed-only" => waitsSent = WaitMax

\* An epoch that ends while a pull is pending fails that pull and tells the
\* board, with exactly one ABORT, whichever attempt the last line was
\* (l6_console.py on_line, both budgets).
EndedPullIsAborted ==
  [][pending /\ end = "open" /\ end' # "open" => ~pending' /\ aborts' = aborts + 1]_pullVars

\* The pull ends on the board, and the host has the record or ended the epoch.
PullEnds == <>(stage = "over") /\ <>(recorded # "none" \/ end # "open")

\* What the pull promises, with the host's harvest as the chunks it holds.
Promise == INSTANCE AuditPromise WITH held <- audits
KeepsPromise == Promise!Spec

=============================================================================
