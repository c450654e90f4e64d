----------------------------- MODULE RelSession -----------------------------
(***************************************************************************)
(* The rel-v4 console session: the board application's transactions        *)
(* (IDENT, SIGNREQ, REC, TERM over firmware/p3_rectx.c) against the host's *)
(* ConsoleSession (host/l6_console.py with the hosts of host/l6_rel.py,    *)
(* the relay and the collector of host/l5_notary.py), over a serial link   *)
(* that loses, breaks and repeats lines but never reorders them.           *)
(*                                                                         *)
(* A line is a record; its token is the session's, its bytes are abstract. *)
(* What the device does between the sign reply and the record is one step  *)
(* (BoardWork); the audit pull that may happen there is module AuditPull.  *)
(***************************************************************************)
EXTENDS Naturals, Sequences, FiniteSets

CONSTANTS
  NCand,         \* candidates of the session, both baselines included
  Attempts,      \* P3_RECTX_ATTEMPTS: transmissions of one line
  StaleLimit,    \* P3_RECTX_STALE_LIMIT: foreign lines that end one wait
  PrevAckLimit,  \* P3_RECTX_PREV_ACK_LIMIT: late acknowledgements a sign wait bears
  HostGets,      \* HOST_MAX_GETS, REC_HOST_MAX_GETS: re-requests per ledger
  HostReplays,   \* HOST_MAX_REPLAYS, REC_MAX_ATTEMPTS: acknowledgements per ledger
  RecControl,    \* flags.bit4: seq 1's REC is sent broken once, on purpose
  SignControl,   \* flags.bit5: the same for seq 1's SIGNREQ
  CrcBudget,     \* CRC-failed lines the epoch bears
  CrashPolicy,   \* bad_frame_policy: TRUE is BAD_FRAME_CRASH, FALSE is ledger
  BadBudget,     \* bad_frame_budget: malformed lines the ledger policy bears
  SilenceBounds, \* board bounds that fit in the collector's 3 heartbeats
  MaxFaults      \* faults of the link, and resets of the board, in one
                 \* behaviour (a bound of the model)

ASSUME SessionAssumption ==
  /\ NCand \in Nat /\ NCand >= 2
  /\ Attempts \in Nat \ {0}
  /\ StaleLimit \in Nat \ {0}
  /\ {PrevAckLimit, HostGets, HostReplays, CrcBudget, BadBudget,
      SilenceBounds, MaxFaults} \subseteq Nat
  /\ {RecControl, SignControl, CrashPolicy} \subseteq BOOLEAN

VARIABLES
  stage,     \* where the application is: a transaction, "work", "close", or over
  waiting,   \* the transaction's line was sent and its answer is awaited
  attempts,  \* p3_rectx_result.attempts
  stale,     \* lines ignored in this wait
  prevAcks,  \* late acknowledgements borne in this transaction
  seq,       \* S.seq
  outcome,   \* the outcome of the record of seq, once it is built
  confirmed, \* outcomes of the records whose transaction was acknowledged
  why,       \* S.kind with S.reason: the first cause of the end
  b2h, h2b,  \* lines in flight, each way
  faults,    \* faults so far, of the link and of the board
  ident,     \* IdentHost: "none", "established" or "refused"
  notary,    \* NotaryRelay.entries
  records,   \* Collector.loop_records
  gets,      \* Ledger.gets_sent per transaction
  acks,      \* Ledger.acks_sent (SIGNREQ: replays) per transaction
  crc, bad,  \* Timeline.crc_dropped, Timeline.bad_frames
  closing,   \* Collector.closing_negative is known
  quiet,     \* board bounds that ran out since the host heard a valid line
  end        \* Collector.epoch_end, "open" before it

board == <<stage, waiting, attempts, stale, prevAcks, seq, outcome, confirmed, why>>
ledgers == <<gets, acks, crc, bad>>
host == <<ident, notary, records, gets, acks, crc, bad, closing, end>>
vars == <<board, b2h, h2b, faults, host, quiet>>

-----------------------------------------------------------------------------
(* Lines.  `form` says how the line arrives: intact, CRC-failed or          *)
(* malformed, and of a broken one whether its head still shows its seq.     *)

Seqs == 0 .. NCand + 1
Cands == 1 .. NCand
Outcomes == {"SCORED", "REFUSED_BY_GATE", "STOP_SIGN", "STOP_DEVICE"}
Causes == {"COMPLETED", "IDENT_REFUSED", "STOP_IDENT", "STOP_SIGN", "STOP_REC", "STOP_DEVICE", "PROTOCOL"}
BoardTypes == {"IDENT", "SIGNREQ", "REC", "CLOSE", "TERM"}
HostTypes == {"IDENTACK", "SIGNOK", "SIGNREF", "SIGNGET", "RECACK", "RECGET", "TERMACK", "TERMGET"}
CrcForms == {"crc", "crc_noseq"}
MalForms == {"malformed", "malformed_noseq"}
BadForms == CrcForms \cup MalForms
Forms == BadForms \cup {"ok"}

BoardLine == [type : BoardTypes, seq : Seqs, body : Outcomes \cup Causes \cup {"-"}, form : Forms]
HostLine == [type : HostTypes, seq : Seqs, form : {"ok", "broken"}]

Line(t, s, b) == [type |-> t, seq |-> s, body |-> b, form |-> "ok"]
Reply(t, s) == [type |-> t, seq |-> s, form |-> "ok"]

\* One transmission to the host: delivered whole, or one fault of the link.
SendToHost(m) ==
  \/ b2h' = Append(b2h, m) /\ UNCHANGED faults
  \/ /\ faults < MaxFaults
     /\ faults' = faults + 1
     /\ \/ b2h' = b2h
        \/ \E f \in BadForms : b2h' = Append(b2h, [m EXCEPT !.form = f])
        \/ b2h' = Append(Append(b2h, m), m)

SendToBoard(m) ==
  \/ h2b' = Append(h2b, m) /\ UNCHANGED faults
  \/ /\ faults < MaxFaults
     /\ faults' = faults + 1
     /\ \/ h2b' = h2b
        \/ h2b' = Append(h2b, [m EXCEPT !.form = "broken"])
        \/ h2b' = Append(Append(h2b, m), m)

\* head_fields: what a broken line's head still says.
HeadSays(m, k) == m.form \in {"crc", "malformed"} /\ m.seq = k
HeadMaySay(m, k) == m.form \in {"crc_noseq", "malformed_noseq"} \/ m.seq = k

Silent == UNCHANGED <<h2b, faults>>

-----------------------------------------------------------------------------
(* The board: p3_tx_run and the application around it.                      *)

TxStages == {"ident", "sign", "rec", "term"}
Stages == TxStages \cup {"work", "close", "halted", "reset"}

\* The seq every line of the transaction in flight carries.
TxSeq == CASE stage = "ident" -> 0
           [] stage \in {"sign", "rec"} -> seq
           [] OTHER -> seq + 1

AckTypesWithGet == [ident |-> {"IDENTACK"}, sign |-> {"SIGNOK", "SIGNREF"}, rec |-> {"RECACK", "RECGET"}, term |-> {"TERMACK"}]

\* The kinds of p3_tx_kinds: what acknowledges, what asks again.
AckTypes == [ident |-> {"IDENTACK"}, sign |-> {"SIGNOK", "SIGNREF"}, rec |-> {"RECACK"}, term |-> {"TERMACK"}]
GetType == [ident |-> "none", sign |-> "SIGNGET", rec |-> "RECGET", term |-> "TERMGET"]

\* The line of the transaction: built once, the same bytes on every attempt.
TxLine == CASE stage = "ident" -> Line("IDENT", 0, "-")
            [] stage = "sign" -> Line("SIGNREQ", seq, "-")
            [] stage = "rec" -> Line("REC", seq, outcome)
            [] OTHER -> Line("TERM", seq + 1, why)

\* The forced-retry controls corrupt the first transmission of seq 1.
Corrupted == /\ attempts = 0
             /\ seq = 1
             /\ (stage = "rec" /\ RecControl) \/ (stage = "sign" /\ SignControl)

\* p3_stop: the first cause is the one recorded.
Stop(cause) == why' = IF why = "-" THEN cause ELSE why

StartTx(s) == /\ stage' = s
              /\ waiting' = FALSE
              /\ attempts' = 0
              /\ stale' = 0
              /\ prevAcks' = 0

\* The head of run_candidate: the next seq, and whatever is already in the
\* receiver is flushed before the SIGNREQ.
StartCandidate(rest) ==
  /\ StartTx("sign")
  /\ seq' = seq + 1
  /\ outcome' = "-"
  /\ \E n \in 0 .. Len(rest) : h2b' = SubSeq(rest, n + 1, Len(rest))

\* The reason of the stop that follows an unacknowledged record, or a record
\* that is itself a stop.
RecStop == IF outcome \in {"SCORED", "REFUSED_BY_GATE"} THEN "STOP_REC" ELSE outcome

ExhaustedTermAgain ==
  /\ CASE stage = "sign" -> StartTx("rec") /\ outcome' = "STOP_SIGN" /\ UNCHANGED why
       [] stage = "ident" -> StartTx("term") /\ Stop("STOP_IDENT") /\ UNCHANGED outcome
       [] stage = "rec" -> StartTx("term") /\ Stop(RecStop) /\ UNCHANGED outcome
       [] OTHER -> StartTx("term") /\ UNCHANGED <<why, outcome>>
  /\ UNCHANGED <<seq, confirmed>>

\* The transaction ran out of attempts: each caller's own stop.
Exhausted ==
  /\ CASE stage = "sign" -> StartTx("rec") /\ outcome' = "STOP_SIGN" /\ UNCHANGED why
       [] stage = "ident" -> StartTx("term") /\ Stop("STOP_IDENT") /\ UNCHANGED outcome
       [] stage = "rec" -> StartTx("term") /\ Stop(RecStop) /\ UNCHANGED outcome
       [] OTHER -> StartTx("halted") /\ UNCHANGED <<why, outcome>>
  /\ UNCHANGED <<seq, confirmed>>

\* A re-request, the bound, or one foreign line too many: the same bytes
\* again, or no attempt left.  `p` late acknowledgements were borne so far.
ResendOrExhaust(p) ==
  IF attempts < Attempts
  THEN /\ waiting' = FALSE
       /\ stale' = 0
       /\ prevAcks' = p
       /\ UNCHANGED <<stage, attempts, seq, outcome, confirmed, why>>
  ELSE Exhausted

Ignored(p) ==
  IF stale + 1 < StaleLimit
  THEN /\ stale' = stale + 1
       /\ prevAcks' = p
       /\ UNCHANGED <<stage, waiting, attempts, seq, outcome, confirmed, why>>
  ELSE ResendOrExhaust(p)

BoardSend ==
  /\ stage \in TxStages
  /\ ~waiting
  /\ waiting' = TRUE
  /\ attempts' = attempts + 1
  /\ IF Corrupted
     THEN b2h' = Append(b2h, [TxLine EXCEPT !.form = "crc"]) /\ UNCHANGED faults
     ELSE SendToHost(TxLine)
  /\ UNCHANGED <<stage, stale, prevAcks, seq, outcome, confirmed, why, h2b, host, quiet>>

\* What the application does when its transaction is acknowledged by `m`.
Acknowledged(m, rest) ==
  CASE stage = "ident" ->
         /\ \/ StartCandidate(rest) /\ UNCHANGED why
            \/ StartTx("term") /\ Stop("IDENT_REFUSED") /\ h2b' = rest /\ UNCHANGED <<seq, outcome>>
         /\ UNCHANGED confirmed
    [] stage = "sign" ->
         /\ IF m.type = "SIGNREF"
            THEN StartTx("rec") /\ outcome' = "REFUSED_BY_GATE"
            ELSE StartTx("work") /\ UNCHANGED outcome
         /\ h2b' = rest
         /\ UNCHANGED <<seq, confirmed, why>>
    [] stage = "rec" ->
         /\ confirmed' = Append(confirmed, outcome)
         /\ IF outcome \in {"STOP_SIGN", "STOP_DEVICE"}
            THEN StartTx("term") /\ Stop(outcome) /\ h2b' = rest /\ UNCHANGED <<seq, outcome>>
            ELSE /\ UNCHANGED why
                 /\ IF seq < NCand
                    THEN StartCandidate(rest)
                    ELSE StartTx("close") /\ h2b' = rest /\ UNCHANGED <<seq, outcome>>
    [] OTHER ->
         StartTx("halted") /\ h2b' = rest /\ UNCHANGED <<seq, outcome, confirmed, why>>

Receiving == stage \in TxStages /\ waiting /\ h2b # << >>

\* Under the strict rule of the sign wait an acknowledgement of a record is
\* judged before anything else; elsewhere it is only another foreign line.
StrictLine(m) == stage = "sign" /\ m.form = "ok" /\ m.type \in {"RECACK", "RECGET"}
LineOfTx(m) == m.form = "ok" /\ ~StrictLine(m) /\ m.seq = TxSeq

BoardRecvAck ==
  /\ Receiving
  /\ LineOfTx(Head(h2b))
  /\ Head(h2b).type \in AckTypes[stage]
  /\ Acknowledged(Head(h2b), Tail(h2b))
  /\ UNCHANGED <<b2h, faults, host, quiet>>

BoardRecvGet ==
  /\ Receiving
  /\ LineOfTx(Head(h2b))
  /\ Head(h2b).type = GetType[stage]
  /\ ResendOrExhaust(prevAcks)
  /\ h2b' = Tail(h2b)
  /\ UNCHANGED <<b2h, faults, host, quiet>>

\* A late acknowledgement of the previous record is borne, within its limit;
\* any other acknowledgement in the sign wait is channel misbehaviour.
PreviousAck(m) == seq >= 2 /\ m.seq = seq - 1 /\ prevAcks < PrevAckLimit

BoardRecvRecAckInSign ==
  /\ Receiving
  /\ StrictLine(Head(h2b))
  /\ h2b' = Tail(h2b)
  /\ IF PreviousAck(Head(h2b))
     THEN Ignored(prevAcks + 1)
     ELSE StartTx("term") /\ Stop("PROTOCOL") /\ UNCHANGED <<seq, outcome, confirmed>>
  /\ UNCHANGED <<b2h, faults, host, quiet>>

BoardRecvForeign ==
  /\ Receiving
  /\ LET m == Head(h2b) IN
       \/ m.form = "broken"
       \/ /\ m.form = "ok"
          /\ ~StrictLine(m)
          /\ ~(m.seq = TxSeq /\ m.type \in AckTypes[stage] \cup {GetType[stage]})
  /\ h2b' = Tail(h2b)
  /\ Ignored(prevAcks)
  /\ UNCHANGED <<b2h, faults, host, quiet>>

\* The bound of the wait runs out (recv returns -2): nothing is on its way, or
\* what is on its way is late, which is a fault of the link too.
BoardBound ==
  /\ stage \in TxStages
  /\ waiting
  /\ IF b2h = << >> /\ h2b = << >>
     THEN UNCHANGED faults
     ELSE faults < MaxFaults /\ faults' = faults + 1
  /\ ResendOrExhaust(prevAcks)
  /\ quiet' = IF quiet < SilenceBounds THEN quiet + 1 ELSE quiet
  /\ UNCHANGED <<b2h, h2b, host>>

\* Staging, the two witnesses, the writes and the ARM: they end in a scored
\* candidate, in a stop that has a record, or in a stop that has none (the
\* staged stream does not parse, or a DMA fails).
BoardWork ==
  /\ stage = "work"
  /\ \/ \E o \in {"SCORED", "STOP_DEVICE"} : StartTx("rec") /\ outcome' = o /\ UNCHANGED why
     \/ StartTx("term") /\ Stop("STOP_DEVICE") /\ UNCHANGED outcome
  /\ UNCHANGED <<seq, confirmed, b2h, h2b, faults, host, quiet>>

\* The closing unsigned control needs a signed candidate to replay; the gate
\* refuses it (CLOSE, then COMPLETED), or the epoch stops.
BoardClose ==
  /\ stage = "close"
  /\ StartTx("term")
  /\ \/ /\ \E i \in DOMAIN confirmed : confirmed[i] = "SCORED"
        /\ Stop("COMPLETED")
        /\ SendToHost(Line("CLOSE", seq, "-"))
     \/ Stop("STOP_DEVICE") /\ UNCHANGED <<b2h, faults>>
  /\ UNCHANGED <<seq, outcome, confirmed, h2b, host, quiet>>

\* The watchdog is armed once identity holds and bites anywhere after.
BoardReset ==
  /\ faults < MaxFaults
  /\ stage \notin {"ident", "reset"}
  /\ seq >= 1
  /\ StartTx("reset")
  /\ faults' = faults + 1
  /\ UNCHANGED <<seq, outcome, confirmed, why, b2h, h2b, host, quiet>>

BoardNext ==
  \/ BoardSend \/ BoardRecvAck \/ BoardRecvGet \/ BoardRecvRecAckInSign
  \/ BoardRecvForeign \/ BoardBound \/ BoardWork \/ BoardClose

-----------------------------------------------------------------------------
(* The host: ConsoleSession.on_line under rel-v4, no pull pending.          *)

signed == Len(notary)          \* NotaryRelay.last_seq
recorded == Len(records)       \* Collector.last_rec_seq
Pending == signed > recorded   \* pending_rec_seq is not None; it is `signed`
Open == end = "open"

Ledgers == {"IDENT", "SIGNREQ", "REC", "TERM"} \X Seqs

\* A re-request for ledger (t, k), within its bound.
Ask(t, k, g) ==
  IF gets[<<t, k>>] < HostGets
  THEN gets' = [gets EXCEPT ![<<t, k>>] = @ + 1] /\ SendToBoard(g)
  ELSE UNCHANGED gets /\ Silent

\* An acknowledgement, within its bound.
Ack(t, k, a) ==
  IF acks[<<t, k>>] < HostReplays
  THEN acks' = [acks EXCEPT ![<<t, k>>] = @ + 1] /\ SendToBoard(a)
  ELSE UNCHANGED acks /\ Silent

NoAsk == UNCHANGED gets /\ Silent
Heard == quiet' = 0
Finish(kind) == end' = kind

\* A TERM whose seq is unreadable is asked for as the seq of the TERM already
\* delivered, or as seq 0 before that; one ledger serves the transaction.
OnBrokenTerm(m) ==
  Ask("TERM", 0, Reply("TERMGET", IF HeadSays(m, m.seq) \/ end \in Causes THEN m.seq ELSE 0))

OnBrokenSign == Ask("SIGNREQ", signed + 1, Reply("SIGNGET", signed + 1))

OnBrokenRec(m) ==
  IF Pending /\ HeadMaySay(m, signed)
  THEN Ask("REC", signed, Reply("RECGET", signed))
  ELSE IF recorded > 0 /\ HeadSays(m, recorded)
  THEN Ask("REC", recorded, Reply("RECGET", recorded))
  ELSE NoAsk

\* The re-request a broken line draws from the transaction its head names.
OnBroken(m) ==
  CASE m.type = "SIGNREQ" /\ HeadMaySay(m, signed + 1) -> OnBrokenSign
    [] m.type = "TERM" -> OnBrokenTerm(m)
    [] m.type = "REC" -> OnBrokenRec(m)
    [] OTHER -> NoAsk

HostTakes == b2h # << >> /\ b2h' = Tail(b2h)

\* The first IDENT is verified: acknowledged, or refused without a reply; a
\* repeat is acknowledged again unless it was refused.
HostIdent ==
  LET m == Head(b2h) IN
    /\ HostTakes
    /\ Open /\ m.type = "IDENT" /\ m.form = "ok"
    /\ ident' \in IF ident = "none" THEN {"established", "refused"} ELSE {ident}
    /\ IF ident' = "established"
       THEN Ack("IDENT", 0, Reply("IDENTACK", 0))
       ELSE UNCHANGED acks /\ Silent
    /\ Heard
    /\ UNCHANGED <<board, notary, records, gets, crc, bad, closing, end>>

\* A SIGNREQ for another seq over an outstanding record, before the identity,
\* or out of sequence ends the epoch.
SignFault(m) ==
  IF Pending /\ m.seq # signed THEN "PROTOCOL_REC"
  ELSE IF ident # "established" THEN "PROTOCOL_IDENT"
  ELSE IF m.seq \notin 1 .. signed + 1 THEN "PROTOCOL_SEQ"
  ELSE "none"

\* A new seq is signed (or refused by the gate) once, by the relay.
HostSign ==
  LET m == Head(b2h) IN
  \E answer \in {"SIGNOK", "SIGNREF"} :
    /\ HostTakes
    /\ Open /\ m.type = "SIGNREQ" /\ m.form = "ok"
    /\ SignFault(m) = "none" /\ m.seq = signed + 1
    /\ notary' = Append(notary, answer)
    /\ SendToBoard(Reply(answer, m.seq))
    /\ Heard
    /\ UNCHANGED <<board, ident, records, ledgers, closing, end>>

HostReplayAnew ==
  LET m == Head(b2h) IN
  \E answer \in {"SIGNOK", "SIGNREF"} :
    /\ HostTakes
    /\ Open /\ m.type = "SIGNREQ" /\ m.form = "ok"
    /\ SignFault(m) = "none" /\ m.seq \in 1 .. signed
    /\ Ack("SIGNREQ", m.seq, Reply(answer, m.seq))
    /\ Heard
    /\ UNCHANGED <<board, ident, notary, records, gets, crc, bad, closing, end>>

\* The same SIGNREQ again: the cached reply, within its bound.
HostReplay ==
  LET m == Head(b2h) IN
    /\ HostTakes
    /\ Open /\ m.type = "SIGNREQ" /\ m.form = "ok"
    /\ SignFault(m) = "none" /\ m.seq \in 1 .. signed
    /\ Ack("SIGNREQ", m.seq, Reply(notary[m.seq], m.seq))
    /\ Heard
    /\ UNCHANGED <<board, ident, notary, records, gets, crc, bad, closing, end>>

NoRepeatedRec(m) == FALSE
RepeatedRec(m) == recorded > 0 /\ m.seq = recorded
NextRecUnsigned(m) == m.seq = recorded + 1
NextRec(m) == Pending /\ m.seq = signed /\ m.seq = recorded + 1

HostRecord ==
  LET m == Head(b2h) IN
    /\ HostTakes
    /\ Open /\ m.type = "REC" /\ m.form = "ok"
    /\ NextRec(m)
    /\ records' = Append(records, m.body)
    /\ acks' = [acks EXCEPT ![<<"REC", m.seq>>] = @ + 1]
    /\ SendToBoard(Reply("RECACK", m.seq))
    /\ Heard
    /\ UNCHANGED <<board, ident, notary, gets, crc, bad, closing, end>>

HostRecordAgain ==
  LET m == Head(b2h) IN
    /\ HostTakes
    /\ Open /\ m.type = "REC" /\ m.form = "ok"
    /\ RepeatedRec(m)
    /\ Ack("REC", m.seq, Reply("RECACK", m.seq))
    /\ Heard
    /\ UNCHANGED <<board, ident, notary, records, gets, crc, bad, closing, end>>

\* A line that says the board moved on without the host ends the epoch.
HostProtocol ==
  LET m == Head(b2h) IN
    /\ HostTakes
    /\ Open /\ m.form = "ok"
    /\ \/ m.type = "REC" /\ ~RepeatedRec(m) /\ ~NextRec(m) /\ Finish("PROTOCOL_REC")
       \/ m.type = "SIGNREQ" /\ SignFault(m) # "none" /\ Finish(SignFault(m))
    /\ Heard
    /\ UNCHANGED <<board, h2b, faults, ident, notary, records, ledgers, closing>>

HostClose ==
  LET m == Head(b2h) IN
    /\ HostTakes
    /\ Open /\ m.type = "CLOSE" /\ m.form = "ok"
    /\ closing' = TRUE
    /\ Heard
    /\ UNCHANGED <<board, h2b, faults, ident, notary, records, ledgers, end>>

HostTermAlone ==
  LET m == Head(b2h) IN
    /\ HostTakes
    /\ Open /\ m.type = "TERM" /\ m.form = "ok"
    /\ Finish(m.body)
    /\ UNCHANGED closing
    /\ Ack("TERM", 0, Reply("TERMACK", m.seq))
    /\ Heard
    /\ UNCHANGED <<board, ident, notary, records, gets, crc, bad>>

\* A COMPLETED TERM carries the closing control again: a lost CLOSE is
\* reconstructed from it.
DeliverTerm(m) == closing' = (closing \/ m.body = "COMPLETED")

\* The TERM ends the epoch with the board's own cause.
HostTerm ==
  LET m == Head(b2h) IN
    /\ HostTakes
    /\ Open /\ m.type = "TERM" /\ m.form = "ok"
    /\ Finish(m.body)
    /\ DeliverTerm(m)
    /\ Ack("TERM", 0, Reply("TERMACK", m.seq))
    /\ Heard
    /\ UNCHANGED <<board, ident, notary, records, gets, crc, bad>>

\* A CRC-failed line: counted against the budget, then asked for again.
HostCrcFailed ==
  LET m == Head(b2h) IN
    /\ HostTakes
    /\ Open /\ m.form \in CrcForms
    /\ crc' = crc + 1
    /\ IF crc + 1 > CrcBudget
       THEN Finish("PROTOCOL_CRC_BUDGET") /\ NoAsk
       ELSE UNCHANGED end /\ OnBroken(m)
    /\ UNCHANGED <<board, ident, notary, records, acks, bad, closing, quiet>>

\* A malformed line that no transaction owns is the collector's crash under
\* the crash policy; the ledger policy only counts it, up to its budget.
OwnedByTx(m) ==
  \/ m.type \in {"IDENT", "TERM"}
  \/ m.type = "SIGNREQ" /\ HeadMaySay(m, signed + 1)
  \/ m.type = "REC" /\ (Pending \/ HeadSays(m, recorded))

HostMalformed ==
  LET m == Head(b2h) IN
    /\ HostTakes
    /\ Open /\ m.form \in MalForms
    /\ bad' = bad + 1
    /\ CASE ~CrashPolicy /\ bad + 1 > BadBudget -> Finish("PROTOCOL_BAD_FRAME_BUDGET") /\ NoAsk
         [] CrashPolicy /\ ~OwnedByTx(m) -> Finish("CRASHED_FRAME") /\ NoAsk
         [] OTHER -> UNCHANGED end /\ OnBroken(m)
    /\ UNCHANGED <<board, ident, notary, records, acks, crc, closing, quiet>>

\* After the end the runner lingers when the TERM ended it, and only answers
\* the board's TERM; after any other end it may have stopped reading.
HostAfterEnd ==
  LET m == Head(b2h) IN
    /\ HostTakes
    /\ ~Open
    /\ \/ m.type = "TERM" /\ m.form = "ok" /\ Ack("TERM", 0, Reply("TERMACK", m.seq)) /\ UNCHANGED gets
       \/ m.type = "TERM" /\ m.form # "ok" /\ OnBrokenTerm(m) /\ UNCHANGED acks
       \/ (m.type # "TERM" \/ end \notin Causes) /\ UNCHANGED <<gets, acks>> /\ Silent
    /\ UNCHANGED <<board, ident, notary, records, crc, bad, closing, end, quiet>>

HostSilenceOnLine ==
  /\ Open
  /\ quiet >= SilenceBounds /\ b2h # << >>
  /\ Finish("CRASHED_SILENCE")
  /\ UNCHANGED <<board, b2h, h2b, faults, ident, notary, records, ledgers, closing, quiet>>

\* Collector.poll: three heartbeats of silence; the U-Boot banner.
HostSilence ==
  /\ Open
  /\ quiet >= SilenceBounds \/ (stage \in {"halted", "reset"} /\ b2h = << >>)
  /\ Finish("CRASHED_SILENCE")
  /\ UNCHANGED <<board, b2h, h2b, faults, ident, notary, records, ledgers, closing, quiet>>

HostBanner ==
  /\ Open
  /\ stage = "reset" /\ b2h = << >>
  /\ Finish("CRASHED_BANNER")
  /\ UNCHANGED <<board, b2h, h2b, faults, ident, notary, records, ledgers, closing, quiet>>

HostNext ==
  \/ HostIdent \/ HostSign \/ HostReplay \/ HostRecord \/ HostRecordAgain
  \/ HostProtocol \/ HostClose \/ HostTerm \/ HostCrcFailed \/ HostMalformed
  \/ HostAfterEnd \/ HostSilence \/ HostBanner

-----------------------------------------------------------------------------
Init ==
  /\ stage = "ident" /\ waiting = FALSE
  /\ attempts = 0 /\ stale = 0 /\ prevAcks = 0
  /\ seq = 0 /\ outcome = "-" /\ confirmed = << >> /\ why = "-"
  /\ b2h = << >> /\ h2b = << >> /\ faults = 0
  /\ ident = "none" /\ notary = << >> /\ records = << >>
  /\ gets = [l \in Ledgers |-> 0] /\ acks = [l \in Ledgers |-> 0]
  /\ crc = 0 /\ bad = 0 /\ closing = FALSE /\ quiet = 0 /\ end = "open"

Over == stage \in {"halted", "reset"} /\ ~Open /\ b2h = << >> /\ UNCHANGED vars

Next == BoardNext \/ BoardReset \/ HostNext \/ Over

\* The application runs to its end unless the watchdog resets it, and the
\* runner's loop reads and polls as long as it lives.
Spec == Init /\ [][Next]_vars
FairSpec == Spec /\ WF_vars(BoardNext) /\ WF_vars(HostNext)

-----------------------------------------------------------------------------
(* Properties.                                                              *)

\* The board never moves on from a record the host does not have, the host
\* never records what it did not answer, and what both hold is the same
\* (p3_app.c emit_record and its callers; l6_console.py _on_rec).
InOrder ==
  /\ Len(confirmed) <= recorded /\ recorded <= signed /\ signed <= seq
  /\ seq <= Len(confirmed) + 1
  /\ \A i \in DOMAIN confirmed : confirmed[i] = records[i]

\* Rule (vii) of validators/records.py holds of every log the session can
\* produce: a record says what the notary answered to that very seq, and a
\* stop is the last record.
RecordMatchesNotary ==
  \A i \in DOMAIN records :
    /\ records[i] \in {"SCORED", "STOP_DEVICE"} => notary[i] = "SIGNOK"
    /\ records[i] = "REFUSED_BY_GATE" => notary[i] = "SIGNREF"
    /\ records[i] \in {"STOP_SIGN", "STOP_DEVICE"} => i = recorded

\* The strict acknowledgement rule of the sign wait, made against channel
\* misbehaviour, never stops a session whose link only loses, breaks and
\* repeats lines (p3_rectx.c p3_tx_run), and the host calls one PROTOCOL over
\* the order of its frames in one case only: a STOP_SIGN record whose SIGNREQ
\* never reached it (l6_console.py _on_rec).
ProtocolOnlyForUnsignedStop ==
  /\ why # "PROTOCOL"
  /\ end \in {"PROTOCOL_REC", "PROTOCOL_IDENT", "PROTOCOL_SEQ"} =>
       end = "PROTOCOL_REC" /\ outcome = "STOP_SIGN" /\ signed < seq

\* A TERM tells the truth about the host's own books: COMPLETED means every
\* candidate recorded, none of them a stop, and the closing control known;
\* any other end is at most one record short, and STOP_IDENT signed nothing.
TermTellsTheTruth ==
  /\ end = "COMPLETED" => /\ recorded = NCand /\ records = confirmed /\ closing
                          /\ \A i \in DOMAIN records : records[i] \notin {"STOP_SIGN", "STOP_DEVICE"}
  /\ end \in Causes => seq - recorded <= 1
  /\ end \in {"STOP_IDENT", "IDENT_REFUSED"} => signed = 0
  /\ end = "STOP_REC" => Len(confirmed) = seq - 1

\* The application and the host each reach their end.
BoardHalts == <>(stage \in {"halted", "reset"})
HostEnds == <>(end # "open")

\* The session hands every candidate over as module Handover promises.
Promise == INSTANCE Handover
KeepsPromise == Promise!Spec

=============================================================================
