----------------------------- MODULE TermLinger -----------------------------
(***************************************************************************)
(* The last transaction of an epoch against the clock: the application     *)
(* sends its TERM and waits for the TERMACK (p3_tx_run over                *)
(* p3_rectx_recv_line_timed), the host acknowledges it and lingers for the *)
(* board's resends (TermHost, ConsoleSession.lingering,                    *)
(* session_loop_continues).                                                *)
(*                                                                         *)
(* A unit of wall time is one poll of the receiver that finds no byte; a   *)
(* byte that waits costs none.  A line is its head, its rest and the       *)
(* newline; which TERM it is about is left out, there being one.           *)
(***************************************************************************)
EXTENDS Integers, Sequences

CONSTANTS
  Attempts,    \* P3_RECTX_ATTEMPTS, MAX_ATTEMPTS
  Bound,       \* P3_BOUND_TICKS
  Cap,         \* P3_TERM_IDLE_POLLS
  Factor,      \* P3_RECTX_LINE_POLL_FACTOR
  StaleLimit,  \* P3_RECTX_STALE_LIMIT
  LineMax,     \* what the line buffer holds, and the terminator
  MaxGets,     \* HOST_MAX_GETS
  MaxReplays,  \* HOST_MAX_REPLAYS
  WallMax,     \* BOARD_BOUND_WALL_MAX_S
  Margin,      \* LINGER_MARGIN_S
  Delay,       \* the longest a byte is on its way, the host's sleep included
  MaxFaults,   \* faults of the link in one behaviour (a bound of the model)
  Babble       \* whether bytes nobody sent may keep arriving

ASSUME LingerAssumption ==
  /\ {Attempts, Bound, Cap, Factor, StaleLimit} \subseteq Nat \ {0}
  /\ {LineMax, MaxGets, MaxReplays, WallMax, Margin, Delay, MaxFaults} \subseteq Nat
  /\ LineMax > 2 /\ Babble \in BOOLEAN

\* FIRMWARE_BOUND_CONTRACT: a wait of the board, what the link takes included,
\* is within the bound the host derives its linger from.
ASSUME BoundContract == Bound + 1 + 2 * Delay <= WallMax /\ Delay < Margin

VARIABLES
  now,       \* wall time
  clock,     \* whether the board's global timer advances
  phase,     \* the board: "send", "wait" or "halted"
  attempts, stale, acked,  \* the transaction
  rx,        \* the receive in progress
  toHost,    \* TERMs on their way
  fifo,      \* bytes on their way, and those waiting in the board's FIFO
  until,     \* linger_until, 0 before the first TERM
  acks, gets, \* the host's ledger of this TERM
  missed,    \* a TERM arrived that nobody reads
  cut,       \* some line reached the board without its newline
  faults

board == <<phase, attempts, stale, acked, rx>>
host == <<until, acks, gets, missed>>
link == <<toHost, fifo, faults, cut>>
vars == <<now, clock, board, host, link>>

-----------------------------------------------------------------------------
(* The link.                                                                *)

Bytes == {"TERMACK", "TERMGET", "rest", "nl", "junk"}
At(t, b) == [at |-> t, byte |-> b]

Fault == faults < MaxFaults /\ faults' = faults + 1

\* A TERM arrives, or is lost or broken on the way.
SendTerm ==
  \/ \E d \in 0 .. Delay : toHost' = Append(toHost, [at |-> now + d, whole |-> TRUE]) /\ UNCHANGED faults
  \/ Fault /\ UNCHANGED toHost
  \/ Fault /\ \E d \in 0 .. Delay : toHost' = Append(toHost, [at |-> now + d, whole |-> FALSE])

\* A line to the board arrives, evenly or with a pause in it, or is lost,
\* broken, or cut short.
SendLine(type) ==
  \/ \E d \in 0 .. Delay : \E e \in d .. Delay :
       fifo' = fifo \o <<At(now + d, type), At(now + e, "rest"), At(now + e, "nl")>> /\ UNCHANGED <<faults, cut>>
  \/ Fault /\ UNCHANGED <<fifo, cut>>
  \/ Fault /\ \E d \in 0 .. Delay : fifo' = fifo \o <<At(now + d, "junk"), At(now + d, "nl")>> /\ UNCHANGED cut
  \/ Fault /\ \E d \in 0 .. Delay : fifo' = Append(fifo, At(now + d, type)) /\ cut' = TRUE

\* Bytes nobody sent, for as long as they like, on a link that does nothing
\* else wrong or has spent its faults.
Noise ==
  /\ Babble /\ faults \in {0, MaxFaults} /\ faults' = MaxFaults
  /\ phase = "wait" /\ fifo = << >>
  /\ fifo' = <<At(now, "junk")>>
  /\ cut' = TRUE
  /\ UNCHANGED <<now, clock, board, host, toHost>>

-----------------------------------------------------------------------------
(* The host.                                                                *)

OneResend == WallMax + Margin

\* The resends one bound apart, and a margin.
TERM_LINGER_S == (Attempts - 1) * WallMax + Margin

\* session_loop_continues: the epoch is open, or the console lingers.
Reading == until = 0 \/ now < until

HostDue == toHost # << >> /\ Head(toHost).at <= now
Hear == HostDue /\ toHost' = Tail(toHost) /\ UNCHANGED <<now, clock, board>>

\* The first TERM starts the linger; each is acknowledged, within bounds.
on_term ==
  /\ Hear /\ Reading /\ Head(toHost).whole
  /\ until' = IF until = 0 THEN now + TERM_LINGER_S ELSE until
  /\ IF acks < MaxReplays
     THEN acks' = acks + 1 /\ SendLine("TERMACK")
     ELSE UNCHANGED <<acks, fifo, faults, cut>>
  /\ UNCHANGED <<gets, missed>>

on_broken_line ==
  /\ Hear /\ Reading /\ ~Head(toHost).whole
  /\ IF gets < MaxGets
     THEN gets' = gets + 1 /\ SendLine("TERMGET")
     ELSE UNCHANGED <<gets, fifo, faults, cut>>
  /\ UNCHANGED <<until, acks, missed>>

\* The console loop is over.
Unheard ==
  /\ Hear /\ ~Reading
  /\ missed' = TRUE
  /\ UNCHANGED <<until, acks, gets, fifo, faults, cut>>

Host == on_term \/ on_broken_line \/ Unheard

-----------------------------------------------------------------------------
(* The board.                                                               *)

now_ticks(t) == IF clock THEN t ELSE 0
Open(t) == [start |-> now_ticks(t), last |-> now_ticks(t), idle |-> 0, total |-> 0, line |-> << >>]

Polled == [start |-> rx.start, last |-> rx.last, idle |-> rx.idle + 1, total |-> rx.total + 1, line |-> rx.line]
Taken(b) == [start |-> rx.start, last |-> now_ticks(now), idle |-> 0, total |-> rx.total + 1, line |-> Append(rx.line, b)]

Transmit ==
  /\ phase = "send"
  /\ attempts' = attempts + 1
  /\ stale' = 0 /\ phase' = "wait" /\ rx' = Open(now)
  /\ SendTerm
  /\ UNCHANGED <<now, clock, acked, host, fifo, cut>>

OneAttemptFewer ==
  /\ phase' = IF attempts + 1 < Attempts THEN "send" ELSE "halted"
  /\ UNCHANGED <<attempts, stale, acked, rx>>

\* The wait is over: the same bytes again, or no attempt is left.
ResendOrHalt ==
  /\ phase' = IF attempts < Attempts THEN "send" ELSE "halted"
  /\ UNCHANGED <<attempts, stale, acked, rx>>

IgnoredForever(t) ==
  /\ rx' = Open(t)
  /\ UNCHANGED <<phase, attempts, stale, acked>>

\* A line that is not this transaction's, whole or not: ignored, and the next
\* one is waited for with a bound of its own.
Ignored(t) ==
  IF stale + 1 < StaleLimit
  THEN stale' = stale + 1 /\ rx' = Open(t) /\ UNCHANGED <<phase, attempts, acked>>
  ELSE ResendOrHalt

Line(text) ==
  IF text = <<"TERMACK", "rest">>
  THEN phase' = "halted" /\ acked' = TRUE /\ UNCHANGED <<attempts, stale, rx>>
  ELSE IF text = <<"TERMGET", "rest">> THEN ResendOrHalt
  ELSE Ignored(now)

LineTicksTimesFactor == Factor * Bound

\* The clock's bound on a whole line is the bound on silence.
LineTicks == Bound
LinePolls == Factor * Cap

ByteReady == fifo # << >> /\ Head(fifo).at <= now

\* A poll that finds no byte.  Silence ends the wait, a line cut short is
\* only one line more that is not this transaction's.
Poll ==
  /\ phase = "wait" /\ ~ByteReady /\ ~HostDue
  /\ now' = now + 1
  /\ LET t == now_ticks(now + 1)
         over == \/ rx.idle + 1 > Cap \/ rx.total + 1 > LinePolls
                 \/ t - rx.last > Bound \/ t - rx.start > LineTicks
     IN  \/ /\ ~over
            /\ rx' = Polled
            /\ UNCHANGED <<phase, attempts, stale, acked>>
         \/ over /\ rx.line = << >> /\ ResendOrHalt
         \/ over /\ rx.line # << >> /\ Ignored(now + 1)
  /\ UNCHANGED <<clock, host, link>>

\* A byte that comes too late stays in the FIFO.
TooLate == rx.total + 1 > LinePolls \/ now_ticks(now) - rx.start > LineTicks

Byte ==
  /\ phase = "wait" /\ ByteReady
  /\ LET b == Head(fifo).byte
     IN  \/ TooLate /\ Ignored(now) /\ UNCHANGED fifo
         \/ /\ ~TooLate /\ fifo' = Tail(fifo)
            /\ \/ b = "nl" /\ Line(rx.line)
               \/ b # "nl" /\ Len(rx.line) + 1 >= LineMax /\ Ignored(now)
               \/ /\ b # "nl" /\ Len(rx.line) + 1 < LineMax
                  /\ rx' = Taken(b)
                  /\ UNCHANGED <<phase, attempts, stale, acked>>
  /\ UNCHANGED <<now, clock, host, toHost, faults, cut>>

\* Time goes on for a TERM that is still on its way when the board halts.
Meanwhile ==
  /\ phase = "halted" /\ toHost # << >> /\ ~HostDue
  /\ now' = now + 1
  /\ UNCHANGED <<clock, board, host, link>>

Board == Transmit \/ Poll \/ Byte

-----------------------------------------------------------------------------
Init ==
  /\ now = 0 /\ clock \in BOOLEAN
  /\ phase = "send" /\ attempts = 0 /\ stale = 0 /\ acked = FALSE /\ rx = Open(0)
  /\ toHost = << >> /\ fifo = << >> /\ faults = 0 /\ cut = FALSE
  /\ until = 0 /\ acks = 0 /\ gets = 0 /\ missed = FALSE

Next == Board \/ Host \/ Noise \/ Meanwhile
Spec == Init /\ [][Next]_vars
FairSpec == Spec /\ WF_vars(Board) /\ WF_vars(Host)

-----------------------------------------------------------------------------
(* Properties.                                                              *)

Receives == [start : Nat, last : Nat, idle : 0 .. Cap, total : 0 .. LinePolls, line : Seq(Bytes \ {"nl"})]

\* Every variable has its type.
TypeOK ==
  /\ now \in Nat /\ clock \in BOOLEAN
  /\ phase \in {"send", "wait", "halted"}
  /\ attempts \in 0 .. Attempts /\ stale \in 0 .. StaleLimit - 1 /\ acked \in BOOLEAN
  /\ rx \in Receives
  /\ toHost \in Seq([at : Nat, whole : BOOLEAN])
  /\ fifo \in Seq([at : Nat, byte : Bytes])
  /\ until \in Nat /\ acks \in 0 .. MaxReplays /\ gets \in 0 .. MaxGets /\ missed \in BOOLEAN
  /\ cut \in BOOLEAN /\ faults \in 0 .. MaxFaults

\* No line, however it is cut or paced, holds the receiver past one bound of
\* the clock (p3_rectx.h, P3_RECTX_LINE_POLL_FACTOR).
NoLineHoldsTheReceiver == phase = "wait" /\ clock => now - rx.start <= Bound

\* The linger covers what it was derived for: as long as the link only loses
\* or breaks lines whole, the runner still reads when the last resend of the
\* TERM arrives (host/l6_rel.py, TERM_LINGER_S).  A line cut short costs the
\* board one bound to give up and a fresh one of silence, for which the linger
\* has no room.
LingerCoversLosses == clock /\ ~cut => ~missed

\* Fewer faults than transmissions leave the board with its acknowledgement.
FewFaultsAcked == phase = "halted" /\ clock /\ ~cut /\ faults < Attempts => acked

\* The board halts, whatever keeps arriving and even if its timer stands.
BoardHalts == <>(phase = "halted")
=============================================================================
