-------------------------- MODULE TermLinger_proofs --------------------------
(***************************************************************************)
(* Proofs about the last transaction: for any bounds, any delay and any    *)
(* number of faults that respect the bound contract, no line holds the     *)
(* receiver past one bound, and as long as no line reaches the board       *)
(* without its newline the linger covers every resend, and fewer faults    *)
(* than transmissions leave the board with its acknowledgement.            *)
(***************************************************************************)
EXTENDS TermLinger, TLAPS

\* One attempt: what is on its way both ways, and a bound of silence.
Wait == Bound + 1 + 2 * Delay
Turns(k) == k * Wait

Terms == [at : Nat, whole : BOOLEAN]
Wire == [at : Nat, byte : Bytes]

\* What a line appends to the wire ends with its newline.
EndsInTime(s, b) == s # << >> => s[Len(s)].byte = "nl" /\ \A i \in DOMAIN s : s[i].at <= b

\* The board transmits only while it has an attempt left.
SendInv == phase = "send" => attempts < Attempts

\* The receive in progress is within its bound.
ClockInv == clock /\ phase = "wait" => rx.start <= now /\ now <= rx.start + Bound

\* While every line comes with its newline, attempt k ends within k waits:
\* the TERM arrives within a delay of its transmission, the answer within two,
\* and whatever is read of a line, its rest is on the way.
OnTime ==
  /\ until # 0 => until >= TERM_LINGER_S
  /\ phase = "send" => now <= Turns(attempts)
  /\ phase = "wait" => attempts # 0 /\ rx.start <= Turns(attempts - 1) + 2 * Delay
  /\ toHost # << >> => attempts # 0 /\ now <= Turns(attempts - 1) + Delay
  /\ \A i \in DOMAIN toHost : toHost[i].at <= Turns(attempts - 1) + Delay
  /\ fifo # << >> => attempts # 0
  /\ fifo # << >> /\ phase # "halted" => now <= Turns(attempts - 1) + 2 * Delay
  /\ EndsInTime(fifo, Turns(attempts - 1) + 2 * Delay)
  /\ phase = "wait" /\ rx.line # << >> => fifo # << >>
TimeInv == clock /\ ~cut => OnTime /\ ~missed

IInv == TypeOK /\ SendInv /\ ClockInv /\ TimeInv

-----------------------------------------------------------------------------
(* Arithmetic.                                                              *)

\* The waits add up.
LEMMA TurnsStep ==
  ASSUME NEW k \in Nat
  PROVE  Turns(k) \in Nat /\ Turns(k + 1) = Turns(k) + Wait /\ Turns(0) = 0 /\ Wait \in Nat
<1>1. Wait \in Nat
  BY LingerAssumption DEF LingerAssumption, Wait
<1>2. k * Wait \in Nat /\ (k + 1) * Wait = k * Wait + Wait /\ 0 * Wait = 0
  BY <1>1
<1> QED
  BY <1>1, <1>2 DEF Turns

\* The linger is longer than all the waits between two transmissions.
LEMMA LingerIsEnough ==
  ASSUME NEW k \in Nat, k + 1 <= Attempts
  PROVE  Turns(k) + Delay < TERM_LINGER_S
<1> USE LingerAssumption DEF LingerAssumption
<1>1. Wait \in Nat /\ WallMax \in Nat /\ Wait <= WallMax /\ Delay < Margin /\ Attempts - 1 \in Nat
  BY BoundContract DEF BoundContract, Wait
<1>2. k * Wait <= k * WallMax
  BY <1>1
<1>3. k * WallMax <= (Attempts - 1) * WallMax
  BY <1>1
<1>4. k * Wait \in Nat /\ k * WallMax \in Nat /\ (Attempts - 1) * WallMax \in Nat
  BY <1>1
<1> QED
  BY <1>1, <1>2, <1>3, <1>4 DEF Turns, TERM_LINGER_S

-----------------------------------------------------------------------------
(* The link.                                                                *)

\* Two stretches of wire that end in time do so together.
LEMMA Joined ==
  ASSUME NEW s \in Seq(Wire), NEW q \in Seq(Wire), NEW b \in Nat, q # << >>,
         EndsInTime(s, b), EndsInTime(q, b)
  PROVE  s \o q \in Seq(Wire) /\ s \o q # << >> /\ EndsInTime(s \o q, b)
<1> DEFINE r == s \o q
<1>1. /\ r \in Seq(Wire) /\ Len(r) = Len(s) + Len(q) /\ Len(q) # 0 /\ Len(s) \in Nat /\ Len(q) \in Nat
      /\ \A i \in 1 .. Len(r) : r[i] = IF i <= Len(s) THEN s[i] ELSE q[i - Len(s)]
  OBVIOUS
<1>2. r # << >> /\ r[Len(r)] = q[Len(q)]
  BY <1>1
<1>3. r[Len(r)].byte = "nl"
  BY <1>2 DEF EndsInTime
<1>4. ASSUME NEW i \in DOMAIN r PROVE r[i].at <= b
  <2>1. i \in 1 .. Len(r)
    BY <1>1
  <2>2. CASE i <= Len(s)
    <3>1. s # << >> /\ i \in DOMAIN s /\ r[i] = s[i]
      BY <2>1, <2>2, <1>1
    <3> QED
      BY <3>1 DEF EndsInTime
  <2>3. CASE ~(i <= Len(s))
    <3>1. i - Len(s) \in DOMAIN q /\ r[i] = q[i - Len(s)]
      BY <2>1, <2>3, <1>1
    <3> QED
      BY <3>1 DEF EndsInTime
  <2> QED
    BY <2>2, <2>3
<1> HIDE DEF r
<1>5. EndsInTime(r, b)
  BY <1>3, <1>4 DEF EndsInTime
<1> QED
  BY <1>1, <1>2, <1>5 DEF r

\* A line sent is whole, lost or broken, or cut.
LEMMA LineSent ==
  ASSUME TypeOK, NEW type \in {"TERMACK", "TERMGET"}, SendLine(type)
  PROVE  /\ fifo' \in Seq(Wire) /\ faults' \in 0 .. MaxFaults /\ cut' \in BOOLEAN
         /\ \/ cut'
            \/ cut' = cut /\ fifo' = fifo
            \/ cut' = cut /\ \E q \in Seq(Wire) : /\ fifo' = fifo \o q /\ q # << >>
                                                 /\ EndsInTime(q, now + Delay)
<1> USE DEF TypeOK
<1>0. Delay \in Nat /\ MaxFaults \in Nat /\ now \in Nat /\ fifo \in Seq(Wire) /\ type \in Bytes
  BY LingerAssumption DEF LingerAssumption, Wire, Bytes
<1>f. ASSUME Fault PROVE faults' \in 0 .. MaxFaults
  BY <1>0, <1>f DEF Fault
<1>1. ASSUME NEW d \in 0 .. Delay, NEW e \in d .. Delay,
             fifo' = fifo \o <<At(now + d, type), At(now + e, "rest"), At(now + e, "nl")>>,
             UNCHANGED <<faults, cut>>
      PROVE  /\ fifo' \in Seq(Wire) /\ faults' \in 0 .. MaxFaults /\ cut' = cut
             /\ \E q \in Seq(Wire) : fifo' = fifo \o q /\ q # << >> /\ EndsInTime(q, now + Delay)
  <2> DEFINE q == <<At(now + d, type), At(now + e, "rest"), At(now + e, "nl")>>
  <2>1. d \in Nat /\ e \in Nat /\ d <= Delay /\ e <= Delay
    BY <1>0
  <2>2. At(now + d, type) \in Wire /\ At(now + e, "rest") \in Wire /\ At(now + e, "nl") \in Wire
    BY <1>0, <2>1 DEF Wire, Bytes, At
  <2>3. q \in Seq(Wire) /\ q # << >> /\ Len(q) = 3 /\ DOMAIN q = 1 .. 3
    BY <2>2
  <2>4. q[Len(q)].byte = "nl" /\ \A i \in DOMAIN q : q[i].at <= now + Delay
    BY <2>1, <2>3, <1>0 DEF At
  <2>5. EndsInTime(q, now + Delay)
    BY <2>4 DEF EndsInTime
  <2> HIDE DEF q
  <2>6. fifo' = fifo \o q
    BY <1>1 DEF q
  <2>7. fifo' \in Seq(Wire)
    BY <2>6, <2>3, <1>0
  <2> QED
    BY <2>3, <2>5, <2>6, <2>7, <1>1
<1>2. ASSUME Fault, NEW d \in 0 .. Delay, fifo' = fifo \o <<At(now + d, "junk"), At(now + d, "nl")>>, UNCHANGED cut
      PROVE  /\ fifo' \in Seq(Wire)
             /\ \E q \in Seq(Wire) : fifo' = fifo \o q /\ q # << >> /\ EndsInTime(q, now + Delay)
  <2> DEFINE q == <<At(now + d, "junk"), At(now + d, "nl")>>
  <2>1. At(now + d, "junk") \in Wire /\ At(now + d, "nl") \in Wire /\ d \in Nat /\ d <= Delay
    BY <1>0 DEF Wire, Bytes, At
  <2>2. q \in Seq(Wire) /\ q # << >> /\ Len(q) = 2 /\ DOMAIN q = 1 .. 2
    BY <2>1
  <2>3. q[Len(q)].byte = "nl" /\ \A i \in DOMAIN q : q[i].at <= now + Delay
    BY <2>1, <2>2, <1>0 DEF At
  <2>4. EndsInTime(q, now + Delay)
    BY <2>3 DEF EndsInTime
  <2> HIDE DEF q
  <2>5. fifo' = fifo \o q
    BY <1>2 DEF q
  <2>6. fifo' \in Seq(Wire)
    BY <2>5, <2>2, <1>0
  <2> QED
    BY <2>2, <2>4, <2>5, <2>6
<1>3. ASSUME NEW d \in 0 .. Delay, fifo' = Append(fifo, At(now + d, type)) PROVE fifo' \in Seq(Wire)
  <2>1. At(now + d, type) \in Wire
    BY <1>0 DEF Wire, At
  <2> QED
    BY <2>1, <1>3, <1>0
<1> QED
  BY <1>f, <1>1, <1>2, <1>3, <1>0 DEF SendLine

\* A TERM sent arrives within the delay, or not.
LEMMA TermSent ==
  ASSUME TypeOK, SendTerm
  PROVE  /\ faults' \in 0 .. MaxFaults /\ toHost' \in Seq(Terms)
         /\ \/ toHost' = toHost
            \/ \E t \in Terms : toHost' = Append(toHost, t) /\ t.at <= now + Delay
<1> USE DEF TypeOK
<1>0. Delay \in Nat /\ MaxFaults \in Nat /\ now \in Nat /\ toHost \in Seq(Terms)
  BY LingerAssumption DEF LingerAssumption, Terms
<1>1. ASSUME Fault PROVE faults' \in 0 .. MaxFaults
  BY <1>0, <1>1 DEF Fault
<1>2. ASSUME NEW d \in 0 .. Delay, NEW w \in BOOLEAN, toHost' = Append(toHost, [at |-> now + d, whole |-> w])
      PROVE  \E t \in Terms : toHost' = Append(toHost, t) /\ t.at <= now + Delay
  <2>1. [at |-> now + d, whole |-> w] \in Terms /\ now + d <= now + Delay
    BY <1>0 DEF Terms
  <2> QED
    BY <2>1, <1>2
<1>3. ASSUME NEW t \in Terms, toHost' = Append(toHost, t) PROVE toHost' \in Seq(Terms)
  BY <1>0, <1>3
<1>4. CASE \E d \in 0 .. Delay : toHost' = Append(toHost, [at |-> now + d, whole |-> TRUE]) /\ UNCHANGED faults
  BY <1>4, <1>2, <1>3, <1>0
<1>5. CASE Fault /\ UNCHANGED toHost
  BY <1>5, <1>1, <1>0
<1>6. CASE Fault /\ \E d \in 0 .. Delay : toHost' = Append(toHost, [at |-> now + d, whole |-> FALSE])
  BY <1>6, <1>1, <1>2, <1>3
<1> QED
  BY <1>4, <1>5, <1>6 DEF SendTerm

-----------------------------------------------------------------------------
(* The types.                                                               *)

\* The receiver's limits are numbers.
LEMMA Limits == Cap \in Nat /\ LinePolls \in Nat
<1>1. Cap \in Nat /\ Factor \in Nat
  BY LingerAssumption DEF LingerAssumption
<1> QED
  BY <1>1 DEF LinePolls

\* A count below its limit goes up by one.
LEMMA CountUp ==
  ASSUME NEW n \in Nat, NEW i \in 0 .. n, ~(i + 1 > n)
  PROVE  i + 1 \in 0 .. n
OBVIOUS

\* A receive opens with nothing read.
LEMMA Opened ==
  ASSUME TypeOK, NEW t \in Nat
  PROVE  Open(t) \in Receives /\ Open(t).line = << >> /\ (clock => Open(t).start = t) /\ now_ticks(t) \in Nat
<1>1. Cap \in Nat /\ LinePolls \in Nat
  BY Limits
<1>2. << >> \in Seq(Bytes \ {"nl"})
  OBVIOUS
<1> QED
  BY <1>1, <1>2 DEF TypeOK, Open, now_ticks, Receives

\* A wait ends with a resend or without one, or goes on with a new receive.
LEMMA WaitEnds ==
  ASSUME TypeOK, NEW t \in Nat, Ignored(t) \/ ResendOrHalt
  PROVE  /\ attempts' = attempts /\ acked' = acked /\ stale' \in 0 .. StaleLimit - 1
         /\ \/ phase' = phase /\ rx' = Open(t)
            \/ rx' = rx /\ phase' = "send" /\ attempts < Attempts
            \/ rx' = rx /\ phase' = "halted"
<1>1. StaleLimit \in Nat /\ StaleLimit # 0 /\ stale \in 0 .. StaleLimit - 1
  BY LingerAssumption DEF LingerAssumption, TypeOK
<1>2. CASE ResendOrHalt
  BY <1>1, <1>2 DEF ResendOrHalt
<1>3. CASE Ignored(t) /\ stale + 1 < StaleLimit
  BY <1>1, <1>3 DEF Ignored
<1> QED
  BY <1>2, <1>3 DEF Ignored

\* The types of what every step of the board leaves alone or shares.
LEMMA BoardTyped ==
  ASSUME TypeOK, NEW t \in Nat, Ignored(t) \/ ResendOrHalt
  PROVE  /\ phase' \in {"send", "wait", "halted"} /\ attempts' \in 0 .. Attempts
         /\ stale' \in 0 .. StaleLimit - 1 /\ acked' \in BOOLEAN /\ rx' \in Receives
         /\ SendInv => SendInv'
BY WaitEnds, Opened DEF TypeOK, SendInv

\* A poll keeps the types.
LEMMA PollTyped ==
  ASSUME TypeOK, SendInv, Poll PROVE TypeOK' /\ SendInv'
<1> USE DEF TypeOK
<1>1. now' \in Nat /\ now + 1 \in Nat /\ UNCHANGED <<clock, host, link>>
  BY DEF Poll
<1>2. Cap \in Nat /\ LinePolls \in Nat
  BY Limits
<1>3. ASSUME ~(rx.idle + 1 > Cap \/ rx.total + 1 > LinePolls),
             rx' = Polled,
             UNCHANGED <<phase, attempts, stale, acked>>
      PROVE  rx' \in Receives /\ SendInv'
  <2>1. rx.start \in Nat /\ rx.last \in Nat /\ rx.idle \in 0 .. Cap /\ rx.total \in 0 .. LinePolls
        /\ rx.line \in Seq(Bytes \ {"nl"})
    BY DEF Receives
  <2> HIDE DEF TypeOK
  <2>2. rx.idle + 1 \in 0 .. Cap /\ rx.total + 1 \in 0 .. LinePolls
    <3>1. ~(rx.idle + 1 > Cap) /\ ~(rx.total + 1 > LinePolls)
      BY <1>3
    <3> QED
      BY <1>2, <2>1, <3>1, CountUp
  <2>3. rx' \in Receives
    BY <1>3, <2>1, <2>2 DEF Receives, Polled
  <2> QED
    BY <1>3, <2>3 DEF SendInv
<1>4. /\ phase' \in {"send", "wait", "halted"} /\ attempts' \in 0 .. Attempts
      /\ stale' \in 0 .. StaleLimit - 1 /\ acked' \in BOOLEAN /\ rx' \in Receives /\ SendInv'
  <2>1. CASE ResendOrHalt \/ Ignored(now + 1)
    BY <2>1, <1>1, BoardTyped
  <2>2. CASE ~(ResendOrHalt \/ Ignored(now + 1))
    BY <2>2, <1>3 DEF Poll
  <2> QED
    BY <2>1, <2>2
<1> QED
  BY <1>1, <1>4 DEF host, link

\* So does a byte.
LEMMA ByteTyped ==
  ASSUME TypeOK, SendInv, Byte PROVE TypeOK' /\ SendInv'
<1> USE DEF TypeOK
<1>1. UNCHANGED <<now, clock, host, toHost, faults, cut>> /\ now \in Nat /\ fifo # << >>
  BY DEF Byte, ByteReady
<1>2. LinePolls \in Nat /\ Cap \in Nat /\ fifo \in Seq(Wire) /\ Head(fifo) \in Wire /\ Tail(fifo) \in Seq(Wire)
  <2>1. fifo \in Seq(Wire)
    BY DEF Wire
  <2> QED
    BY <1>1, <2>1, Limits
<1>3. fifo' \in Seq(Wire)
  BY <1>2 DEF Byte
<1>4. ASSUME ~TooLate, Head(fifo).byte # "nl",
             rx' = Taken(Head(fifo).byte),
             UNCHANGED <<phase, attempts, stale, acked>>
      PROVE  rx' \in Receives /\ SendInv'
  <2>1. now_ticks(now) \in Nat /\ Head(fifo).byte \in Bytes \ {"nl"}
    BY <1>1, <1>2, <1>4, Opened DEF Wire
  <2>2. Append(rx.line, Head(fifo).byte) \in Seq(Bytes \ {"nl"})
    BY <2>1 DEF Receives
  <2>3. rx.total + 1 \in 0 .. LinePolls
    <3>1. rx \in Receives /\ ~(rx.total + 1 > LinePolls)
      BY <1>4 DEF TooLate
    <3>2. rx.total \in 0 .. LinePolls
      BY <3>1 DEF Receives
    <3> HIDE DEF TypeOK
    <3> QED
      BY <1>2, <3>1, <3>2
  <2> QED
    BY <1>2, <1>4, <2>1, <2>2, <2>3 DEF Receives, SendInv, Taken
<1>5. ASSUME phase' = "halted", acked' = TRUE, UNCHANGED <<attempts, stale, rx>>
      PROVE  SendInv'
  BY <1>5 DEF SendInv
<1>6. /\ phase' \in {"send", "wait", "halted"} /\ attempts' \in 0 .. Attempts
      /\ stale' \in 0 .. StaleLimit - 1 /\ acked' \in BOOLEAN /\ rx' \in Receives /\ SendInv'
  <2>1. CASE ResendOrHalt \/ Ignored(now)
    BY <2>1, <1>1, BoardTyped
  <2>2. CASE ~(ResendOrHalt \/ Ignored(now))
    BY <2>2, <1>4, <1>5 DEF Byte, Line
  <2> QED
    BY <2>1, <2>2
<1> QED
  BY <1>1, <1>3, <1>6 DEF host, Wire

\* Every step keeps the types and the attempts.
LEMMA TypeStep ==
  ASSUME TypeOK, SendInv, [Next]_vars PROVE TypeOK' /\ SendInv'
<1>0. MaxReplays \in Nat /\ MaxGets \in Nat /\ Attempts \in Nat /\ Delay \in Nat /\ StaleLimit \in Nat \ {0}
  BY LingerAssumption DEF LingerAssumption
<1>t. TERM_LINGER_S \in Nat
  <2>1. Attempts - 1 \in Nat /\ WallMax \in Nat /\ Margin \in Nat
    BY LingerAssumption DEF LingerAssumption
  <2> QED
    BY <2>1 DEF TERM_LINGER_S
<1>h. ASSUME Hear PROVE toHost' \in Seq(Terms) /\ UNCHANGED <<now, clock, board>>
  BY <1>h DEF Hear, HostDue, TypeOK, Terms
<1>1. ASSUME Transmit PROVE TypeOK' /\ SendInv'
  <2>1. Open(now) \in Receives
    BY Opened DEF TypeOK
  <2>2. faults' \in 0 .. MaxFaults /\ toHost' \in Seq(Terms)
    BY <1>1, TermSent DEF Transmit
  <2> QED
    BY <1>0, <1>1, <2>1, <2>2 DEF Transmit, TypeOK, SendInv, Terms, host
<1>2. ASSUME on_term PROVE TypeOK' /\ SendInv'
  <2>1. toHost' \in Seq(Terms) /\ UNCHANGED <<now, clock, board>> /\ UNCHANGED <<gets, missed>>
    BY <1>2, <1>h DEF on_term
  <2>2. until' \in Nat
    BY <1>2, <1>t DEF on_term, TypeOK
  <2>3. acks' \in 0 .. MaxReplays /\ fifo' \in Seq(Wire) /\ faults' \in 0 .. MaxFaults /\ cut' \in BOOLEAN
    <3>1. CASE acks < MaxReplays
      BY <1>0, <1>2, <3>1, LineSent DEF on_term, TypeOK
    <3>2. CASE ~(acks < MaxReplays)
      BY <1>2, <3>2 DEF on_term, TypeOK, Wire
    <3> QED
      BY <3>1, <3>2
  <2> QED
    BY <2>1, <2>2, <2>3 DEF TypeOK, SendInv, Terms, Wire, board
<1>3. ASSUME on_broken_line PROVE TypeOK' /\ SendInv'
  <2>1. toHost' \in Seq(Terms) /\ UNCHANGED <<now, clock, board>> /\ UNCHANGED <<until, acks, missed>>
    BY <1>3, <1>h DEF on_broken_line
  <2>2. gets' \in 0 .. MaxGets /\ fifo' \in Seq(Wire) /\ faults' \in 0 .. MaxFaults /\ cut' \in BOOLEAN
    <3>1. CASE gets < MaxGets
      BY <1>0, <1>3, <3>1, LineSent DEF on_broken_line, TypeOK
    <3>2. CASE ~(gets < MaxGets)
      BY <1>3, <3>2 DEF on_broken_line, TypeOK, Wire
    <3> QED
      BY <3>1, <3>2
  <2> QED
    BY <2>1, <2>2 DEF TypeOK, SendInv, Terms, Wire, board
<1>4. ASSUME Unheard PROVE TypeOK' /\ SendInv'
  BY <1>4, <1>h DEF Unheard, TypeOK, SendInv, Terms, board
<1>5. ASSUME Noise PROVE TypeOK' /\ SendInv'
  <2>1. <<At(now, "junk")>> \in Seq(Wire)
    BY DEF TypeOK, At, Wire, Bytes
  <2>2. faults' \in 0 .. MaxFaults
    <3>1. MaxFaults \in Nat
      BY LingerAssumption DEF LingerAssumption
    <3> QED
      BY <1>5, <3>1 DEF Noise
  <2> QED
    BY <1>5, <2>1, <2>2 DEF Noise, TypeOK, SendInv, Wire, board, host
<1>6. ASSUME Meanwhile PROVE TypeOK' /\ SendInv'
  BY <1>6 DEF Meanwhile, TypeOK, SendInv, board, host, link
<1>7. ASSUME UNCHANGED vars PROVE TypeOK' /\ SendInv'
  BY <1>7 DEF TypeOK, SendInv, vars, board, host, link
<1> QED
  BY <1>1, <1>2, <1>3, <1>4, <1>5, <1>6, <1>7, PollTyped, ByteTyped DEF Next, Board, Host

-----------------------------------------------------------------------------
(* The clock.                                                               *)

\* A receive that opens now is within its bound, whoever opened it.
LEMMA FreshInTime ==
  ASSUME TypeOK, NEW t \in Nat, now' = t, clock' = clock, rx' = Open(t)
  PROVE  ClockInv'
<1>1. Bound \in Nat /\ (clock => rx'.start = t)
  BY LingerAssumption, Opened DEF LingerAssumption
<1> QED
  BY <1>1 DEF ClockInv

\* No step leaves a receive outside its bound.
LEMMA ClockStep ==
  ASSUME TypeOK, ClockInv, [Next]_vars PROVE ClockInv'
<1>0. now \in Nat /\ Bound \in Nat /\ now + 1 \in Nat /\ rx.start \in Nat
  BY LingerAssumption DEF LingerAssumption, TypeOK, Receives
<1>1. ASSUME Transmit PROVE ClockInv'
  BY <1>0, <1>1, FreshInTime DEF Transmit
<1>2. ASSUME Poll PROVE ClockInv'
  <2>1. now' = now + 1 /\ clock' = clock /\ phase = "wait"
    BY <1>2 DEF Poll
  <2>2. CASE Ignored(now + 1) \/ ResendOrHalt
    <3>1. (phase' = phase /\ rx' = Open(now + 1)) \/ phase' = "send" \/ phase' = "halted"
      BY <1>0, <2>2, WaitEnds
    <3>2. CASE rx' = Open(now + 1)
      BY <1>0, <2>1, <3>2, FreshInTime
    <3>3. CASE phase' = "send" \/ phase' = "halted"
      BY <3>3 DEF ClockInv
    <3> QED
      BY <3>1, <3>2, <3>3
  <2>3. CASE ~(Ignored(now + 1) \/ ResendOrHalt)
    <3>1. rx' = Polled /\ ~(now_ticks(now + 1) - rx.start > LineTicks)
      BY <1>2, <2>3 DEF Poll
    <3>2. rx'.start = rx.start /\ (clock => now + 1 - rx.start <= Bound)
      <4>1. rx'.start = rx.start
        BY <3>1 DEF Polled
      <4>2. ASSUME clock PROVE now_ticks(now + 1) = now + 1
        BY <4>2 DEF now_ticks
      <4>3. ASSUME clock PROVE now + 1 - rx.start <= Bound
        BY <1>0, <3>1, <4>2, <4>3 DEF LineTicks
      <4> QED
        BY <4>1, <4>3
    <3> QED
      BY <1>0, <2>1, <3>2 DEF ClockInv
  <2> QED
    BY <2>2, <2>3
<1>3. ASSUME Byte PROVE ClockInv'
  <2>1. now' = now /\ clock' = clock /\ phase = "wait"
    BY <1>3 DEF Byte
  <2>2. CASE Ignored(now) \/ ResendOrHalt
    <3>1. (phase' = phase /\ rx' = Open(now)) \/ phase' = "send" \/ phase' = "halted"
      BY <1>0, <2>2, WaitEnds
    <3>2. CASE rx' = Open(now)
      BY <1>0, <2>1, <3>2, FreshInTime
    <3>3. CASE phase' = "send" \/ phase' = "halted"
      BY <3>3 DEF ClockInv
    <3> QED
      BY <3>1, <3>2, <3>3
  <2>3. CASE ~(Ignored(now) \/ ResendOrHalt)
    <3>1. phase' = "halted" \/ rx' = Taken(Head(fifo).byte)
      BY <1>3, <2>3 DEF Byte, Line
    <3>2. Taken(Head(fifo).byte).start = rx.start
      BY DEF Taken
    <3> QED
      BY <1>0, <2>1, <3>1, <3>2 DEF ClockInv
  <2> QED
    BY <2>2, <2>3
<1>4. ASSUME Host PROVE ClockInv'
  <2>1. UNCHANGED <<now, clock, phase, rx>>
    BY <1>4 DEF Host, on_term, on_broken_line, Unheard, Hear, board
  <2> QED
    BY <2>1 DEF ClockInv
<1>5. ASSUME Noise PROVE ClockInv'
  <2>1. UNCHANGED <<now, clock, phase, rx>>
    BY <1>5 DEF Noise, board
  <2> QED
    BY <2>1 DEF ClockInv
<1>6. ASSUME Meanwhile PROVE ClockInv'
  BY <1>6 DEF Meanwhile, ClockInv, board
<1>7. ASSUME UNCHANGED vars PROVE ClockInv'
  BY <1>7 DEF ClockInv, vars, board
<1> QED
  BY <1>1, <1>2, <1>3, <1>4, <1>5, <1>6, <1>7 DEF Next, Board

-----------------------------------------------------------------------------
(* The linger.                                                              *)

\* Whatever is on its way has a time.
LEMMA Timed ==
  /\ \A s \in Seq(Wire) : \A i \in DOMAIN s : s[i].at \in Nat
  /\ \A s \in Seq(Terms) : \A i \in DOMAIN s : s[i].at \in Nat
<1>1. ASSUME NEW s \in Seq(Wire), NEW i \in DOMAIN s PROVE s[i].at \in Nat
  <2>1. s[i] \in Wire
    OBVIOUS
  <2> QED
    BY <2>1 DEF Wire
<1>2. ASSUME NEW s \in Seq(Terms), NEW i \in DOMAIN s PROVE s[i].at \in Nat
  <2>1. s[i] \in Terms
    OBVIOUS
  <2> QED
    BY <2>1 DEF Terms
<1> QED
  BY <1>1, <1>2

\* A later bound is a bound.
LEMMA LaterBound ==
  ASSUME NEW s \in Seq(Wire), NEW b \in Nat, NEW c \in Nat, b <= c, EndsInTime(s, b)
  PROVE  EndsInTime(s, c)
<1>1. SUFFICES ASSUME s # << >>, NEW i \in DOMAIN s PROVE s[Len(s)].byte = "nl" /\ s[i].at <= c
  BY DEF EndsInTime
<1>2. s[Len(s)].byte = "nl" /\ s[i].at <= b
  BY <1>1 DEF EndsInTime
<1>3. s[i].at \in Nat
  BY <1>1, Timed
<1> QED
  BY <1>2, <1>3

\* While an attempt is under way, its bound is a number, and the next one's is
\* a wait later.
LEMMA Now ==
  ASSUME TypeOK, attempts # 0
  PROVE  /\ Turns(attempts - 1) \in Nat /\ Turns(attempts) = Turns(attempts - 1) + Bound + 1 + 2 * Delay
         /\ Turns(attempts) \in Nat
<1>1. attempts - 1 \in Nat /\ (attempts - 1) + 1 = attempts /\ Bound \in Nat /\ Delay \in Nat
  BY LingerAssumption DEF LingerAssumption, TypeOK
<1>2. Turns(attempts - 1) \in Nat /\ Turns((attempts - 1) + 1) = Turns(attempts - 1) + Wait
  BY <1>1, TurnsStep
<1> HIDE DEF Turns
<1> QED
  BY <1>1, <1>2 DEF Wait

\* A transmission opens the next wait.
LEMMA TransmitInTime ==
  ASSUME IInv, clock, ~cut, Transmit PROVE OnTime' /\ ~missed'
<1> USE DEF IInv
<1>1. TypeOK /\ OnTime /\ ~missed /\ phase = "send"
  BY DEF TimeInv, Transmit
<1>2. /\ attempts' = attempts + 1 /\ phase' = "wait" /\ rx' = Open(now) /\ SendTerm
      /\ UNCHANGED <<now, clock, until, missed, fifo>>
  BY DEF Transmit, host
<1>3. now \in Nat /\ attempts \in Nat /\ Delay \in Nat /\ attempts' - 1 = attempts /\ attempts' # 0
  <2>1. now \in Nat /\ attempts \in Nat /\ Delay \in Nat
    BY <1>1, LingerAssumption DEF LingerAssumption, TypeOK
  <2> QED
    BY <2>1, <1>2
<1> DEFINE b == Turns(attempts)
<1>4. b \in Nat /\ now <= b
  BY <1>1, <1>3, TurnsStep DEF OnTime
<1>5. rx'.start = now /\ rx'.line = << >>
  BY <1>1, <1>2, <1>3, Opened
<1>6. ASSUME attempts # 0 PROVE Turns(attempts - 1) \in Nat /\ Turns(attempts - 1) <= b
  <2>1. Bound \in Nat /\ Turns(attempts - 1) \in Nat /\ Turns(attempts) = Turns(attempts - 1) + Bound + 1 + 2 * Delay
    BY <1>1, <1>6, Now, LingerAssumption DEF LingerAssumption
  <2> HIDE DEF Turns
  <2> QED
    BY <1>3, <2>1
<1> HIDE DEF b
<1>7. \A i \in DOMAIN toHost' : toHost'[i].at <= b + Delay
  <2>1. toHost \in Seq(Terms)
    BY <1>1 DEF TypeOK, Terms
  <2>2. \A i \in DOMAIN toHost : toHost[i].at <= b + Delay
    <3>1. SUFFICES ASSUME NEW i \in DOMAIN toHost PROVE toHost[i].at <= b + Delay
      OBVIOUS
    <3>2. toHost # << >> /\ toHost[i].at \in Nat
      BY <2>1, Timed
    <3>3. attempts # 0 /\ toHost[i].at <= Turns(attempts - 1) + Delay
      BY <1>1, <3>2 DEF OnTime
    <3>4. Turns(attempts - 1) \in Nat /\ Turns(attempts - 1) <= b
      BY <3>3, <1>6
    <3> QED
      BY <3>2, <3>3, <3>4, <1>3, <1>4
  <2>3. CASE toHost' = toHost
    BY <2>2, <2>3
  <2>4. CASE \E t \in Terms : toHost' = Append(toHost, t) /\ t.at <= now + Delay
    <3>1. PICK t \in Terms : toHost' = Append(toHost, t) /\ t.at <= now + Delay
      BY <2>4
    <3>2. t.at <= b + Delay
      BY <3>1, <1>3, <1>4 DEF Terms
    <3>3. ASSUME NEW i \in DOMAIN toHost' PROVE toHost'[i] = t \/ (i \in DOMAIN toHost /\ toHost'[i] = toHost[i])
      BY <3>1, <2>1
    <3> QED
      BY <3>2, <3>3, <2>2
  <2> QED
    BY <1>1, <1>2, <2>3, <2>4, TermSent
<1>8. EndsInTime(fifo', b + 2 * Delay)
  <2>1. CASE fifo = << >>
    BY <2>1, <1>2 DEF EndsInTime
  <2>2. CASE fifo # << >>
    <3>1. attempts # 0 /\ EndsInTime(fifo, Turns(attempts - 1) + 2 * Delay)
      BY <1>1, <2>2 DEF OnTime
    <3>2. Turns(attempts - 1) \in Nat /\ Turns(attempts - 1) <= b
      BY <3>1, <1>6
    <3>3. Turns(attempts - 1) + 2 * Delay \in Nat /\ b + 2 * Delay \in Nat
          /\ Turns(attempts - 1) + 2 * Delay <= b + 2 * Delay
      BY <3>2, <1>3, <1>4
    <3>4. fifo \in Seq(Wire)
      BY <1>1 DEF TypeOK, Wire
    <3> HIDE DEF Turns
    <3> QED
      BY <3>1, <3>3, <3>4, <1>2, LaterBound
  <2> QED
    BY <2>1, <2>2
<1>9. now <= b + Delay /\ now <= b + 2 * Delay
  BY <1>3, <1>4
<1>10. Turns(attempts' - 1) = b
  BY <1>3 DEF b
<1>11. (until' # 0 => until' >= TERM_LINGER_S) /\ ~missed'
  BY <1>1, <1>2 DEF OnTime
<1> HIDE DEF Turns
<1> QED
  BY <1>2, <1>3, <1>5, <1>7, <1>8, <1>9, <1>10, <1>11 DEF OnTime

\* A wait that ends, or begins again, in time for the next transmission.
LEMMA EndInTime ==
  ASSUME TypeOK, OnTime, ~missed, clock, phase = "wait", NEW t \in Nat,
         Ignored(t) \/ ResendOrHalt, now' = t, UNCHANGED <<until, missed, toHost>>,
         fifo' \in Seq(Wire), EndsInTime(fifo', Turns(attempts - 1) + 2 * Delay),
         ResendOrHalt \/ fifo # << >>,
         toHost # << >> => t <= Turns(attempts - 1) + Delay,
         fifo # << >> => t <= Turns(attempts - 1) + 2 * Delay,
         t <= Turns(attempts - 1) + Bound + 1 + 2 * Delay,
         fifo' # << >> => fifo # << >>,
         rx.line # << >> /\ ResendOrHalt /\ phase' = "wait" => fifo' # << >>
  PROVE  OnTime' /\ ~missed'
<1>1. attempts # 0 /\ attempts' = attempts /\ rx.start <= Turns(attempts - 1) + 2 * Delay
  BY WaitEnds DEF OnTime
<1>2. Turns(attempts) = Turns(attempts - 1) + Bound + 1 + 2 * Delay
  BY <1>1, Now
<1>3. /\ \/ phase' = phase /\ rx' = Open(t)
         \/ rx' = rx /\ phase' = "send" /\ attempts < Attempts
         \/ rx' = rx /\ phase' = "halted"
      /\ phase' = "wait" => rx' = Open(t) /\ ~ResendOrHalt
  BY WaitEnds DEF ResendOrHalt
<1>4. phase' = "wait" => rx'.line = << >> /\ rx'.start = t /\ fifo # << >>
  BY <1>3, Opened
<1>5. until' # 0 => until' >= TERM_LINGER_S
  BY DEF OnTime
<1>6. \A i \in DOMAIN toHost : toHost[i].at <= Turns(attempts - 1) + Delay
  BY DEF OnTime
<1> HIDE DEF Turns
<1> QED
  BY <1>1, <1>2, <1>3, <1>4, <1>5, <1>6 DEF OnTime

\* A poll that finds no byte is still in time: silence lasts a bound, and the
\* rest of a line is on its way.
LEMMA PollInTime ==
  ASSUME IInv, clock, ~cut, Poll PROVE OnTime' /\ ~missed'
<1> USE DEF IInv
<1>1. TypeOK /\ OnTime /\ ~missed /\ phase = "wait" /\ attempts # 0 /\ ClockInv
  BY DEF TimeInv, Poll, OnTime
<1>2. /\ now' = now + 1 /\ UNCHANGED <<clock, until, missed, toHost, fifo>> /\ ~ByteReady /\ ~HostDue
  BY DEF Poll, host, link
<1>3. now \in Nat /\ Delay \in Nat /\ Bound \in Nat /\ rx.start \in Nat
  BY <1>1, LingerAssumption DEF LingerAssumption, TypeOK, Receives
<1> DEFINE b == Turns(attempts - 1)
<1>4. b \in Nat
  BY <1>1, Now
<1>5. toHost # << >> => now + 1 <= b + Delay
  <2>1. ASSUME toHost # << >> PROVE now + 1 <= b + Delay
    <3>1. toHost \in Seq(Terms)
      BY <1>1 DEF TypeOK, Terms
    <3>2. 1 \in DOMAIN toHost /\ Head(toHost) = toHost[1]
      BY <2>1, <3>1
    <3>3. toHost[1].at \in Nat /\ toHost[1].at <= b + Delay
      BY <3>1, <3>2, <1>1, Timed DEF OnTime
    <3>4. ~(toHost[1].at <= now)
      BY <1>2, <2>1, <3>2 DEF HostDue
    <3> HIDE DEF b
    <3> QED
      BY <3>3, <3>4, <1>3, <1>4
  <2> QED
    BY <2>1
<1>6. fifo # << >> => now + 1 <= b + 2 * Delay
  <2>1. ASSUME fifo # << >> PROVE now + 1 <= b + 2 * Delay
    <3>1. fifo \in Seq(Wire)
      BY <1>1 DEF TypeOK, Wire
    <3>2. 1 \in DOMAIN fifo /\ Head(fifo) = fifo[1]
      BY <2>1, <3>1
    <3>3. fifo[1].at \in Nat /\ fifo[1].at <= b + 2 * Delay
      BY <2>1, <3>1, <3>2, <1>1, Timed DEF OnTime, EndsInTime
    <3>4. ~(fifo[1].at <= now)
      BY <1>2, <2>1, <3>2 DEF ByteReady
    <3> HIDE DEF b
    <3> QED
      BY <3>3, <3>4, <1>3, <1>4
  <2> QED
    BY <2>1
<1>7. now + 1 <= b + Bound + 1 + 2 * Delay
  <2>1. now <= rx.start + Bound /\ rx.start <= b + 2 * Delay
    BY <1>1 DEF ClockInv, OnTime
  <2> HIDE DEF b
  <2> QED
    BY <2>1, <1>3, <1>4
<1>8. EndsInTime(fifo', b + 2 * Delay) /\ fifo' \in Seq(Wire)
  BY <1>1, <1>2 DEF OnTime, TypeOK, Wire
<1>9. CASE rx.line = << >> /\ ResendOrHalt
  BY <1>1, <1>2, <1>3, <1>5, <1>6, <1>7, <1>8, <1>9, EndInTime
<1>10. CASE rx.line # << >> /\ Ignored(now + 1)
  <2>1. fifo # << >>
    BY <1>1, <1>10 DEF OnTime
  <2> QED
    BY <1>1, <1>2, <1>3, <1>5, <1>6, <1>7, <1>8, <1>10, <2>1, EndInTime
<1>11. CASE rx' = Polled /\ UNCHANGED <<phase, attempts>>
  <2>1. rx'.start = rx.start /\ rx'.line = rx.line
    BY <1>11 DEF Polled
  <2> HIDE DEF Turns
  <2> QED
    BY <1>1, <1>2, <1>5, <1>6, <1>8, <1>11, <2>1 DEF OnTime
<1> QED
  BY <1>9, <1>10, <1>11 DEF Poll

\* What is left of a stretch of wire ends as it did.
LEMMA TailInTime ==
  ASSUME NEW s \in Seq(Wire), s # << >>, NEW b \in Nat, EndsInTime(s, b)
  PROVE  /\ Tail(s) \in Seq(Wire) /\ EndsInTime(Tail(s), b)
         /\ Head(s).byte # "nl" => Tail(s) # << >>
<1> DEFINE r == Tail(s)
<1>1. r \in Seq(Wire) /\ Len(s) \in Nat \ {0} /\ Len(r) = Len(s) - 1 /\ \A i \in 1 .. Len(r) : r[i] = s[i + 1]
  OBVIOUS
<1>2. Len(r) # 0 => r[Len(r)] = s[Len(s)]
  BY <1>1
<1>3. Len(r) = 0 => Head(s) = s[Len(s)]
  <2>1. Head(s) = s[1]
    OBVIOUS
  <2>2. ASSUME Len(r) = 0 PROVE Len(s) = 1
    <3>1. Len(r) = Len(s) - 1 /\ Len(s) \in Nat
      BY <1>1
    <3> HIDE DEF r
    <3> QED
      BY <3>1, <2>2
  <2> HIDE DEF r
  <2> QED
    BY <2>1, <2>2
<1>4. s[Len(s)].byte = "nl" /\ \A i \in 1 .. Len(s) : s[i].at <= b
  BY DEF EndsInTime
<1>5. DOMAIN r = 1 .. Len(r) /\ (r # << >> <=> Len(r) # 0)
  <2> HIDE DEF r
  <2> QED
    BY <1>1
<1>6. \A i \in DOMAIN r : r[i].at <= b
  BY <1>1, <1>4, <1>5
<1> HIDE DEF r
<1>7. EndsInTime(r, b) /\ (Head(s).byte # "nl" => r # << >>)
  BY <1>2, <1>3, <1>4, <1>5, <1>6 DEF EndsInTime
<1> QED
  BY <1>1, <1>7 DEF r

\* A byte read is in time, and no byte comes too late.
LEMMA ByteInTime ==
  ASSUME IInv, clock, ~cut, Byte PROVE OnTime' /\ ~missed'
<1> USE DEF IInv
<1>1. TypeOK /\ OnTime /\ ~missed /\ phase = "wait" /\ attempts # 0 /\ fifo # << >>
  BY DEF TimeInv, Byte, OnTime, ByteReady
<1>2. now' = now /\ UNCHANGED <<clock, until, missed, toHost>>
  BY DEF Byte, host
<1>3. now \in Nat /\ Delay \in Nat /\ Bound \in Nat /\ fifo \in Seq(Wire)
  BY <1>1, LingerAssumption DEF LingerAssumption, TypeOK, Wire
<1> DEFINE b == Turns(attempts - 1)
<1>4. b \in Nat /\ b + 2 * Delay \in Nat
  <2>1. b \in Nat
    BY <1>1, Now
  <2> HIDE DEF b
  <2> QED
    BY <2>1, <1>3
<1>5. EndsInTime(fifo, b + 2 * Delay) /\ now <= b + 2 * Delay /\ (toHost # << >> => now <= b + Delay)
  BY <1>1 DEF OnTime
<1>6. now <= b + Bound + 1 + 2 * Delay
  <2> HIDE DEF b
  <2> QED
    BY <1>3, <1>4, <1>5
<1>7. /\ Tail(fifo) \in Seq(Wire) /\ EndsInTime(Tail(fifo), b + 2 * Delay)
      /\ Head(fifo).byte # "nl" => Tail(fifo) # << >>
  <2> HIDE DEF b
  <2> QED
    BY <1>1, <1>3, <1>4, <1>5, TailInTime
<1>8. (fifo' = fifo \/ fifo' = Tail(fifo)) /\ fifo' \in Seq(Wire) /\ EndsInTime(fifo', b + 2 * Delay)
  BY <1>3, <1>5, <1>7 DEF Byte
<1>9. CASE Ignored(now) \/ ResendOrHalt
  <2>1. rx.line # << >> /\ ResendOrHalt /\ phase' = "wait" => fifo' # << >>
    BY DEF ResendOrHalt
  <2> QED
    BY <1>1, <1>2, <1>3, <1>5, <1>6, <1>8, <1>9, <2>1, EndInTime
<1>10. CASE phase' = "halted" /\ UNCHANGED <<attempts, rx>>
  <2> HIDE DEF Turns
  <2> QED
    BY <1>1, <1>2, <1>5, <1>8, <1>10 DEF OnTime
<1>11. CASE Head(fifo).byte # "nl" /\ rx' = Taken(Head(fifo).byte) /\ fifo' = Tail(fifo) /\ UNCHANGED <<phase, attempts>>
  <2>1. rx'.start = rx.start
    BY <1>11 DEF Taken
  <2> HIDE DEF Turns
  <2> QED
    BY <1>1, <1>2, <1>5, <1>7, <1>8, <1>11, <2>1 DEF OnTime
<1> QED
  BY <1>9, <1>10, <1>11 DEF Byte, Line

\* What the host hears, it hears in time.
LEMMA HeardInTime ==
  ASSUME IInv, clock, ~cut, Hear
  PROVE  /\ OnTime /\ ~missed /\ attempts # 0 /\ now <= Turns(attempts - 1) + Delay /\ Turns(attempts - 1) \in Nat
         /\ UNCHANGED <<now, clock, board>>
         /\ \A i \in DOMAIN toHost' : toHost'[i].at <= Turns(attempts - 1) + Delay
<1> USE DEF IInv
<1>1. TypeOK /\ OnTime /\ ~missed /\ toHost # << >> /\ toHost' = Tail(toHost) /\ UNCHANGED <<now, clock, board>>
  BY DEF TimeInv, Hear, HostDue
<1>2. attempts # 0 /\ now <= Turns(attempts - 1) + Delay /\ Turns(attempts - 1) \in Nat
  BY <1>1, Now DEF OnTime
<1>3. \A i \in DOMAIN toHost : toHost[i].at <= Turns(attempts - 1) + Delay
  BY <1>1 DEF OnTime
<1>4. toHost \in Seq(Terms)
  BY <1>1 DEF TypeOK, Terms
<1>5. \A i \in DOMAIN toHost' : i + 1 \in DOMAIN toHost /\ toHost'[i] = toHost[i + 1]
  BY <1>1, <1>4
<1> QED
  BY <1>1, <1>2, <1>3, <1>5

\* An answer is on its way within a delay of what it answers.
LEMMA AnswerInTime ==
  ASSUME IInv, clock, ~cut, Hear, ~cut', ~missed',
         until' # 0 => until' >= TERM_LINGER_S,
         UNCHANGED fifo \/ SendLine("TERMACK") \/ SendLine("TERMGET")
  PROVE  OnTime'
<1> USE DEF IInv
<1>1. /\ OnTime /\ attempts # 0 /\ now <= Turns(attempts - 1) + Delay /\ Turns(attempts - 1) \in Nat
      /\ UNCHANGED <<now, clock, board>>
      /\ \A i \in DOMAIN toHost' : toHost'[i].at <= Turns(attempts - 1) + Delay
  BY HeardInTime
<1> DEFINE b == Turns(attempts - 1)
<1>2. b \in Nat /\ now \in Nat /\ Delay \in Nat /\ fifo \in Seq(Wire)
  BY <1>1, LingerAssumption DEF LingerAssumption, TypeOK, Wire
<1>3. EndsInTime(fifo, b + 2 * Delay)
  BY <1>1 DEF OnTime
<1>4. UNCHANGED <<phase, attempts, rx>>
  BY <1>1 DEF board
<1> HIDE DEF b
<1>5. b + 2 * Delay \in Nat /\ now + Delay \in Nat /\ now + Delay <= b + 2 * Delay /\ now <= b + 2 * Delay
  BY <1>1, <1>2 DEF b
<1>6. fifo' \in Seq(Wire) /\ EndsInTime(fifo', b + 2 * Delay) /\ (fifo # << >> => fifo' # << >>)
  <2>1. CASE UNCHANGED fifo
    BY <2>1, <1>2, <1>3
  <2>2. CASE \E q \in Seq(Wire) : fifo' = fifo \o q /\ q # << >> /\ EndsInTime(q, now + Delay)
    <3>1. PICK q \in Seq(Wire) : fifo' = fifo \o q /\ q # << >> /\ EndsInTime(q, now + Delay)
      BY <2>2
    <3>2. EndsInTime(q, b + 2 * Delay)
      BY <3>1, <1>5, LaterBound
    <3> QED
      BY <3>1, <3>2, <1>2, <1>3, <1>5, Joined
  <2> QED
    BY <2>1, <2>2, LineSent
<1> USE DEF b
<1> HIDE DEF Turns
<1> QED
  BY <1>1, <1>4, <1>5, <1>6 DEF OnTime

\* Every step is in time.
LEMMA TimeStep ==
  ASSUME IInv, [Next]_vars PROVE TimeInv'
<1> USE DEF IInv
<1>0. SUFFICES ASSUME clock', ~cut' PROVE OnTime' /\ ~missed'
  BY DEF TimeInv
<1>t. TERM_LINGER_S \in Nat /\ now \in Nat /\ until \in Nat
  <2>1. Attempts - 1 \in Nat /\ WallMax \in Nat /\ Margin \in Nat
    BY LingerAssumption DEF LingerAssumption
  <2>2. TERM_LINGER_S \in Nat
    BY <2>1 DEF TERM_LINGER_S
  <2> QED
    BY <2>2 DEF TypeOK
<1>s. ASSUME UNCHANGED vars PROVE OnTime' /\ ~missed'
  BY <1>0, <1>s DEF TimeInv, OnTime, vars, board, host, link
<1>1. ASSUME Transmit PROVE OnTime' /\ ~missed'
  BY <1>0, <1>1, TransmitInTime DEF Transmit
<1>2. ASSUME Poll PROVE OnTime' /\ ~missed'
  BY <1>0, <1>2, PollInTime DEF Poll, link
<1>3. ASSUME Byte PROVE OnTime' /\ ~missed'
  BY <1>0, <1>3, ByteInTime DEF Byte
<1>h. ASSUME Hear, clock, ~cut PROVE ~missed /\ OnTime
  BY <1>h, HeardInTime
<1>4. ASSUME on_term PROVE OnTime' /\ ~missed'
  <2>1. Hear /\ missed' = missed /\ UNCHANGED <<now, clock>>
    BY <1>4 DEF on_term, Hear
  <2>2. UNCHANGED <<fifo, cut>> \/ SendLine("TERMACK")
    BY <1>4 DEF on_term
  <2>3. ~cut
    BY <1>0, <2>2, LineSent DEF TypeOK
  <2>4. ~missed /\ OnTime
    BY <1>0, <1>h, <2>1, <2>3
  <2>5. until' # 0 => until' >= TERM_LINGER_S
    <3>1. until' = now + TERM_LINGER_S \/ (until' = until /\ until # 0)
      BY <1>4 DEF on_term
    <3> QED
      BY <3>1, <2>4, <1>t DEF OnTime
  <2> QED
    BY <1>0, <2>1, <2>2, <2>3, <2>4, <2>5, AnswerInTime
<1>5. ASSUME on_broken_line PROVE OnTime' /\ ~missed'
  <2>1. Hear /\ missed' = missed /\ until' = until /\ UNCHANGED <<now, clock>>
    BY <1>5 DEF on_broken_line, Hear
  <2>2. UNCHANGED <<fifo, cut>> \/ SendLine("TERMGET")
    BY <1>5 DEF on_broken_line
  <2>3. ~cut
    BY <1>0, <2>2, LineSent DEF TypeOK
  <2>4. ~missed /\ OnTime
    BY <1>0, <1>h, <2>1, <2>3
  <2>5. until' # 0 => until' >= TERM_LINGER_S
    BY <2>1, <2>4 DEF OnTime
  <2> QED
    BY <1>0, <2>1, <2>2, <2>3, <2>4, <2>5, AnswerInTime
\* Nobody misses a TERM: the linger is longer than all the waits.
<1>6. ASSUME Unheard PROVE FALSE
  <2>1. Hear /\ until # 0 /\ ~(now < until) /\ ~cut /\ clock
    BY <1>0, <1>6 DEF Unheard, Reading, Hear
  <2>2. OnTime /\ attempts # 0 /\ now <= Turns(attempts - 1) + Delay
    BY <2>1, HeardInTime
  <2>3. attempts - 1 \in Nat /\ (attempts - 1) + 1 <= Attempts
    BY <2>2, LingerAssumption DEF LingerAssumption, TypeOK
  <2>4. Turns(attempts - 1) + Delay < TERM_LINGER_S /\ Turns(attempts - 1) \in Nat
    BY <2>3, LingerIsEnough, TurnsStep
  <2>5. until >= TERM_LINGER_S /\ Delay \in Nat
    BY <2>1, <2>2, LingerAssumption DEF LingerAssumption, OnTime
  <2> HIDE DEF Turns
  <2> QED
    BY <1>t, <2>1, <2>2, <2>4, <2>5
<1>7. ASSUME Noise PROVE FALSE
  BY <1>0, <1>7 DEF Noise
<1>8. ASSUME Meanwhile PROVE OnTime' /\ ~missed'
  <2>1. /\ phase = "halted" /\ toHost # << >> /\ ~(Head(toHost).at <= now) /\ now' = now + 1
        /\ UNCHANGED <<clock, phase, attempts, rx, until, missed, toHost, fifo, cut>>
    BY <1>8 DEF Meanwhile, HostDue, board, host, link
  <2>2. OnTime /\ ~missed /\ attempts # 0
    BY <1>0, <2>1 DEF TimeInv, OnTime
  <2>3. toHost \in Seq(Terms) /\ Turns(attempts - 1) \in Nat /\ Delay \in Nat
    BY <2>2, Now, LingerAssumption DEF LingerAssumption, TypeOK, Terms
  <2>4. 1 \in DOMAIN toHost /\ Head(toHost) = toHost[1]
    BY <2>1, <2>3
  <2>5. toHost[1].at \in Nat /\ toHost[1].at <= Turns(attempts - 1) + Delay
    BY <2>2, <2>3, <2>4, Timed DEF OnTime
  <2> HIDE DEF Turns
  <2>6. now + 1 <= Turns(attempts - 1) + Delay
    BY <1>t, <2>1, <2>3, <2>4, <2>5
  <2> QED
    BY <2>1, <2>2, <2>6 DEF OnTime
<1> QED
  BY <1>s, <1>1, <1>2, <1>3, <1>4, <1>5, <1>6, <1>7, <1>8 DEF Next, Board, Host

-----------------------------------------------------------------------------
(* The theorems.                                                            *)

\* The epoch's last transaction starts in time.
LEMMA InitInv == Init => IInv
<1> SUFFICES ASSUME Init PROVE IInv
  OBVIOUS
<1> USE DEF Init
<1>0. Attempts \in Nat \ {0} /\ Cap \in Nat /\ StaleLimit \in Nat \ {0} /\ MaxReplays \in Nat
      /\ MaxGets \in Nat /\ MaxFaults \in Nat /\ Bound \in Nat /\ Delay \in Nat
  BY LingerAssumption DEF LingerAssumption
<1>1. Open(0) \in Receives
  <2>1. << >> \in Seq(Bytes \ {"nl"})
    OBVIOUS
  <2> QED
    BY <1>0, <2>1, Limits DEF Open, now_ticks, Receives
<1>2. TypeOK
  <2>1. toHost \in Seq([at : Nat, whole : BOOLEAN]) /\ fifo \in Seq([at : Nat, byte : Bytes])
    OBVIOUS
  <2>2. attempts \in 0 .. Attempts /\ stale \in 0 .. StaleLimit - 1 /\ acks \in 0 .. MaxReplays
        /\ gets \in 0 .. MaxGets /\ faults \in 0 .. MaxFaults
    BY <1>0
  <2>3. rx \in Receives
    BY <1>1
  <2> QED
    BY <2>1, <2>2, <2>3 DEF TypeOK
<1>3. SendInv /\ ClockInv
  BY <1>0 DEF SendInv, ClockInv
<1>4. TimeInv
  BY TurnsStep DEF TimeInv, OnTime, EndsInTime
<1> QED
  BY <1>2, <1>3, <1>4 DEF IInv

\* Every step keeps the inductive invariant.
LEMMA StepInv == IInv /\ [Next]_vars => IInv'
BY TypeStep, ClockStep, TimeStep DEF IInv

\* The inductive invariant holds of every behaviour.
LEMMA Inductive == Spec => []IInv
BY InitInv, StepInv, PTL DEF Spec

\* Every variable has its type: the transaction never runs past its attempts,
\* its stale limit or its line, and the ledger not past its bounds.
THEOREM TypeCorrect == Spec => []TypeOK
<1>1. IInv => TypeOK
  BY DEF IInv
<1> QED
  BY <1>1, Inductive, PTL

\* No line, however it is cut or paced, holds the receiver past one bound of
\* the clock (p3_rectx_recv_line_timed).
THEOREM Bounded == Spec => []NoLineHoldsTheReceiver
<1>1. IInv => NoLineHoldsTheReceiver
  <2>1. SUFFICES ASSUME IInv, phase = "wait", clock PROVE now - rx.start <= Bound
    BY DEF NoLineHoldsTheReceiver
  <2>2. Bound \in Nat /\ now \in Nat /\ rx \in Receives
    BY <2>1, LingerAssumption DEF LingerAssumption, IInv, TypeOK
  <2>3. rx.start \in Nat
    BY <2>2 DEF Receives
  <2>4. now <= rx.start + Bound
    BY <2>1 DEF IInv, ClockInv
  <2> QED
    BY <2>2, <2>3, <2>4
<1> QED
  BY <1>1, Inductive, PTL

\* The linger covers every resend of the TERM, as long as the link loses and
\* breaks lines whole (TERM_LINGER_S, host/l6_rel.py).
THEOREM Covered == Spec => []LingerCoversLosses
<1>1. IInv => LingerCoversLosses
  BY DEF IInv, TimeInv, LingerCoversLosses
<1> QED
  BY <1>1, Inductive, PTL

-----------------------------------------------------------------------------
(* Every attempt is answered or paid for.                                   *)

\* The bounds of a wait have room for an answer, so that silence means that
\* none is coming, and the host's ledger for an answer to every attempt: 8 s,
\* 10^8 polls and 3 answers in the code.
AnswersInTime ==
  /\ 2 * Delay <= Bound /\ 2 * Delay <= Cap /\ 2 * Delay + 3 <= Factor * Cap
  /\ Attempts <= MaxReplays

\* What the host's answer may have become on the link, its newline with it.
Answers == {<<"TERMACK", "rest", "nl">>, <<"TERMGET", "rest", "nl">>, <<"junk", "nl">>}

\* A fault for each attempt, or for each but the one in progress.
Paid == attempts <= faults
Owed == attempts <= faults + 1

\* Where a wait stands: its TERM is on its way, ...
AwaitTerm ==
  /\ Len(toHost) = 1 /\ fifo = << >> /\ rx.line = << >> /\ acks < attempts
  /\ now <= toHost[1].at /\ toHost[1].at <= rx.start + Delay
  /\ rx.total = now - rx.start /\ rx.idle = now - rx.start /\ rx.last = rx.start
  /\ IF toHost[1].whole THEN Owed ELSE Paid

\* ... or the answer, of which rx.line was read, ...
AwaitLine(text) ==
  /\ toHost = << >> /\ acks <= attempts
  /\ Len(rx.line) < Len(text) /\ Len(fifo) = Len(text) - Len(rx.line)
  /\ \A i \in 1 .. Len(rx.line) : rx.line[i] = text[i]
  /\ \A i \in 1 .. Len(fifo) : fifo[i].byte = text[Len(rx.line) + i]
  /\ \A i \in 1 .. Len(fifo) : now <= fifo[i].at /\ fifo[i].at <= rx.start + 2 * Delay
  /\ \A i \in 1 .. Len(fifo) : \A j \in 1 .. i : fifo[j].at <= fifo[i].at
  /\ rx.total = now - rx.start + Len(rx.line) /\ rx.idle <= now - rx.start /\ rx.start <= rx.last
  /\ IF text[1] = "TERMACK" THEN Owed ELSE Paid

\* ... or nothing, and that was paid for.
AwaitNothing == toHost = << >> /\ fifo = << >> /\ rx.line = << >> /\ acks <= attempts /\ Paid

\* No attempt that failed was not paid for by a fault of its own.
PayHolds ==
  /\ phase = "send" => toHost = << >> /\ fifo = << >> /\ acks <= attempts /\ Paid
  /\ phase = "wait" => AwaitTerm \/ AwaitNothing \/ \E text \in Answers : AwaitLine(text)
  /\ phase = "halted" => acked \/ (attempts = Attempts /\ Paid)
PayInv == clock /\ ~cut => PayHolds

\* The numbers and the clock have their kinds.
LEMMA Numbers ==
  ASSUME TypeOK
  PROVE  /\ {now, attempts, faults, acks, Delay, Bound, Cap, Attempts, MaxReplays, LinePolls, MaxFaults, LineMax} \subseteq Nat
         /\ {rx.start, rx.last, rx.idle, rx.total, Len(rx.line), Len(fifo), Len(toHost)} \subseteq Nat
         /\ attempts <= Attempts
         /\ toHost \in Seq(Terms) /\ fifo \in Seq(Wire)
         /\ rx.line \in Seq(Bytes \ {"nl"})
         /\ LinePolls = Factor * Cap /\ LineMax > 2
<1>1. {Delay, Bound, Cap, Attempts, MaxReplays, LinePolls, MaxFaults, LineMax} \subseteq Nat /\ LineMax > 2
  BY LingerAssumption, Limits DEF LingerAssumption
<1>2. {now, attempts, faults, acks} \subseteq Nat /\ attempts <= Attempts
  BY <1>1 DEF TypeOK
<1>3. rx \in Receives
  BY DEF TypeOK
<1>4. {rx.start, rx.last, rx.idle, rx.total} \subseteq Nat /\ rx.line \in Seq(Bytes \ {"nl"})
  BY <1>1, <1>3 DEF Receives
<1>5. toHost \in Seq(Terms) /\ fifo \in Seq(Wire)
  BY DEF TypeOK, Terms, Wire
<1>6. Len(rx.line) \in Nat /\ Len(fifo) \in Nat /\ Len(toHost) \in Nat
  BY <1>4, <1>5
<1> QED
  BY <1>1, <1>2, <1>4, <1>5, <1>6 DEF LinePolls

\* A line is at most three bytes and its newline is the last.
LEMMA AnswerLines ==
  ASSUME NEW text \in Answers
  PROVE  /\ Len(text) \in 2 .. 3 /\ DOMAIN text = 1 .. Len(text)
         /\ \A i \in 1 .. Len(text) : text[i] \in Bytes /\ (text[i] = "nl" <=> i = Len(text))
         /\ text[1] = "TERMACK" => Len(text) = 3 /\ text[2] = "rest"
<1>1. CASE text = <<"TERMACK", "rest", "nl">>
  BY <1>1 DEF Bytes
<1>2. CASE text = <<"TERMGET", "rest", "nl">>
  BY <1>2 DEF Bytes
<1>3. CASE text = <<"junk", "nl">>
  BY <1>3 DEF Bytes
<1> QED
  BY <1>1, <1>2, <1>3 DEF Answers

\* A transmission owes one answer, or is lost or broken and paid for.
LEMMA TransmitPays ==
  ASSUME TypeOK, PayHolds, clock, Transmit
  PROVE  PayHolds'
<1>1. /\ phase = "send" /\ phase' = "wait" /\ attempts' = attempts + 1 /\ rx' = Open(now)
      /\ UNCHANGED <<now, clock, acks, fifo>> /\ SendTerm
  BY DEF Transmit, host
<1>2. toHost = << >> /\ fifo = << >> /\ acks <= attempts /\ Paid
  BY <1>1 DEF PayHolds
<1>3. rx'.start = now /\ rx'.last = now /\ rx'.idle = 0 /\ rx'.total = 0 /\ rx'.line = << >>
  BY <1>1 DEF Open, now_ticks
<1>n. now \in Nat /\ attempts \in Nat /\ faults \in Nat /\ acks \in Nat /\ Delay \in Nat
  BY Numbers
<1>4. ASSUME NEW d \in 0 .. Delay, NEW w \in BOOLEAN, toHost' = Append(toHost, [at |-> now + d, whole |-> w])
      PROVE  Len(toHost') = 1 /\ toHost'[1].at = now + d /\ toHost'[1].whole = w
  BY <1>2, <1>4
<1>5. CASE \E d \in 0 .. Delay : toHost' = Append(toHost, [at |-> now + d, whole |-> TRUE]) /\ UNCHANGED faults
  <2>1. PICK d \in 0 .. Delay : toHost' = Append(toHost, [at |-> now + d, whole |-> TRUE])
    BY <1>5
  <2>2. Len(toHost') = 1 /\ toHost'[1].at = now + d /\ toHost'[1].whole
    BY <2>1, <1>4
  <2>3. Owed' /\ acks' < attempts'
    BY <1>1, <1>2, <1>5, <1>n DEF Owed, Paid
  <2>4. now' <= now + d /\ now + d <= rx'.start + Delay /\ rx'.total = now' - rx'.start
    BY <1>1, <1>3, <1>n
  <2>5. AwaitTerm'
    BY <1>1, <1>2, <1>3, <2>2, <2>3, <2>4 DEF AwaitTerm
  <2> QED
    BY <1>1, <2>5 DEF PayHolds
<1>6. CASE Fault /\ UNCHANGED toHost
  <2>1. Paid' /\ acks' <= attempts'
    BY <1>1, <1>2, <1>6, <1>n DEF Fault, Paid
  <2>2. AwaitNothing'
    BY <1>1, <1>2, <1>3, <1>6, <2>1 DEF AwaitNothing
  <2> QED
    BY <1>1, <2>2 DEF PayHolds
<1>7. CASE Fault /\ \E d \in 0 .. Delay : toHost' = Append(toHost, [at |-> now + d, whole |-> FALSE])
  <2>1. PICK d \in 0 .. Delay : toHost' = Append(toHost, [at |-> now + d, whole |-> FALSE])
    BY <1>7
  <2>2. Len(toHost') = 1 /\ toHost'[1].at = now + d /\ ~toHost'[1].whole
    BY <2>1, <1>4
  <2>3. Paid' /\ acks' < attempts'
    BY <1>1, <1>2, <1>7, <1>n DEF Fault, Paid
  <2>4. now' <= now + d /\ now + d <= rx'.start + Delay /\ rx'.total = now' - rx'.start
    BY <1>1, <1>3, <1>n
  <2>5. AwaitTerm'
    BY <1>1, <1>2, <1>3, <2>2, <2>3, <2>4 DEF AwaitTerm
  <2> QED
    BY <1>1, <2>5 DEF PayHolds
<1> QED
  BY <1>1, <1>5, <1>6, <1>7 DEF SendTerm

\* Of a sequence of one nothing is left.
LEMMA OnlyOne ==
  ASSUME NEW S, NEW q \in Seq(S), Len(q) = 1
  PROVE  q # << >> /\ Head(q) = q[1] /\ Tail(q) = << >>
<1>1. q # << >>
  OBVIOUS
<1>2. Tail(q) \in Seq(S) /\ Len(Tail(q)) = 0
  BY <1>1
<1>3. Head(q) = q[1]
  BY <1>1
<1>4. Tail(q) = << >>
  <2>1. \A s \in Seq(S) : Len(s) = 0 => s = << >>
    OBVIOUS
  <2> QED
    BY <1>2, <2>1
<1> QED
  BY <1>1, <1>3, <1>4

\* A TERM arrives only where the board waits for its answer.
LEMMA HeardPays ==
  ASSUME TypeOK, PayHolds, Hear, phase # "halted"
  PROVE  /\ phase = "wait" /\ AwaitTerm /\ now = toHost[1].at /\ Head(toHost) = toHost[1] /\ toHost' = << >>
         /\ UNCHANGED <<now, clock, phase, attempts, stale, acked, rx>>
<1>1. toHost # << >> /\ Head(toHost).at <= now /\ toHost' = Tail(toHost) /\ UNCHANGED <<now, clock, board>>
  BY DEF Hear, HostDue
<1>2. phase \in {"send", "wait"}
  BY DEF TypeOK
<1>3. phase = "wait" /\ AwaitTerm
  BY <1>1, <1>2 DEF PayHolds, AwaitNothing, AwaitLine
<1>4. toHost \in Seq(Terms) /\ Len(toHost) = 1 /\ now <= toHost[1].at /\ now \in Nat
  BY <1>3, Numbers DEF AwaitTerm
<1>5. Head(toHost) = toHost[1] /\ Tail(toHost) = << >>
  BY <1>4, OnlyOne
<1>6. toHost[1].at \in Nat
  BY <1>4, Timed
<1> QED
  BY <1>1, <1>3, <1>4, <1>5, <1>6 DEF board

\* What the host sends in time is awaited, or paid for.
LEMMA AnswerPays ==
  ASSUME TypeOK, PayHolds, Hear, phase # "halted", ~cut', acks' <= attempts, acks' \in Nat,
         NEW type \in {"TERMACK", "TERMGET"}, SendLine(type),
         type = "TERMGET" => Paid
  PROVE  PayHolds'
<1>1. /\ phase = "wait" /\ AwaitTerm /\ now = toHost[1].at /\ toHost' = << >>
      /\ UNCHANGED <<now, clock, phase, attempts, stale, acked, rx>>
  BY HeardPays
<1>n. now \in Nat /\ attempts \in Nat /\ faults \in Nat /\ acks \in Nat /\ Delay \in Nat /\ rx.start \in Nat
  BY Numbers
<1>2. /\ fifo = << >> /\ rx.line = << >> /\ now <= rx.start + Delay /\ Len(rx.line) = 0
      /\ rx.total = now - rx.start /\ rx.idle = now - rx.start /\ rx.last = rx.start
  BY <1>1 DEF AwaitTerm
<1>3. Owed
  BY <1>1, <1>n DEF AwaitTerm, Owed, Paid
<1>4. ASSUME NEW text \in Answers, Len(fifo') = Len(text),
             \A i \in 1 .. Len(text) : fifo'[i].byte = text[i] /\ now <= fifo'[i].at /\ fifo'[i].at <= now + Delay,
             \A i \in 1 .. Len(text) : \A j \in 1 .. i : fifo'[j].at <= fifo'[i].at,
             IF text[1] = "TERMACK" THEN Owed' ELSE Paid'
      PROVE  PayHolds'
  <2>1. Len(text) \in 2 .. 3
    BY AnswerLines
  <2>2. \A i \in 1 .. Len(fifo') : fifo'[i].byte = text[Len(rx'.line) + i]
    BY <1>1, <1>2, <1>4, <2>1
  <2>3. \A i \in 1 .. Len(fifo') : now' <= fifo'[i].at /\ fifo'[i].at <= rx'.start + 2 * Delay
    <3> SUFFICES ASSUME NEW i \in 1 .. Len(fifo') PROVE now' <= fifo'[i].at /\ fifo'[i].at <= rx'.start + 2 * Delay
      OBVIOUS
    <3>1. now <= fifo'[i].at /\ fifo'[i].at <= now + Delay /\ fifo'[i].at \in Int
      <4>1. fifo' \in Seq(Wire)
        BY LineSent
      <4>2. fifo'[i].at \in Nat
        BY <4>1, Timed
      <4> QED
        BY <1>4, <4>2
    <3>2. now' = now /\ rx'.start = rx.start /\ now <= rx.start + Delay
      BY <1>1, <1>2
    <3> QED
      BY <1>n, <3>1, <3>2
  <2>4. /\ Len(rx'.line) < Len(text) /\ Len(fifo') = Len(text) - Len(rx'.line)
        /\ \A i \in 1 .. Len(rx'.line) : rx'.line[i] = text[i]
        /\ rx'.total = now' - rx'.start + Len(rx'.line) /\ rx'.idle <= now' - rx'.start /\ rx'.start <= rx'.last
    <3>1. rx' = rx /\ now' = now /\ rx.line = << >> /\ Len(rx.line) = 0 /\ Len(fifo') = Len(text)
      BY <1>1, <1>2, <1>4
    <3>2. Len(rx'.line) < Len(text) /\ Len(fifo') = Len(text) - Len(rx'.line)
      BY <2>1, <3>1
    <3>3. \A i \in 1 .. Len(rx'.line) : rx'.line[i] = text[i]
      BY <3>1
    <3>4. now - rx.start = now - rx.start + 0
      BY <1>n
    <3>5. rx.idle <= now - rx.start /\ rx.start <= rx.last
      BY <1>2, <1>n
    <3> QED
      BY <1>2, <3>1, <3>2, <3>3, <3>4, <3>5
  <2>5. toHost' = << >> /\ acks' <= attempts'
    BY <1>1
  <2>6. AwaitLine(text)'
    BY <1>4, <2>2, <2>3, <2>4, <2>5 DEF AwaitLine
  <2> QED
    BY <1>1, <2>6 DEF PayHolds
<1>5. ASSUME NEW d \in 0 .. Delay, NEW e \in d .. Delay, UNCHANGED faults,
             fifo' = fifo \o <<At(now + d, type), At(now + e, "rest"), At(now + e, "nl")>>
      PROVE  PayHolds'
  <2>1. fifo' = <<At(now + d, type), At(now + e, "rest"), At(now + e, "nl")>>
    BY <1>2, <1>5
  <2>2. <<type, "rest", "nl">> \in Answers
    BY DEF Answers
  <2>3. Owed' /\ (type = "TERMGET" => Paid')
    BY <1>1, <1>3, <1>5 DEF Owed, Paid
  <2>4. Len(fifo') = 3 /\ fifo'[1] = At(now + d, type) /\ fifo'[2] = At(now + e, "rest") /\ fifo'[3] = At(now + e, "nl")
    BY <2>1
  <2>5. \A i \in 1 .. 3 : /\ fifo'[i].byte = <<type, "rest", "nl">>[i]
                          /\ now <= fifo'[i].at /\ fifo'[i].at <= now + Delay
    BY <1>n, <1>5, <2>4 DEF At
  <2>6. \A i \in 1 .. 3 : \A j \in 1 .. i : fifo'[j].at <= fifo'[i].at
    BY <1>n, <1>5, <2>4 DEF At
  <2> QED
    BY <1>4, <2>2, <2>3, <2>4, <2>5, <2>6
<1>6. ASSUME Fault, UNCHANGED fifo PROVE PayHolds'
  <2>1. Paid'
    BY <1>1, <1>3, <1>6, <1>n DEF Fault, Owed, Paid
  <2>2. AwaitNothing'
    BY <1>1, <1>2, <1>6, <2>1 DEF AwaitNothing
  <2> QED
    BY <1>1, <2>2 DEF PayHolds
<1>7. ASSUME Fault, NEW d \in 0 .. Delay, fifo' = fifo \o <<At(now + d, "junk"), At(now + d, "nl")>> PROVE PayHolds'
  <2>1. fifo' = <<At(now + d, "junk"), At(now + d, "nl")>>
    BY <1>2, <1>7
  <2>2. <<"junk", "nl">> \in Answers
    BY DEF Answers
  <2>3. Paid'
    BY <1>1, <1>3, <1>7, <1>n DEF Fault, Owed, Paid
  <2>4. Len(fifo') = 2 /\ fifo'[1] = At(now + d, "junk") /\ fifo'[2] = At(now + d, "nl")
    BY <2>1
  <2>5. \A i \in 1 .. 2 : /\ fifo'[i].byte = <<"junk", "nl">>[i]
                          /\ now <= fifo'[i].at /\ fifo'[i].at <= now + Delay
    BY <1>n, <1>7, <2>4 DEF At
  <2>6. \A i \in 1 .. 2 : \A j \in 1 .. i : fifo'[j].at <= fifo'[i].at
    BY <1>n, <1>7, <2>4 DEF At
  <2> QED
    BY <1>4, <2>2, <2>3, <2>4, <2>5, <2>6
<1> QED
  BY <1>5, <1>6, <1>7 DEF SendLine

\* The host's step is an answer, a lost one or one that was paid for already.
LEMMA HostPays ==
  ASSUME TypeOK, PayHolds, AnswersInTime, ~cut', ~missed', Host
  PROVE  PayHolds'
<1>n. /\ now \in Nat /\ attempts \in Nat /\ faults \in Nat /\ acks \in Nat /\ Delay \in Nat
      /\ attempts <= Attempts /\ Attempts \in Nat /\ MaxReplays \in Nat /\ Attempts <= MaxReplays
  BY Numbers DEF AnswersInTime
<1>1. Hear
  BY DEF Host, on_term, on_broken_line, Unheard
<1>2. CASE phase = "halted"
  <2>1. phase' = phase /\ acked' = acked /\ attempts' = attempts
    BY <1>1 DEF Hear, board
  <2>2. faults' \in Nat /\ faults <= faults'
    <3>1. UNCHANGED faults \/ Fault
      BY DEF Host, on_term, on_broken_line, Unheard, SendLine
    <3> QED
      BY <1>n, <3>1 DEF Fault
  <2> QED
    BY <1>2, <1>n, <2>1, <2>2 DEF PayHolds, Paid
<1>3. CASE phase # "halted" /\ on_term
  <2>1. AwaitTerm /\ Head(toHost) = toHost[1] /\ acks < attempts
    BY <1>1, <1>3, HeardPays DEF AwaitTerm
  <2>2. acks' = acks + 1 /\ SendLine("TERMACK")
    BY <1>3, <1>n, <2>1 DEF on_term
  <2>3. acks' <= attempts /\ acks' \in Nat
    BY <1>n, <2>1, <2>2
  <2> QED
    BY <1>1, <1>3, <2>2, <2>3, AnswerPays
<1>4. CASE phase # "halted" /\ on_broken_line
  <2>1. /\ AwaitTerm /\ Head(toHost) = toHost[1] /\ toHost' = << >>
        /\ phase = "wait" /\ UNCHANGED <<now, phase, attempts, stale, acked, rx>>
    BY <1>1, <1>4, HeardPays
  <2>2. Paid /\ acks < attempts /\ acks' = acks /\ fifo = << >> /\ rx.line = << >>
    BY <1>4, <2>1 DEF AwaitTerm, on_broken_line
  <2>3. CASE SendLine("TERMGET")
    BY <1>1, <1>4, <1>n, <2>2, <2>3, AnswerPays
  <2>4. CASE UNCHANGED <<fifo, faults>>
    <3>1. AwaitNothing'
      BY <1>n, <2>1, <2>2, <2>4 DEF AwaitNothing, Paid
    <3> QED
      BY <2>1, <3>1 DEF PayHolds
  <2> QED
    BY <1>4, <2>3, <2>4 DEF on_broken_line
<1> QED
  BY <1>2, <1>3, <1>4 DEF Host, Unheard

\* What was paid for may end any way it likes.
LEMMA PaidEnds ==
  ASSUME TypeOK, SendInv, Paid, toHost' = << >>, fifo' = << >>, acks' <= attempts,
         UNCHANGED faults, phase = "wait", NEW t, Ignored(t) \/ ResendOrHalt
  PROVE  PayHolds'
<1>1. Paid' /\ attempts' = attempts
  BY DEF Paid, Ignored, ResendOrHalt
<1>2. CASE ResendOrHalt
  <2>1. attempts <= Attempts /\ attempts \in Nat /\ Attempts \in Nat
    BY Numbers
  <2>2. phase' = "send" \/ (phase' = "halted" /\ attempts' = Attempts)
    BY <1>2, <2>1 DEF ResendOrHalt
  <2> QED
    BY <1>1, <2>2 DEF PayHolds
<1>3. CASE phase' = "wait" /\ rx' = Open(t)
  <2>1. rx'.line = << >>
    BY <1>3 DEF Open
  <2>2. AwaitNothing'
    BY <1>1, <2>1 DEF AwaitNothing
  <2> QED
    BY <1>3, <2>2 DEF PayHolds
<1> QED
  BY <1>2, <1>3 DEF Ignored

\* A poll does not end a wait whose answer is on its way.
LEMMA PollPays ==
  ASSUME TypeOK, SendInv, PayHolds, AnswersInTime, clock, Poll
  PROVE  PayHolds'
<1> DEFINE t == now + 1
           over == \/ rx.idle + 1 > Cap \/ rx.total + 1 > LinePolls
                   \/ t - rx.last > Bound \/ t - rx.start > Bound
<1>n. /\ now \in Nat /\ attempts \in Nat /\ faults \in Nat /\ acks \in Nat /\ Delay \in Nat
      /\ Bound \in Nat /\ Cap \in Nat /\ LinePolls \in Nat
      /\ rx.start \in Nat /\ rx.last \in Nat /\ rx.idle \in Nat /\ rx.total \in Nat
      /\ rx.line \in Seq(Bytes \ {"nl"}) /\ Len(rx.line) \in Nat /\ fifo \in Seq(Wire) /\ toHost \in Seq(Terms)
  BY Numbers
<1>r. 2 * Delay <= Bound /\ 2 * Delay <= Cap /\ 2 * Delay + 3 <= LinePolls
  BY Numbers DEF AnswersInTime
<1>1. /\ phase = "wait" /\ ~ByteReady /\ ~HostDue /\ now' = t
      /\ UNCHANGED <<clock, acks, toHost, fifo, faults>>
  BY DEF Poll, host, link
<1>2. \/ ~over /\ rx' = Polled /\ UNCHANGED <<phase, attempts, stale, acked>>
      \/ over /\ rx.line = << >> /\ ResendOrHalt
      \/ over /\ rx.line # << >> /\ Ignored(t)
  <2>1. now_ticks(t) = t
    BY DEF now_ticks
  <2> QED
    BY <2>1 DEF Poll, LineTicks
<1>3. CASE AwaitNothing
  <2>1. /\ toHost' = << >> /\ fifo' = << >> /\ rx.line = << >> /\ acks' <= attempts /\ Paid
    BY <1>1, <1>3 DEF AwaitNothing
  <2>2. CASE ~over /\ rx' = Polled /\ UNCHANGED <<phase, attempts, stale, acked>>
    <3>1. rx'.line = << >>
      BY <2>1, <2>2 DEF Polled
    <3>2. AwaitNothing'
      BY <1>1, <2>1, <2>2, <3>1 DEF AwaitNothing, Paid
    <3> QED
      BY <1>1, <2>2, <3>2 DEF PayHolds
  <2>3. CASE ResendOrHalt
    BY <1>1, <2>1, <2>3, PaidEnds
  <2> QED
    BY <1>2, <2>1, <2>2, <2>3
<1>4. ASSUME ~over, rx' = Polled, UNCHANGED <<phase, attempts, stale, acked>>
      PROVE  /\ rx'.start = rx.start /\ rx'.last = rx.last /\ rx'.idle = rx.idle + 1
             /\ rx'.total = rx.total + 1 /\ rx'.line = rx.line
  BY <1>4 DEF Polled
<1>5. CASE AwaitTerm
  <2>1. /\ Len(toHost) = 1 /\ fifo = << >> /\ rx.line = << >> /\ acks < attempts
        /\ now <= toHost[1].at /\ toHost[1].at <= rx.start + Delay
        /\ rx.total = now - rx.start /\ rx.idle = now - rx.start /\ rx.last = rx.start
    BY <1>5 DEF AwaitTerm
  <2>2. toHost[1].at \in Nat /\ ~(toHost[1].at <= now)
    <3>1. toHost # << >> /\ Head(toHost) = toHost[1]
      BY <1>n, <2>1, OnlyOne
    <3>2. toHost[1].at \in Nat
      BY <1>n, <2>1, Timed
    <3> QED
      BY <1>1, <3>1, <3>2 DEF HostDue
  <2>3. t <= toHost[1].at /\ t - rx.start <= Delay
    BY <1>n, <2>1, <2>2
  <2>4. ~over
    BY <1>n, <1>r, <2>1, <2>3
  <2>5. rx' = Polled /\ UNCHANGED <<phase, attempts, stale, acked>>
    BY <1>2, <2>4
  <2>6. /\ rx'.start = rx.start /\ rx'.last = rx.last /\ rx'.idle = rx.idle + 1
        /\ rx'.total = rx.total + 1 /\ rx'.line = rx.line
    BY <1>4, <2>4, <2>5
  <2>7. rx'.total = now' - rx'.start /\ rx'.idle = now' - rx'.start /\ rx'.last = rx'.start
    BY <1>1, <1>n, <2>1, <2>6
  <2>8. IF toHost'[1].whole THEN Owed' ELSE Paid'
    BY <1>1, <1>5, <2>5 DEF AwaitTerm, Owed, Paid
  <2>9. now' <= toHost'[1].at /\ toHost'[1].at <= rx'.start + Delay /\ acks' < attempts'
    BY <1>1, <2>1, <2>3, <2>5, <2>6
  <2>10. AwaitTerm'
    BY <1>1, <2>1, <2>6, <2>7, <2>8, <2>9 DEF AwaitTerm
  <2> QED
    BY <1>1, <2>5, <2>10 DEF PayHolds
<1>6. ASSUME NEW text \in Answers, AwaitLine(text) PROVE PayHolds'
  <2>1. /\ toHost = << >> /\ acks <= attempts
        /\ Len(rx.line) < Len(text) /\ Len(fifo) = Len(text) - Len(rx.line)
        /\ \A i \in 1 .. Len(rx.line) : rx.line[i] = text[i]
        /\ \A i \in 1 .. Len(fifo) : fifo[i].byte = text[Len(rx.line) + i]
        /\ \A i \in 1 .. Len(fifo) : now <= fifo[i].at /\ fifo[i].at <= rx.start + 2 * Delay
        /\ \A i \in 1 .. Len(fifo) : \A j \in 1 .. i : fifo[j].at <= fifo[i].at
        /\ rx.total = now - rx.start + Len(rx.line) /\ rx.idle <= now - rx.start /\ rx.start <= rx.last
        /\ IF text[1] = "TERMACK" THEN Owed ELSE Paid
    BY <1>6 DEF AwaitLine
  <2>2. Len(text) \in 2 .. 3
    BY AnswerLines
  <2>3. /\ fifo # << >> /\ Head(fifo) = fifo[1] /\ 1 \in 1 .. Len(fifo)
    BY <1>n, <2>1, <2>2
  <2>4. fifo[1].at \in Nat /\ ~(fifo[1].at <= now)
    BY <1>1, <1>n, <2>3, Timed DEF ByteReady
  <2>5. t <= fifo[1].at /\ fifo[1].at <= rx.start + 2 * Delay
    BY <1>n, <2>1, <2>3, <2>4
  <2>6. t - rx.start <= 2 * Delay
    BY <1>n, <2>4, <2>5
  <2>a. Len(rx.line) \in 0 .. 2
    <3>1. Len(rx.line) < Len(text) /\ Len(rx.line) \in Nat
      BY <1>n, <2>1
    <3>2. \A m \in Nat : \A n \in 2 .. 3 : m < n => m \in 0 .. 2
      OBVIOUS
    <3> QED
      BY <2>2, <3>1, <3>2
  <2>n. /\ now \in Nat /\ Delay \in Nat /\ Bound \in Nat /\ Cap \in Nat /\ LinePolls \in Nat
        /\ rx.start \in Nat /\ rx.last \in Nat /\ rx.idle \in Nat /\ rx.total \in Nat
    BY <1>n
  <2>b. /\ rx.total = now - rx.start + Len(rx.line) /\ rx.idle <= now - rx.start /\ rx.start <= rx.last
    BY <2>1
  <2>7. ~over
    <3>2. rx.idle <= now - rx.start /\ rx.start <= rx.last
      BY <2>b
    <3>1. \A l \in 0 .. 2 : rx.total = now - rx.start + l => ~over
      BY <1>r, <3>2, <2>6, <2>n
    <3> QED
      BY <2>a, <2>b, <3>1
  <2>8. rx' = Polled /\ UNCHANGED <<phase, attempts, stale, acked>>
    BY <1>2, <2>7
  <2>9. /\ rx'.start = rx.start /\ rx'.last = rx.last /\ rx'.idle = rx.idle + 1
        /\ rx'.total = rx.total + 1 /\ rx'.line = rx.line
    BY <1>4, <2>7, <2>8
  <2>10. rx'.total = now' - rx'.start + Len(rx'.line) /\ rx'.idle <= now' - rx'.start /\ rx'.start <= rx'.last
    <3>1. rx'.total = rx.total + 1 /\ rx'.idle = rx.idle + 1 /\ Len(rx'.line) = Len(rx.line) /\ rx'.start = rx.start /\ rx'.last = rx.last
      BY <2>9
    <3>2. \A k \in 0 .. 2 : rx.total = now - rx.start + k => rx.total + 1 = t - rx.start + k
      BY <2>n
    <3>3. rx.idle <= now - rx.start => rx.idle + 1 <= t - rx.start
      BY <2>n
    <3> QED
      BY <1>1, <2>a, <2>b, <3>1, <3>2, <3>3
  <2>11. \A i \in 1 .. Len(fifo') : now' <= fifo'[i].at /\ fifo'[i].at <= rx'.start + 2 * Delay
    <3> SUFFICES ASSUME NEW i \in 1 .. Len(fifo) PROVE t <= fifo[i].at /\ fifo[i].at <= rx.start + 2 * Delay
      BY <1>1, <2>9
    <3>o. \A m \in 1 .. Len(fifo) : \A j \in 1 .. m : fifo[j].at <= fifo[m].at
      BY <1>6 DEF AwaitLine
    <3>p. 1 \in 1 .. i
      OBVIOUS
    <3>1. fifo[1].at <= fifo[i].at /\ fifo[i].at <= rx.start + 2 * Delay
      BY <2>1, <3>o, <3>p
    <3>2. fifo[i].at \in Nat
      BY <1>n, Timed
    <3>3. \A x, y \in Nat : t <= x /\ x <= y => t <= y
      BY <2>n
    <3> QED
      BY <2>4, <2>5, <3>1, <3>2, <3>3
  <2>12. /\ toHost' = << >> /\ acks' <= attempts'
         /\ IF text[1] = "TERMACK" THEN Owed' ELSE Paid'
    BY <1>1, <2>1, <2>8 DEF Owed, Paid
  <2>13. AwaitLine(text)'
    BY <1>1, <2>1, <2>9, <2>10, <2>11, <2>12 DEF AwaitLine
  <2> QED
    BY <1>1, <2>8, <2>13 DEF PayHolds
<1> QED
  BY <1>1, <1>3, <1>5, <1>6 DEF PayHolds

\* What is left of a stretch of wire, byte by byte.
LEMMA Rest ==
  ASSUME NEW S, NEW s \in Seq(S), s # << >>
  PROVE  /\ Tail(s) \in Seq(S) /\ Len(s) \in Nat \ {0} /\ Len(Tail(s)) = Len(s) - 1 /\ Head(s) = s[1]
         /\ \A i \in 1 .. Len(Tail(s)) : Tail(s)[i] = s[i + 1] /\ i + 1 \in 1 .. Len(s)
<1>1. Tail(s) \in Seq(S) /\ Len(s) \in Nat \ {0} /\ Len(Tail(s)) = Len(s) - 1 /\ Head(s) = s[1]
  OBVIOUS
<1>2. \A i \in 1 .. Len(Tail(s)) : Tail(s)[i] = s[i + 1]
  OBVIOUS
<1>3. \A n \in Nat \ {0} : \A i \in 1 .. (n - 1) : i + 1 \in 1 .. n
  OBVIOUS
<1> QED
  BY <1>1, <1>2, <1>3

\* What is gained by one more byte.
LEMMA Grown ==
  ASSUME NEW S, NEW s \in Seq(S), NEW b \in S
  PROVE  /\ Len(s) \in Nat /\ Len(Append(s, b)) = Len(s) + 1
         /\ \A i \in 1 .. (Len(s) + 1) : Append(s, b)[i] = IF i = Len(s) + 1 THEN b ELSE s[i]
OBVIOUS

\* A byte in time is read; the newline of an answer ends the wait, and that of
\* the acknowledgement the transaction.
LEMMA BytePays ==
  ASSUME TypeOK, SendInv, PayHolds, AnswersInTime, clock, Byte
  PROVE  PayHolds'
<1> DEFINE l == Len(rx.line)
           b == Head(fifo).byte
<1>n. /\ now \in Nat /\ Delay \in Nat /\ Bound \in Nat /\ LinePolls \in Nat /\ LineMax \in Nat /\ LineMax > 2
      /\ rx.start \in Nat /\ rx.total \in Nat /\ l \in Nat
  BY Numbers
<1>s. rx.line \in Seq(Bytes \ {"nl"}) /\ fifo \in Seq(Wire)
  BY Numbers
<1>r. 2 * Delay <= Bound /\ 2 * Delay + 3 <= LinePolls
  BY Numbers DEF AnswersInTime
<1>1. phase = "wait" /\ fifo # << >> /\ Head(fifo).at <= now /\ UNCHANGED <<now, clock, acks, toHost, faults>>
  BY DEF Byte, ByteReady, host
<1>2. PICK text \in Answers : AwaitLine(text)
  BY <1>1 DEF PayHolds, AwaitTerm, AwaitNothing
<1>3. /\ Len(text) \in 2 .. 3 /\ DOMAIN text = 1 .. Len(text)
      /\ \A i \in 1 .. Len(text) : text[i] \in Bytes /\ (text[i] = "nl" <=> i = Len(text))
      /\ text[1] = "TERMACK" => Len(text) = 3 /\ text[2] = "rest"
  BY AnswerLines
<1>4. /\ Tail(fifo) \in Seq(Wire) /\ Len(fifo) \in Nat \ {0} /\ Len(Tail(fifo)) = Len(fifo) - 1 /\ Head(fifo) = fifo[1]
      /\ \A i \in 1 .. Len(Tail(fifo)) : Tail(fifo)[i] = fifo[i + 1] /\ i + 1 \in 1 .. Len(fifo)
  BY <1>1, <1>s, Rest
<1>5. toHost = << >> /\ acks <= attempts /\ l < Len(text) /\ Len(fifo) = Len(text) - l
  BY <1>2 DEF AwaitLine
<1>6. rx.total = now - rx.start + l /\ rx.start <= now
  <2>1. rx.total = now - rx.start + l /\ now <= fifo[1].at /\ rx.idle <= now - rx.start /\ rx.idle \in Nat
    BY <1>2, <1>4, Numbers DEF AwaitLine
  <2> QED
    BY <1>n, <2>1
<1>7. IF text[1] = "TERMACK" THEN Owed ELSE Paid
  BY <1>2 DEF AwaitLine
<1>8. \A i \in 1 .. Len(fifo) : fifo[i].byte = text[l + i] /\ now <= fifo[i].at /\ fifo[i].at <= rx.start + 2 * Delay
  BY <1>2 DEF AwaitLine
<1>9. \A i \in 1 .. l : rx.line[i] = text[i]
  BY <1>2 DEF AwaitLine
<1>10. b = text[l + 1] /\ b \in Bytes /\ (b = "nl" <=> l + 1 = Len(text)) /\ l \in 0 .. 2
  <2>1. \A n \in 2 .. 3 : l < n => l + 1 \in 1 .. n /\ l \in 0 .. 2
    <3> HIDE DEF l
    <3> QED
      BY <1>n
  <2>2. l + 1 \in 1 .. Len(text) /\ l \in 0 .. 2
    BY <1>3, <1>5, <2>1
  <2>3. b = text[l + 1]
    BY <1>4, <1>8
  <2> HIDE DEF b, l
  <2> QED
    BY <1>3, <2>2, <2>3
<1>11. ~TooLate
  <2>1. fifo[1].at <= now /\ fifo[1].at <= rx.start + 2 * Delay /\ now <= fifo[1].at /\ fifo[1].at \in Nat
    BY <1>1, <1>4, <1>8, <1>s, Timed
  <2>2. now <= rx.start + 2 * Delay
    BY <1>n, <2>1
  <2>3. now_ticks(now) = now
    BY DEF now_ticks
  <2> HIDE DEF l
  <2>4. ~(rx.total + 1 > LinePolls) /\ ~(now - rx.start > Bound)
    <3>1. l \in 0 .. 2
      BY <1>10
    <3> QED
      BY <1>n, <1>r, <1>6, <2>2, <3>1
  <2> QED
    BY <2>3, <2>4 DEF TooLate, LineTicks
<1>12. /\ fifo' = Tail(fifo)
       /\ \/ b = "nl" /\ Line(rx.line)
          \/ b # "nl" /\ l + 1 >= LineMax /\ Ignored(now)
          \/ b # "nl" /\ rx' = Taken(b) /\ UNCHANGED <<phase, attempts, stale, acked>>
  BY <1>11 DEF Byte
<1>13. CASE b = "nl" /\ Line(rx.line)
  <2>1. Len(fifo) = 1 /\ fifo' = << >>
    <3>1. l + 1 = Len(text)
      BY <1>10, <1>13
    <3> HIDE DEF l
    <3>2. Len(fifo) = 1
      BY <1>n, <1>5, <3>1
    <3> QED
      BY <1>s, <1>12, <3>2, OnlyOne
  <2>2. CASE text[1] = "TERMACK"
    <3>1. l = 2 /\ rx.line[1] = "TERMACK" /\ rx.line[2] = "rest"
      <4>1. l + 1 = 3
        BY <1>3, <1>10, <1>13, <2>2
      <4>2. l = 2
        <5> HIDE DEF l
        <5> QED
          BY <1>n, <4>1
      <4> QED
        BY <1>3, <1>9, <2>2, <4>2
    <3>2. rx.line = <<"TERMACK", "rest">>
      BY <1>s, <3>1
    <3> QED
      BY <3>2, <1>13 DEF Line, PayHolds
  <2>3. CASE text[1] # "TERMACK"
    <3>1. Paid /\ acks' <= attempts
      BY <1>1, <1>5, <1>7, <2>3
    <3>2. CASE Ignored(now) \/ ResendOrHalt
      BY <1>1, <1>5, <2>1, <3>1, <3>2, PaidEnds
    <3>3. CASE phase' = "halted" /\ acked'
      BY <3>3 DEF PayHolds
    <3> QED
      BY <1>13, <3>2, <3>3 DEF Line
  <2> QED
    BY <2>2, <2>3
<1>14. CASE b # "nl"
  <2>1. l + 1 < Len(text) /\ l + 1 <= 2
    <3>1. l + 1 # Len(text)
      BY <1>10, <1>14
    <3>2. \A n \in 2 .. 3 : l < n /\ l + 1 # n => l + 1 < n /\ l + 1 <= 2
      BY <1>n
    <3> QED
      BY <1>3, <1>5, <3>1, <3>2
  <2>2. rx' = Taken(b) /\ UNCHANGED <<phase, attempts, stale, acked>>
    <3>1. ~(l + 1 >= LineMax)
      <4> HIDE DEF l
      <4> QED
        BY <1>n, <2>1
    <3> QED
      BY <1>12, <1>14, <3>1
  <2>3. /\ rx'.start = rx.start /\ rx'.last = now /\ rx'.idle = 0 /\ rx'.total = rx.total + 1
        /\ rx'.line = Append(rx.line, b)
    BY <2>2 DEF Taken, now_ticks
  <2>4. /\ Len(rx'.line) = l + 1
        /\ \A i \in 1 .. (l + 1) : rx'.line[i] = IF i = l + 1 THEN b ELSE rx.line[i]
    BY <1>s, <1>10, <1>14, <2>3, Grown
  <2>5. \A i \in 1 .. Len(rx'.line) : rx'.line[i] = text[i]
    <3> SUFFICES ASSUME NEW i \in 1 .. (l + 1) PROVE rx'.line[i] = text[i]
      BY <2>4
    <3>1. i = l + 1 \/ i \in 1 .. l
      BY <1>n
    <3> QED
      BY <1>9, <1>10, <2>4, <3>1
  <2>6. Len(fifo') = Len(text) - Len(rx'.line) /\ Len(rx'.line) < Len(text)
    <3>1. Len(fifo') = Len(fifo) - 1
      BY <1>4, <1>12
    <3>2. \A n \in 2 .. 3 : \A m \in Nat : m = n - l => m - 1 = n - (l + 1)
      <4> HIDE DEF l
      <4> QED
        BY <1>n
    <3>3. Len(text) \in 2 .. 3 /\ Len(fifo) \in Nat /\ Len(fifo) = Len(text) - l
      BY <1>3, <1>4, <1>5
    <3>4. Len(fifo) - 1 = Len(text) - (l + 1)
      BY <3>2, <3>3
    <3>5. Len(rx'.line) = l + 1
      BY <2>4
    <3> QED
      BY <2>1, <3>1, <3>4, <3>5
  <2>7. ASSUME NEW i \in 1 .. Len(fifo')
        PROVE  /\ fifo'[i].byte = text[Len(rx'.line) + i] /\ now <= fifo'[i].at /\ fifo'[i].at <= rx'.start + 2 * Delay
               /\ \A j \in 1 .. i : fifo'[j].at <= fifo'[i].at
    <3>1. fifo'[i] = fifo[i + 1] /\ i + 1 \in 1 .. Len(fifo)
      BY <1>4, <1>12
    <3>2. text[l + (i + 1)] = text[Len(rx'.line) + i]
      <4>1. l + (i + 1) = l + 1 + i
        <5>1. i \in Int
          OBVIOUS
        <5> HIDE DEF l
        <5> QED
          BY <1>n, <5>1
      <4> QED
        BY <2>4, <4>1
    <3>3. ASSUME NEW j \in 1 .. i PROVE fifo'[j].at <= fifo'[i].at
      <4>1. j \in 1 .. Len(fifo') /\ j + 1 \in 1 .. (i + 1)
        <5>1. Len(fifo') \in Nat
          BY <1>4, <1>12
        <5>2. \A n \in Nat : i \in 1 .. n => j \in 1 .. n /\ j + 1 \in 1 .. (i + 1)
          OBVIOUS
        <5> QED
          BY <5>1, <5>2
      <4>2. fifo'[j] = fifo[j + 1]
        BY <1>4, <1>12, <4>1
      <4> QED
        BY <1>2, <3>1, <4>1, <4>2 DEF AwaitLine
    <3> QED
      BY <1>8, <2>3, <3>1, <3>2, <3>3
  <2>8. rx'.total = now' - rx'.start + Len(rx'.line) /\ rx'.idle <= now' - rx'.start /\ rx'.start <= rx'.last
    <3>1. rx'.total = rx.total + 1 /\ rx'.idle = 0 /\ rx'.start = rx.start /\ rx'.last = now /\ now' = now /\ Len(rx'.line) = l + 1
      BY <1>1, <2>3, <2>4
    <3> HIDE DEF l
    <3> QED
      BY <1>n, <1>6, <3>1
  <2>9. /\ toHost' = << >> /\ acks' <= attempts' /\ now' = now
        /\ IF text[1] = "TERMACK" THEN Owed' ELSE Paid'
    BY <1>1, <1>5, <1>7, <2>2 DEF Owed, Paid
  <2>10. AwaitLine(text)'
    BY <2>5, <2>6, <2>7, <2>8, <2>9 DEF AwaitLine
  <2> QED
    BY <1>1, <2>2, <2>10 DEF PayHolds
<1> QED
  BY <1>12, <1>13, <1>14

\* Every step that costs an answer is paid for by a fault.
LEMMA StepPays ==
  ASSUME AnswersInTime, IInv, TimeInv', PayInv, [Next]_vars
  PROVE  PayInv'
<1>1. SUFFICES ASSUME clock', ~cut' PROVE PayHolds'
  BY DEF PayInv
<1>2. CASE UNCHANGED vars
  <2>1. UNCHANGED <<now, clock, phase, attempts, stale, acked, rx, until, acks, gets, missed, toHost, fifo, faults, cut>>
    BY <1>2 DEF vars, board, host, link
  <2>2. PayHolds
    BY <1>1, <2>1 DEF PayInv
  <2> QED
    BY <2>1, <2>2 DEF PayHolds, AwaitTerm, AwaitNothing, AwaitLine, Owed, Paid
<1>3. CASE Board
  <2>1. clock /\ ~cut
    <3>1. CASE Transmit
      BY <1>1, <3>1 DEF Transmit
    <3>2. CASE Poll
      BY <1>1, <3>2 DEF Poll, link
    <3>3. CASE Byte
      BY <1>1, <3>3 DEF Byte
    <3> QED
      BY <1>3, <3>1, <3>2, <3>3 DEF Board
  <2>2. PayHolds /\ TypeOK /\ SendInv
    BY <2>1 DEF PayInv, IInv
  <2> QED
    BY <1>3, <2>1, <2>2, TransmitPays, PollPays, BytePays DEF Board
<1>4. CASE Host
  <2>1. clock /\ Hear
    BY <1>1, <1>4 DEF Host, on_term, on_broken_line, Unheard, Hear
  <2>2. ~cut
    BY <1>1, <1>4 DEF Host, on_term, on_broken_line, Unheard, SendLine
  <2>3. ~missed'
    BY <1>1 DEF TimeInv
  <2>4. PayHolds /\ TypeOK
    BY <2>1, <2>2 DEF PayInv, IInv
  <2> QED
    BY <1>1, <1>4, <2>3, <2>4, HostPays
<1>5. CASE Noise
  BY <1>1, <1>5 DEF Noise
<1>6. CASE Meanwhile
  <2>1. /\ phase = "halted" /\ phase' = phase /\ clock /\ ~cut
        /\ UNCHANGED <<acked, attempts, faults>>
    BY <1>1, <1>6 DEF Meanwhile, board, link
  <2>2. PayHolds
    BY <2>1 DEF PayInv
  <2> QED
    BY <2>1, <2>2 DEF PayHolds, Paid
<1> QED
  BY <1>2, <1>3, <1>4, <1>5, <1>6 DEF Next

\* Fewer faults than transmissions leave the board with its acknowledgement,
\* for any number of attempts, any limits and any delay that the bounds of the
\* board have room for (p3_tx_run, TermHost).
THEOREM FewFaultsAckedHolds == AnswersInTime => (Spec => []FewFaultsAcked)
<1> SUFFICES ASSUME AnswersInTime PROVE Spec => []FewFaultsAcked
  OBVIOUS
<1>1. Init => PayInv
  BY LingerAssumption DEF LingerAssumption, Init, PayInv, PayHolds, Paid
<1>2. IInv /\ IInv' /\ PayInv /\ [Next]_vars => PayInv'
  BY StepPays DEF IInv
<1>3. IInv /\ PayInv => FewFaultsAcked
  <2> SUFFICES ASSUME IInv, PayInv, phase = "halted", clock, ~cut, faults < Attempts PROVE acked
    BY DEF FewFaultsAcked
  <2>1. acked \/ (attempts = Attempts /\ attempts <= faults)
    BY DEF PayInv, PayHolds, Paid
  <2>2. attempts \in Nat /\ faults \in Nat
    BY Numbers DEF IInv
  <2> QED
    BY <2>1, <2>2
<1> QED
  BY <1>1, <1>2, <1>3, Inductive, PTL DEF Spec

=============================================================================
