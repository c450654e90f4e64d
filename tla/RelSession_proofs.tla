-------------------------- MODULE RelSession_proofs --------------------------
(***************************************************************************)
(* Proofs about module RelSession: for any number of candidates, attempts, *)
(* re-requests and faults, the records of the host and of the board agree  *)
(* and the TERM tells the truth about them.                                *)
(*                                                                         *)
(* The inductive invariant says what every line in flight is true of.  A   *)
(* line built once is repeated and delayed, so what it says must stay true *)
(* for as long as it can arrive: a SIGNREQ or a REC never names a seq the  *)
(* board has not reached, a REC of the current seq carries the current     *)
(* outcome, an acknowledgement never names a record the host does not have.*)
(*                                                                         *)
(* The second part is about the order and the number of the lines: on a    *)
(* FIFO the lines of one seq come before those of the next, so the host    *)
(* ends a session over the order of its frames in one case only, and what  *)
(* the link repeats of one record is paid from the faults, so the strict   *)
(* rule of the sign wait never meets more late answers than its limit.     *)
(***************************************************************************)
EXTENDS RelSession, FiniteSetTheorems, TLAPS

Bodies == Outcomes \cup Causes \cup {"-"}
ToHost == [type : BoardTypes, seq : Nat, body : Bodies, form : Forms]
ToBoard == [type : HostTypes, seq : Nat, form : {"ok", "broken"}]
Plain == {"SCORED", "REFUSED_BY_GATE"}

BooksTyped ==
  /\ stage \in Stages
  /\ seq \in Nat
  /\ outcome \in Outcomes \cup {"-"}
  /\ confirmed \in Seq(Outcomes)
  /\ why \in Causes \cup {"-"}
  /\ notary \in Seq({"SIGNOK", "SIGNREF"})
  /\ records \in Seq(Outcomes)

LinesTyped ==
  /\ b2h \in Seq(ToHost)
  /\ h2b \in Seq(ToBoard)

TypeOK == BooksTyped /\ LinesTyped

Lines(q) == {q[i] : i \in DOMAIN q}

\* The record of seq k is what the board made of it.
Told(k, o) ==
  /\ k = seq => o = outcome
  /\ k <= Len(confirmed) => o = confirmed[k]

LineIsTrue(m) ==
  /\ m.type = "SIGNREQ" => m.seq \in 1 .. seq
  /\ m.type = "REC" => m.seq \in 1 .. seq /\ m.body \in Outcomes /\ Told(m.seq, m.body)
  /\ m.type = "TERM" => m.body = why /\ why # "-"

ReplyIsTrue(m) ==
  /\ m.type = "RECACK" => m.seq <= recorded
  /\ m.type \in {"SIGNOK", "SIGNREF"} => m.seq \in 1 .. signed /\ notary[m.seq] = m.type

InFlight ==
  /\ \A m \in Lines(b2h) : LineIsTrue(m)
  /\ \A m \in Lines(h2b) : ReplyIsTrue(m)

\* Where the application is, its counters and its outcome go together.
StageFits ==
  /\ seq <= NCand
  /\ stage = "ident" => seq = 0
  /\ stage \in {"sign", "work", "rec"} => seq = Len(confirmed) + 1
  /\ stage \in {"sign", "work"} => outcome = "-"
  /\ stage = "rec" => outcome \in Outcomes
  /\ stage = "work" => signed = seq /\ notary[seq] = "SIGNOK"
  /\ stage = "close" => seq = NCand /\ Len(confirmed) = NCand /\ outcome \in Plain
  /\ stage \in {"ident", "sign", "work", "rec", "close"} => why = "-"
  /\ stage \in {"term", "halted"} => why # "-"

OutcomeFits ==
  /\ outcome \in {"SCORED", "STOP_DEVICE"} => seq >= 1 /\ signed = seq /\ notary[seq] = "SIGNOK"
  /\ outcome = "REFUSED_BY_GATE" => seq >= 1 /\ signed = seq /\ notary[seq] = "SIGNREF"
  /\ outcome \in {"STOP_SIGN"} => seq >= 1
  /\ \A i \in DOMAIN records : Told(i, records[i])
  /\ \A i \in DOMAIN confirmed : i < seq => confirmed[i] \in Plain
  /\ seq >= 1 /\ Len(confirmed) = seq => outcome = confirmed[seq]

WhyFits ==
  /\ why = "COMPLETED" => seq = NCand /\ Len(confirmed) = NCand /\ outcome \in Plain
  /\ why \in {"STOP_IDENT", "IDENT_REFUSED"} => seq = 0
  /\ why = "STOP_REC" => Len(confirmed) = seq - 1
  /\ end \in Causes => end = why
  /\ end = "COMPLETED" => closing

Books == BooksTyped /\ InOrder /\ StageFits /\ OutcomeFits /\ RecordMatchesNotary /\ WhyFits
IInv == Books /\ LinesTyped /\ InFlight

\* What is true of a line before a step is true of it afterwards.
LinesStayTrue ==
  /\ \A m \in ToHost : LineIsTrue(m) => LineIsTrue(m)'
  /\ \A m \in ToBoard : ReplyIsTrue(m) => ReplyIsTrue(m)'

HostBooks == <<notary, records, closing, end>>
Control == <<stage, seq, outcome, confirmed, why>>

-----------------------------------------------------------------------------
(* Sequences of lines.                                                      *)

\* The lines of a queue after a line is added to it.
LEMMA LinesAppend ==
  ASSUME NEW T, NEW q \in Seq(T), NEW m \in T
  PROVE /\ Append(q, m) \in Seq(T)
        /\ Lines(Append(q, m)) = Lines(q) \cup {m}
<1>1. Append(q, m) \in Seq(T)
  OBVIOUS
<1>2. DOMAIN Append(q, m) = 1 .. Len(q) + 1 /\ DOMAIN q = 1 .. Len(q) /\ Len(q) \in Nat
  OBVIOUS
<1>3. \A i \in 1 .. Len(q) : Append(q, m)[i] = q[i]
  OBVIOUS
<1>4. Append(q, m)[Len(q) + 1] = m
  OBVIOUS
<1>5. ASSUME NEW x PROVE x \in Lines(Append(q, m)) <=> x \in Lines(q) \cup {m}
  BY <1>2, <1>3, <1>4 DEF Lines
<1>. QED BY <1>1, <1>5

\* The lines of a queue after its head is taken.
LEMMA LinesTail ==
  ASSUME NEW T, NEW q \in Seq(T), q # << >>
  PROVE /\ Tail(q) \in Seq(T)
        /\ Lines(Tail(q)) \subseteq Lines(q)
        /\ Head(q) \in Lines(q) /\ Head(q) \in T
<1>1. Len(q) \in Nat /\ Len(q) >= 1 /\ DOMAIN q = 1 .. Len(q)
  OBVIOUS
<1>2. Tail(q) \in Seq(T) /\ DOMAIN Tail(q) = 1 .. Len(q) - 1
  OBVIOUS
<1>3. \A i \in 1 .. Len(q) - 1 : Tail(q)[i] = q[i + 1]
  OBVIOUS
<1>4. Head(q) = q[1] /\ q[1] \in T
  BY <1>1
<1>. QED BY <1>1, <1>2, <1>3, <1>4 DEF Lines

\* The lines of a queue after a flush.
LEMMA LinesFlush ==
  ASSUME NEW T, NEW q \in Seq(T), NEW n \in 0 .. Len(q)
  PROVE /\ SubSeq(q, n + 1, Len(q)) \in Seq(T)
        /\ Lines(SubSeq(q, n + 1, Len(q))) \subseteq Lines(q)
<1>1. Len(q) \in Nat /\ DOMAIN q = 1 .. Len(q)
  OBVIOUS
<1>2. \A i \in n + 1 .. Len(q) : q[i] \in T
  BY <1>1
<1>3. SubSeq(q, n + 1, Len(q)) \in Seq(T)
  BY <1>1, <1>2
<1>4. DOMAIN SubSeq(q, n + 1, Len(q)) = 1 .. Len(q) - n
  BY <1>1
<1>5. \A i \in 1 .. Len(q) - n : SubSeq(q, n + 1, Len(q))[i] = q[n + i]
  BY <1>1
<1>. QED BY <1>1, <1>3, <1>4, <1>5 DEF Lines

\* What one transmission to the host leaves in flight: lines that say what was
\* already in flight, or what the line sent says.
LEMMA SentToHost ==
  ASSUME LinesTyped, NEW m \in ToHost,
         SendToHost(m) \/ b2h' = Append(b2h, [m EXCEPT !.form = "crc"])
  PROVE /\ b2h' \in Seq(ToHost)
        /\ \A x \in Lines(b2h') :
             x \in Lines(b2h) \/ (x.type = m.type /\ x.seq = m.seq /\ x.body = m.body)
<1>. DEFINE n(f) == [m EXCEPT !.form = f]
<1>1. \A f \in BadForms : n(f) \in ToHost /\ n(f).type = m.type /\ n(f).seq = m.seq /\ n(f).body = m.body
  BY DEF ToHost, Forms
<1>2. b2h \in Seq(ToHost) /\ "crc" \in BadForms
  BY DEF LinesTyped, BadForms, CrcForms
<1>3. \/ b2h' = b2h
      \/ b2h' = Append(b2h, m)
      \/ \E f \in BadForms : b2h' = Append(b2h, n(f))
      \/ b2h' = Append(Append(b2h, m), m)
  BY <1>2 DEF SendToHost
<1>. HIDE DEF n
<1>4. ASSUME NEW l \in ToHost
      PROVE Append(b2h, l) \in Seq(ToHost) /\ Lines(Append(b2h, l)) = Lines(b2h) \cup {l}
  BY <1>2, LinesAppend
<1>5. Append(Append(b2h, m), m) \in Seq(ToHost) /\ Lines(Append(Append(b2h, m), m)) = Lines(b2h) \cup {m}
  <2>1. Append(b2h, m) \in Seq(ToHost) /\ Lines(Append(b2h, m)) = Lines(b2h) \cup {m}
    BY <1>4
  <2>. DEFINE q == Append(b2h, m)
  <2>2. q \in Seq(ToHost) /\ Lines(q) = Lines(b2h) \cup {m}
    BY <2>1
  <2>. HIDE DEF q
  <2>3. Append(q, m) \in Seq(ToHost) /\ Lines(Append(q, m)) = Lines(q) \cup {m}
    BY <2>2, LinesAppend
  <2>4. Append(q, m) \in Seq(ToHost) /\ Lines(Append(q, m)) = Lines(b2h) \cup {m}
    BY <2>2, <2>3
  <2>. QED BY <2>4 DEF q
<1>6. CASE b2h' = b2h
  BY <1>2, <1>6
<1>7. CASE b2h' = Append(b2h, m)
  BY <1>4, <1>7
<1>8. CASE \E f \in BadForms : b2h' = Append(b2h, n(f))
  BY <1>1, <1>4, <1>8
<1>9. CASE b2h' = Append(Append(b2h, m), m)
  BY <1>5, <1>9
<1>. QED BY <1>3, <1>6, <1>7, <1>8, <1>9

\* The same of one transmission to the board.
LEMMA SentToBoard ==
  ASSUME LinesTyped, NEW m \in ToBoard, SendToBoard(m) \/ h2b' = h2b
  PROVE /\ h2b' \in Seq(ToBoard)
        /\ \A x \in Lines(h2b') : x \in Lines(h2b) \/ (x.type = m.type /\ x.seq = m.seq)
<1>. DEFINE n == [m EXCEPT !.form = "broken"]
<1>1. n \in ToBoard /\ n.type = m.type /\ n.seq = m.seq
  BY DEF ToBoard
<1>2. h2b \in Seq(ToBoard)
  BY DEF LinesTyped
<1>3. h2b' = h2b \/ h2b' = Append(h2b, m) \/ h2b' = Append(h2b, n) \/ h2b' = Append(Append(h2b, m), m)
  BY DEF SendToBoard
<1>. HIDE DEF n
<1>4. ASSUME NEW l \in ToBoard
      PROVE Append(h2b, l) \in Seq(ToBoard) /\ Lines(Append(h2b, l)) = Lines(h2b) \cup {l}
  BY <1>2, LinesAppend
<1>5. Append(Append(h2b, m), m) \in Seq(ToBoard) /\ Lines(Append(Append(h2b, m), m)) = Lines(h2b) \cup {m}
  <2>1. Append(h2b, m) \in Seq(ToBoard) /\ Lines(Append(h2b, m)) = Lines(h2b) \cup {m}
    BY <1>4
  <2>. DEFINE q == Append(h2b, m)
  <2>2. q \in Seq(ToBoard) /\ Lines(q) = Lines(h2b) \cup {m}
    BY <2>1
  <2>. HIDE DEF q
  <2>3. Append(q, m) \in Seq(ToBoard) /\ Lines(Append(q, m)) = Lines(q) \cup {m}
    BY <2>2, LinesAppend
  <2>4. Append(q, m) \in Seq(ToBoard) /\ Lines(Append(q, m)) = Lines(h2b) \cup {m}
    BY <2>2, <2>3
  <2>. QED BY <2>4 DEF q
<1>6. CASE h2b' = h2b
  BY <1>2, <1>6
<1>7. CASE h2b' = Append(h2b, m)
  BY <1>4, <1>7
<1>8. CASE h2b' = Append(h2b, n)
  BY <1>1, <1>4, <1>8
<1>9. CASE h2b' = Append(Append(h2b, m), m)
  BY <1>5, <1>9
<1>. QED BY <1>3, <1>6, <1>7, <1>8, <1>9

-----------------------------------------------------------------------------
(* The board's control.                                                     *)

\* The control stays where it is.
LEMMA StayKeeps ==
  ASSUME Books, UNCHANGED Control, UNCHANGED HostBooks
  PROVE Books' /\ LinesStayTrue
<1>1. UNCHANGED <<stage, seq, outcome, confirmed, why, notary, records, closing, end>>
  BY DEF Control, HostBooks
<1>2. Books'
  BY <1>1 DEF Books, BooksTyped, InOrder, StageFits, OutcomeFits, RecordMatchesNotary, WhyFits, Told, signed, recorded
<1>3. LinesStayTrue
  BY <1>1 DEF LinesStayTrue, LineIsTrue, ReplyIsTrue, Told, signed, recorded
<1>. QED BY <1>2, <1>3

\* A stop: the TERM says the first cause.
LEMMA StopKeeps ==
  ASSUME SessionAssumption, Books, stage \in {"ident", "sign", "work", "rec", "close"},
         NEW c \in Causes, Stop(c), stage' = "term",
         UNCHANGED <<seq, outcome, confirmed>>, UNCHANGED HostBooks,
         c = "COMPLETED" => stage = "close",
         c \in {"STOP_IDENT", "IDENT_REFUSED"} => stage = "ident",
         c = "STOP_REC" => stage = "rec" /\ seq = Len(confirmed) + 1
  PROVE Books' /\ LinesStayTrue
<1>1. UNCHANGED <<seq, outcome, confirmed, notary, records, closing, end>> /\ why = "-" /\ why' = c /\ stage' = "term"
  BY DEF HostBooks, Books, StageFits, Stop
<1>2. BooksTyped'
  BY <1>1 DEF Books, BooksTyped, Stages, TxStages
<1>3. InOrder' /\ OutcomeFits' /\ RecordMatchesNotary'
  BY <1>1 DEF Books, InOrder, OutcomeFits, RecordMatchesNotary, Told, signed, recorded
<1>4. StageFits'
  BY <1>1 DEF Books, StageFits, Causes
<1>5. WhyFits'
  BY <1>1 DEF Books, WhyFits, StageFits, BooksTyped, Causes
<1>6. LinesStayTrue
  BY <1>1 DEF LinesStayTrue, LineIsTrue, ReplyIsTrue, Told, signed, recorded
<1>. QED BY <1>2, <1>3, <1>4, <1>5, <1>6 DEF Books

\* The record of the candidate is built: its outcome fits the notary's answer.
LEMMA RecordKeeps ==
  ASSUME SessionAssumption, Books, stage \in {"sign", "work"}, stage' = "rec",
         outcome' \in Outcomes,
         outcome' \in {"SCORED", "STOP_DEVICE"} => stage = "work",
         outcome' = "REFUSED_BY_GATE" => signed = seq /\ notary[seq] = "SIGNREF",
         UNCHANGED <<seq, confirmed, why>>, UNCHANGED HostBooks
  PROVE Books' /\ LinesStayTrue
<1>1. UNCHANGED <<seq, confirmed, why, notary, records, closing, end>> /\ outcome = "-" /\ outcome \notin Outcomes
  BY DEF HostBooks, Books, StageFits, Outcomes
<1>2. seq = Len(confirmed) + 1 /\ why = "-" /\ Len(confirmed) \in Nat /\ seq \in Nat
  BY DEF Books, StageFits, BooksTyped
<1>3. BooksTyped'
  BY <1>1 DEF Books, BooksTyped, Stages, TxStages
<1>4. InOrder' /\ RecordMatchesNotary'
  BY <1>1 DEF Books, InOrder, RecordMatchesNotary, signed, recorded
<1>5. \A i \in DOMAIN records : i # seq
  BY <1>1 DEF Books, BooksTyped, OutcomeFits, Told
<1>6. OutcomeFits'
  BY <1>1, <1>2, <1>5 DEF Books, OutcomeFits, StageFits, Told, signed, recorded
<1>7. StageFits' /\ WhyFits'
  BY <1>1, <1>2 DEF Books, WhyFits, StageFits, Causes
<1>8. LinesStayTrue
  BY <1>1 DEF LinesStayTrue, LineIsTrue, ReplyIsTrue, Told, signed, recorded
<1>. QED BY <1>3, <1>4, <1>6, <1>7, <1>8 DEF Books

\* The device's work begins once the notary signed this seq.
LEMMA WorkKeeps ==
  ASSUME Books, stage = "sign", stage' = "work", signed = seq, notary[seq] = "SIGNOK",
         UNCHANGED <<seq, outcome, confirmed, why>>, UNCHANGED HostBooks
  PROVE Books' /\ LinesStayTrue
<1>1. UNCHANGED <<seq, outcome, confirmed, why, notary, records, closing, end>>
  BY DEF HostBooks
<1>2. BooksTyped' /\ StageFits' /\ WhyFits'
  BY <1>1 DEF Books, BooksTyped, StageFits, WhyFits, Stages, TxStages, Causes, signed
<1>3. InOrder' /\ OutcomeFits' /\ RecordMatchesNotary'
  BY <1>1 DEF Books, InOrder, OutcomeFits, RecordMatchesNotary, Told, signed, recorded
<1>4. LinesStayTrue
  BY <1>1 DEF LinesStayTrue, LineIsTrue, ReplyIsTrue, Told, signed, recorded
<1>. QED BY <1>2, <1>3, <1>4 DEF Books

\* The application is over: the TERM's transaction ended, or the watchdog bit.
LEMMA OverKeeps ==
  ASSUME Books, \/ stage = "term" /\ stage' = "halted"
                \/ stage' = "reset",
         UNCHANGED <<seq, outcome, confirmed, why>>, UNCHANGED HostBooks
  PROVE Books' /\ LinesStayTrue
<1>1. UNCHANGED <<seq, outcome, confirmed, why, notary, records, closing, end>>
  BY DEF HostBooks
<1>2. BooksTyped' /\ StageFits' /\ WhyFits'
  BY <1>1 DEF Books, BooksTyped, StageFits, WhyFits, Stages, TxStages, Causes
<1>3. InOrder' /\ OutcomeFits' /\ RecordMatchesNotary'
  BY <1>1 DEF Books, InOrder, OutcomeFits, RecordMatchesNotary, Told, signed, recorded
<1>4. LinesStayTrue
  BY <1>1 DEF LinesStayTrue, LineIsTrue, ReplyIsTrue, Told, signed, recorded
<1>. QED BY <1>2, <1>3, <1>4 DEF Books

\* The first candidate starts once the identity is acknowledged.
LEMMA FirstKeeps ==
  ASSUME SessionAssumption, Books, stage = "ident", stage' = "sign", seq' = seq + 1, outcome' = "-",
         UNCHANGED <<confirmed, why>>, UNCHANGED HostBooks
  PROVE Books' /\ LinesStayTrue
<1>1. UNCHANGED <<confirmed, why, notary, records, closing, end>> /\ seq = 0 /\ seq' = 1 /\ why = "-"
  BY DEF HostBooks, Books, StageFits
<1>2. Len(confirmed) = 0 /\ Len(records) = 0 /\ Len(notary) = 0
  BY <1>1 DEF Books, BooksTyped, InOrder, signed, recorded
<1>3. BooksTyped' /\ StageFits' /\ WhyFits'
  BY <1>1, <1>2 DEF Books, BooksTyped, StageFits, WhyFits, Stages, TxStages, Causes, SessionAssumption
<1>4. InOrder' /\ RecordMatchesNotary' /\ OutcomeFits'
  BY <1>1, <1>2 DEF Books, BooksTyped, InOrder, OutcomeFits, RecordMatchesNotary, Told, signed, recorded
<1>5. LinesStayTrue
  BY <1>1, <1>2 DEF LinesStayTrue, LineIsTrue, ReplyIsTrue, Told, signed, recorded
<1>. QED BY <1>3, <1>4, <1>5 DEF Books

\* The acknowledged record is confirmed; a stop ends the session, the last
\* candidate closes it, any other makes room for the next.
LEMMA ConfirmKeeps ==
  ASSUME SessionAssumption, Books, stage = "rec", seq <= recorded,
         confirmed' = Append(confirmed, outcome), UNCHANGED HostBooks,
         \/ stage' = "term" /\ outcome \in {"STOP_SIGN", "STOP_DEVICE"} /\ Stop(outcome) /\ UNCHANGED <<seq, outcome>>
         \/ stage' = "sign" /\ outcome \in Plain /\ seq < NCand /\ seq' = seq + 1 /\ outcome' = "-" /\ UNCHANGED why
         \/ stage' = "close" /\ outcome \in Plain /\ seq = NCand /\ UNCHANGED <<seq, outcome, why>>
  PROVE Books' /\ LinesStayTrue
<1>1. UNCHANGED <<notary, records, closing, end>> /\ why = "-" /\ seq = Len(confirmed) + 1 /\ outcome \in Outcomes
  BY DEF HostBooks, Books, StageFits
<1>2. /\ Len(confirmed) \in Nat /\ Len(records) \in Nat /\ Len(notary) \in Nat /\ seq \in Nat
      /\ confirmed \in Seq(Outcomes)
  BY DEF Books, BooksTyped
<1>3. /\ Len(confirmed') = seq /\ DOMAIN confirmed' = 1 .. seq /\ DOMAIN confirmed = 1 .. seq - 1
      /\ confirmed' \in Seq(Outcomes)
      /\ confirmed'[seq] = outcome
      /\ \A i \in 1 .. seq - 1 : confirmed'[i] = confirmed[i]
  BY <1>1, <1>2
<1>4. recorded = seq /\ signed = seq
  BY <1>1, <1>2 DEF Books, InOrder, signed, recorded
<1>5. DOMAIN records = 1 .. seq /\ records[seq] = outcome
  <2>1. DOMAIN records = 1 .. seq /\ seq \in DOMAIN records
    BY <1>1, <1>2, <1>4 DEF Books, BooksTyped, recorded
  <2>2. Told(seq, records[seq])
    BY <2>1 DEF Books, OutcomeFits
  <2>. QED BY <2>1, <2>2 DEF Told
<1>6. \A k \in 1 .. seq, o \in Outcomes : Told(k, o) => o = confirmed'[k]
  BY <1>1, <1>2, <1>3 DEF Told
<1>7. \A k \in 1 .. seq, o \in Outcomes : Told(k, o) => Told(k, o)'
  <2>1. seq' \in {seq, seq + 1} /\ (seq' = seq => outcome' = outcome)
    BY <1>2
  <2>2. SUFFICES ASSUME NEW k \in 1 .. seq, NEW o \in Outcomes, Told(k, o) PROVE Told(k, o)'
    OBVIOUS
  <2>3. o = confirmed'[k]
    BY <1>6, <2>2
  <2>4. k = seq' => o = outcome'
    BY <1>2, <2>1, <2>2 DEF Told
  <2>. QED BY <2>3, <2>4 DEF Told
<1>8. BooksTyped'
  BY <1>1, <1>2, <1>3, <1>4 DEF Books, BooksTyped, Stages, TxStages, Stop, Causes
<1>9. InOrder'
  BY <1>1, <1>2, <1>3, <1>4, <1>5 DEF Books, InOrder, signed, recorded
<1>10. \A i \in DOMAIN records : records[i] \in Outcomes
  BY <1>2, <1>5 DEF Books, BooksTyped
<1>11. OutcomeFits'
  <2>1. \A i \in DOMAIN records' : Told(i, records[i])'
    BY <1>1, <1>5, <1>7, <1>10 DEF Books, OutcomeFits
  <2>2. \A i \in DOMAIN confirmed' : i < seq' => confirmed'[i] \in Plain
    <3>1. \A i \in 1 .. seq - 1 : confirmed'[i] \in Plain
      <4>1. \A i \in DOMAIN confirmed : i < seq => confirmed[i] \in Plain
        BY DEF Books, OutcomeFits
      <4>2. ASSUME NEW i \in 1 .. seq - 1 PROVE i < seq /\ i \in DOMAIN confirmed
        <5>1. seq \in Nat /\ DOMAIN confirmed = 1 .. seq - 1
          BY <1>2, <1>3
        <5>. QED BY <5>1
      <4>. QED BY <1>3, <4>1, <4>2
    <3>2. seq' > seq => outcome \in Plain
      BY <1>2
    <3>3. ASSUME NEW i \in 1 .. seq, i < seq' PROVE confirmed'[i] \in Plain
      <4>1. CASE i = seq
        BY <1>3, <3>2, <3>3, <4>1
      <4>2. CASE i # seq
        <5>1. i \in 1 .. seq - 1
          BY <1>2, <4>2
        <5>. QED BY <3>1, <5>1
      <4>. QED BY <4>1, <4>2
    <3>. QED BY <1>3, <3>3
  <2>3. seq' >= 1 /\ Len(confirmed') = seq' => outcome' = confirmed'[seq']
    BY <1>1, <1>2, <1>3
  <2>. QED BY <1>1, <1>2, <2>1, <2>2, <2>3 DEF Books, OutcomeFits, signed
<1>12. RecordMatchesNotary'
  BY <1>1 DEF Books, RecordMatchesNotary, recorded
<1>13. StageFits' /\ WhyFits'
  BY <1>1, <1>2, <1>3 DEF Books, StageFits, WhyFits, Stop, Causes
<1>14. LinesStayTrue
  <2>0. seq \in Nat /\ seq' \in Nat /\ seq <= seq'
    <3>1. seq \in Nat
      BY <1>2
    <3>2. seq' = seq \/ seq' = seq + 1
      OBVIOUS
    <3>. QED BY <3>1, <3>2
  <2>1. ASSUME NEW m \in ToHost, LineIsTrue(m) PROVE LineIsTrue(m)'
    <3>1. m.type # "TERM"
      BY <1>1, <2>1 DEF LineIsTrue
    <3>2. m.type = "SIGNREQ" => m.seq \in 1 .. seq'
      BY <2>0, <2>1 DEF LineIsTrue
    <3>3. ASSUME m.type = "REC" PROVE m.seq \in 1 .. seq' /\ m.body \in Outcomes /\ Told(m.seq, m.body)'
      <4>1. m.seq \in 1 .. seq /\ m.body \in Outcomes /\ Told(m.seq, m.body)
        BY <2>1, <3>3 DEF LineIsTrue
      <4>2. Told(m.seq, m.body)'
        BY <1>7, <4>1
      <4>. QED BY <2>0, <4>1, <4>2
    <3>. QED BY <3>1, <3>2, <3>3 DEF LineIsTrue
  <2>2. \A m \in ToBoard : ReplyIsTrue(m) => ReplyIsTrue(m)'
    BY <1>1 DEF ReplyIsTrue, signed, recorded
  <2>. QED BY <2>1, <2>2 DEF LinesStayTrue
<1>. QED BY <1>8, <1>9, <1>11, <1>12, <1>13, <1>14 DEF Books

\* Out of attempts: the record of a stop, the TERM of a stop, or the end.
LEMMA ExhaustedKeeps ==
  ASSUME SessionAssumption, Books, stage \in TxStages, Exhausted, UNCHANGED HostBooks
  PROVE Books' /\ LinesStayTrue
<1>1. CASE stage = "sign"
  <2>1. stage' = "rec" /\ outcome' = "STOP_SIGN" /\ UNCHANGED <<seq, confirmed, why>>
    BY <1>1 DEF Exhausted, StartTx
  <2>. QED BY <1>1, <2>1, RecordKeeps DEF Outcomes
<1>2. CASE stage = "ident"
  <2>1. stage' = "term" /\ Stop("STOP_IDENT") /\ UNCHANGED <<seq, outcome, confirmed>>
    BY <1>2 DEF Exhausted, StartTx
  <2>. QED BY <1>2, <2>1, StopKeeps DEF Causes
<1>3. CASE stage = "rec"
  <2>1. stage' = "term" /\ Stop(RecStop) /\ UNCHANGED <<seq, outcome, confirmed>>
    BY <1>3 DEF Exhausted, StartTx
  <2>2. RecStop \in {"STOP_REC", "STOP_SIGN", "STOP_DEVICE"} /\ seq = Len(confirmed) + 1
    BY <1>3 DEF RecStop, Books, StageFits, Outcomes
  <2>. QED BY <1>3, <2>1, <2>2, StopKeeps DEF Causes
<1>4. CASE stage = "term"
  <2>1. stage' = "halted" /\ UNCHANGED <<seq, outcome, confirmed, why>>
    BY <1>4 DEF Exhausted, StartTx
  <2>. QED BY <1>4, <2>1, OverKeeps
<1>. QED BY <1>1, <1>2, <1>3, <1>4 DEF TxStages

\* The same bytes again, or out of attempts.
LEMMA ResendKeeps ==
  ASSUME SessionAssumption, Books, stage \in TxStages, NEW p, ResendOrExhaust(p), UNCHANGED HostBooks
  PROVE Books' /\ LinesStayTrue
<1>1. UNCHANGED Control \/ Exhausted
  BY DEF ResendOrExhaust, Control
<1>. QED BY <1>1, StayKeeps, ExhaustedKeeps

\* A foreign line.
LEMMA IgnoredKeeps ==
  ASSUME SessionAssumption, Books, stage \in TxStages, NEW p, Ignored(p), UNCHANGED HostBooks
  PROVE Books' /\ LinesStayTrue
<1>1. UNCHANGED Control \/ ResendOrExhaust(p)
  BY DEF Ignored, Control
<1>. QED BY <1>1, StayKeeps, ResendKeeps

-----------------------------------------------------------------------------
(* Steps.                                                                   *)

\* The lines in flight after a step: old ones that stay true, and new ones.
LEMMA QueuesKeep ==
  ASSUME LinesTyped, InFlight, LinesStayTrue, b2h' \in Seq(ToHost), h2b' \in Seq(ToBoard),
         \A x \in Lines(b2h') : x \in Lines(b2h) \/ LineIsTrue(x)',
         \A x \in Lines(h2b') : x \in Lines(h2b) \/ ReplyIsTrue(x)'
  PROVE LinesTyped' /\ InFlight'
<1>1. \A x \in Lines(b2h) : x \in ToHost /\ LineIsTrue(x)
  BY DEF Lines, LinesTyped, InFlight
<1>2. \A x \in Lines(h2b) : x \in ToBoard /\ ReplyIsTrue(x)
  BY DEF Lines, LinesTyped, InFlight
<1>3. \A x \in Lines(b2h') : LineIsTrue(x)'
  BY <1>1 DEF LinesStayTrue
<1>4. \A x \in Lines(h2b') : ReplyIsTrue(x)'
  BY <1>2 DEF LinesStayTrue
<1>5. \A x : x \in Lines(b2h)' <=> x \in Lines(b2h')
  BY DEF Lines
<1>6. \A x : x \in Lines(h2b)' <=> x \in Lines(h2b')
  BY DEF Lines
<1>. QED BY <1>3, <1>4, <1>5, <1>6 DEF LinesTyped, InFlight

\* The line of the transaction says what is true of it.
LEMMA TxLineIsTrue ==
  ASSUME SessionAssumption, Books, stage \in TxStages
  PROVE TxLine \in ToHost /\ LineIsTrue(TxLine)
<1>1. CASE stage = "ident"
  BY <1>1 DEF TxLine, Line, ToHost, LineIsTrue, BoardTypes, Bodies, Forms
<1>2. CASE stage = "sign"
  <2>1. seq \in Nat /\ seq \in 1 .. seq
    BY <1>2 DEF Books, BooksTyped, StageFits
  <2>2. TxLine = Line("SIGNREQ", seq, "-")
    BY <1>2 DEF TxLine
  <2>. QED BY <2>1, <2>2 DEF Line, ToHost, LineIsTrue, BoardTypes, Bodies, Forms
<1>3. CASE stage = "rec"
  <2>1. seq \in Nat /\ Len(confirmed) \in Nat /\ seq = Len(confirmed) + 1 /\ outcome \in Outcomes
    BY <1>3 DEF Books, BooksTyped, StageFits
  <2>. QED BY <1>3, <2>1 DEF TxLine, Line, ToHost, LineIsTrue, BoardTypes, Bodies, Forms, Told
<1>4. CASE stage = "term"
  <2>1. seq \in Nat /\ why \in Causes
    BY <1>4 DEF Books, BooksTyped, StageFits
  <2>2. TxLine = Line("TERM", seq + 1, why) /\ why # "-"
    BY <1>4, <2>1 DEF TxLine, Causes
  <2>. QED BY <2>1, <2>2 DEF Line, ToHost, LineIsTrue, BoardTypes, Bodies, Forms
<1>. QED BY <1>1, <1>2, <1>3, <1>4 DEF TxStages

\* BoardSend.
LEMMA SendKeeps ==
  ASSUME SessionAssumption, IInv, BoardSend
  PROVE IInv'
<1>1. Books /\ LinesTyped /\ InFlight /\ stage \in TxStages
  BY DEF IInv, BoardSend
<1>2. UNCHANGED Control /\ UNCHANGED HostBooks /\ h2b' = h2b
  BY DEF BoardSend, Control, HostBooks, host
<1>3. Books' /\ LinesStayTrue
  BY <1>1, <1>2, StayKeeps
<1>4. TxLine \in ToHost /\ LineIsTrue(TxLine)
  BY <1>1, TxLineIsTrue
<1>5. SendToHost(TxLine) \/ b2h' = Append(b2h, [TxLine EXCEPT !.form = "crc"])
  BY DEF BoardSend
<1>6. /\ b2h' \in Seq(ToHost)
      /\ \A x \in Lines(b2h') :
           x \in Lines(b2h) \/ (x.type = TxLine.type /\ x.seq = TxLine.seq /\ x.body = TxLine.body)
  BY <1>1, <1>4, <1>5, SentToHost
<1>7. \A x \in Lines(b2h') : x \in Lines(b2h) \/ LineIsTrue(x)'
  BY <1>2, <1>4, <1>6 DEF LineIsTrue, Told, Control
<1>8. h2b' \in Seq(ToBoard) /\ \A x \in Lines(h2b') : x \in Lines(h2b)
  BY <1>1, <1>2 DEF LinesTyped
<1>. QED BY <1>1, <1>3, <1>6, <1>7, <1>8, QueuesKeep DEF IInv

\* A step of the board that takes the head of its receiver, or flushes more.
LEMMA TakeKeeps ==
  ASSUME IInv, Books', LinesStayTrue, b2h' = b2h, h2b # << >>,
         \/ h2b' = Tail(h2b)
         \/ \E n \in 0 .. Len(Tail(h2b)) : h2b' = SubSeq(Tail(h2b), n + 1, Len(Tail(h2b)))
  PROVE IInv'
<1>1. LinesTyped /\ InFlight /\ h2b \in Seq(ToBoard) /\ b2h \in Seq(ToHost)
  BY DEF IInv, LinesTyped
<1>2. Tail(h2b) \in Seq(ToBoard) /\ Lines(Tail(h2b)) \subseteq Lines(h2b)
  BY <1>1, LinesTail
<1>3. h2b' \in Seq(ToBoard) /\ Lines(h2b') \subseteq Lines(h2b)
  <2>1. CASE h2b' = Tail(h2b)
    BY <1>2, <2>1
  <2>2. ASSUME NEW n \in 0 .. Len(Tail(h2b)), h2b' = SubSeq(Tail(h2b), n + 1, Len(Tail(h2b)))
        PROVE h2b' \in Seq(ToBoard) /\ Lines(h2b') \subseteq Lines(h2b)
    <3>. DEFINE r == Tail(h2b)
    <3>1. r \in Seq(ToBoard) /\ Lines(r) \subseteq Lines(h2b) /\ n \in 0 .. Len(r)
      BY <1>2
    <3>2. h2b' = SubSeq(r, n + 1, Len(r))
      BY <2>2
    <3>. HIDE DEF r
    <3>3. SubSeq(r, n + 1, Len(r)) \in Seq(ToBoard) /\ Lines(SubSeq(r, n + 1, Len(r))) \subseteq Lines(r)
      BY <3>1, LinesFlush
    <3>. QED BY <3>1, <3>2, <3>3
  <2>. QED BY <2>1, <2>2
<1>4. Lines(b2h') = Lines(b2h)
  OBVIOUS
<1>. QED BY <1>1, <1>3, <1>4, QueuesKeep DEF IInv

\* What the head of the receiver says is true.
LEMMA HeadIsTrue ==
  ASSUME IInv, h2b # << >>
  PROVE Head(h2b) \in ToBoard /\ ReplyIsTrue(Head(h2b))
BY LinesTail DEF IInv, LinesTyped, InFlight

\* BoardRecvAck, by the transaction acknowledged.
LEMMA AckKeeps ==
  ASSUME SessionAssumption, IInv, BoardRecvAck
  PROVE IInv'
<1>. DEFINE m == Head(h2b)
<1>1. Books /\ stage \in TxStages /\ h2b # << >> /\ b2h' = b2h /\ UNCHANGED HostBooks
  BY DEF IInv, BoardRecvAck, Receiving, HostBooks, host
<1>2. m \in ToBoard /\ ReplyIsTrue(m) /\ m.seq = TxSeq /\ m.type \in AckTypes[stage] /\ Acknowledged(m, Tail(h2b))
  BY <1>1, HeadIsTrue DEF BoardRecvAck, LineOfTx
<1>. HIDE DEF m
<1>3. SUFFICES /\ Books' /\ LinesStayTrue
               /\ \/ h2b' = Tail(h2b)
                  \/ \E n \in 0 .. Len(Tail(h2b)) : h2b' = SubSeq(Tail(h2b), n + 1, Len(Tail(h2b)))
  BY <1>1, TakeKeeps
<1>4. CASE stage = "ident"
  <2>1. UNCHANGED confirmed /\ \/ StartCandidate(Tail(h2b)) /\ UNCHANGED why
                               \/ /\ stage' = "term" /\ Stop("IDENT_REFUSED") /\ h2b' = Tail(h2b)
                                  /\ UNCHANGED <<seq, outcome>>
    BY <1>2, <1>4 DEF Acknowledged, StartTx
  <2>2. CASE StartCandidate(Tail(h2b)) /\ UNCHANGED why
    BY <1>1, <1>4, <2>1, <2>2, FirstKeeps DEF StartCandidate, StartTx
  <2>3. CASE stage' = "term" /\ Stop("IDENT_REFUSED") /\ h2b' = Tail(h2b) /\ UNCHANGED <<seq, outcome>>
    BY <1>1, <1>4, <2>1, <2>3, StopKeeps DEF Causes
  <2>. QED BY <2>1, <2>2, <2>3
<1>5. CASE stage = "sign"
  <2>1. m.seq = seq /\ m.type \in {"SIGNOK", "SIGNREF"}
    BY <1>2, <1>5 DEF TxSeq, AckTypes
  <2>2. signed = seq /\ notary[seq] = m.type
    BY <1>1, <1>2, <2>1 DEF ReplyIsTrue, Books, BooksTyped, InOrder, signed, recorded
  <2>3. h2b' = Tail(h2b) /\ UNCHANGED <<seq, confirmed, why>>
    BY <1>2, <1>5 DEF Acknowledged
  <2>4. CASE m.type = "SIGNREF"
    <3>1. stage' = "rec" /\ outcome' = "REFUSED_BY_GATE"
      BY <1>2, <1>5, <2>4 DEF Acknowledged, StartTx
    <3>. QED BY <1>1, <1>5, <2>2, <2>3, <2>4, <3>1, RecordKeeps DEF Outcomes
  <2>5. CASE m.type = "SIGNOK"
    <3>1. stage' = "work" /\ UNCHANGED outcome
      BY <1>2, <1>5, <2>5 DEF Acknowledged, StartTx
    <3>. QED BY <1>1, <1>5, <2>2, <2>3, <2>5, <3>1, WorkKeeps
  <2>. QED BY <2>1, <2>4, <2>5
<1>6. CASE stage = "rec"
  <2>1. m.seq = seq /\ m.type = "RECACK"
    BY <1>2, <1>6 DEF TxSeq, AckTypes
  <2>2. seq <= recorded /\ seq <= NCand /\ seq \in Nat
    BY <1>1, <1>2, <2>1 DEF ReplyIsTrue, Books, StageFits, BooksTyped
  <2>3. /\ confirmed' = Append(confirmed, outcome)
        /\ \/ /\ outcome \in {"STOP_SIGN", "STOP_DEVICE"} /\ stage' = "term" /\ Stop(outcome)
              /\ h2b' = Tail(h2b) /\ UNCHANGED <<seq, outcome>>
           \/ outcome \notin {"STOP_SIGN", "STOP_DEVICE"} /\ UNCHANGED why /\ seq < NCand /\ StartCandidate(Tail(h2b))
           \/ /\ outcome \notin {"STOP_SIGN", "STOP_DEVICE"} /\ UNCHANGED why /\ ~(seq < NCand) /\ stage' = "close"
              /\ h2b' = Tail(h2b) /\ UNCHANGED <<seq, outcome>>
    BY <1>2, <1>6 DEF Acknowledged, StartTx
  <2>4. outcome \in Outcomes /\ (~(seq < NCand) => seq = NCand)
    BY <1>1, <1>6, <2>2, SessionAssumption DEF Books, StageFits, SessionAssumption
  <2>. QED BY <1>1, <1>6, <2>2, <2>3, <2>4, ConfirmKeeps DEF StartCandidate, StartTx, Outcomes, Plain
<1>7. CASE stage = "term"
  <2>1. stage' = "halted" /\ h2b' = Tail(h2b) /\ UNCHANGED <<seq, outcome, confirmed, why>>
    BY <1>2, <1>7 DEF Acknowledged, StartTx
  <2>. QED BY <1>1, <1>7, <2>1, OverKeeps
<1>. QED BY <1>1, <1>4, <1>5, <1>6, <1>7 DEF TxStages

\* A step of the board that only takes what it received, or nothing.
LEMMA HearKeeps ==
  ASSUME SessionAssumption, IInv,
         BoardRecvGet \/ BoardRecvRecAckInSign \/ BoardRecvForeign
  PROVE IInv'
<1>1. /\ Books /\ stage \in TxStages /\ h2b # << >> /\ h2b' = Tail(h2b) /\ b2h' = b2h
      /\ UNCHANGED HostBooks
  BY DEF IInv, BoardRecvGet, BoardRecvRecAckInSign, BoardRecvForeign, Receiving, HostBooks, host
<1>2. Books' /\ LinesStayTrue
  <2>1. CASE BoardRecvGet
    BY <1>1, <2>1, ResendKeeps DEF BoardRecvGet
  <2>2. CASE BoardRecvRecAckInSign
    <3>1. CASE Ignored(prevAcks + 1)
      BY <1>1, <3>1, IgnoredKeeps
    <3>2. CASE StartTx("term") /\ Stop("PROTOCOL") /\ UNCHANGED <<seq, outcome, confirmed>>
      <4>1. stage = "sign" /\ stage' = "term"
        BY <2>2, <3>2 DEF BoardRecvRecAckInSign, StrictLine, StartTx
      <4>. QED BY <1>1, <3>2, <4>1, StopKeeps DEF Causes
    <3>. QED BY <2>2, <3>1, <3>2 DEF BoardRecvRecAckInSign
  <2>3. CASE BoardRecvForeign
    BY <1>1, <2>3, IgnoredKeeps DEF BoardRecvForeign
  <2>. QED BY <2>1, <2>2, <2>3
<1>. QED BY <1>1, <1>2, TakeKeeps

\* A step of the board that leaves the lines in flight alone.
LEMMA AloneKeeps ==
  ASSUME IInv, Books', LinesStayTrue, UNCHANGED <<b2h, h2b>>
  PROVE IInv'
<1>1. LinesTyped /\ InFlight /\ b2h' \in Seq(ToHost) /\ h2b' \in Seq(ToBoard)
  BY DEF IInv, LinesTyped
<1>2. Lines(b2h') = Lines(b2h) /\ Lines(h2b') = Lines(h2b)
  OBVIOUS
<1>. QED BY <1>1, <1>2, QueuesKeep DEF IInv

\* BoardBound, BoardWork and BoardReset.
LEMMA InsideKeeps ==
  ASSUME SessionAssumption, IInv, BoardBound \/ BoardWork \/ BoardReset
  PROVE IInv'
<1>1. Books /\ UNCHANGED <<b2h, h2b>> /\ UNCHANGED HostBooks
  BY DEF IInv, BoardBound, BoardWork, BoardReset, HostBooks, host
<1>2. CASE BoardBound
  BY <1>1, <1>2, ResendKeeps, AloneKeeps DEF BoardBound
<1>3. CASE BoardWork
  <2>1. stage = "work" /\ UNCHANGED <<seq, confirmed>>
    BY <1>3 DEF BoardWork
  <2>2. CASE \E o \in {"SCORED", "STOP_DEVICE"} : StartTx("rec") /\ outcome' = o /\ UNCHANGED why
    <3>1. stage' = "rec" /\ outcome' \in {"SCORED", "STOP_DEVICE"} /\ UNCHANGED why
      BY <2>2 DEF StartTx
    <3>. QED BY <1>1, <2>1, <3>1, RecordKeeps, AloneKeeps DEF Outcomes
  <2>3. CASE StartTx("term") /\ Stop("STOP_DEVICE") /\ UNCHANGED outcome
    <3>1. stage' = "term"
      BY <2>3 DEF StartTx
    <3>. QED BY <1>1, <2>1, <2>3, <3>1, StopKeeps, AloneKeeps DEF Causes
  <2>. QED BY <1>3, <2>2, <2>3 DEF BoardWork
<1>4. CASE BoardReset
  <2>1. stage' = "reset" /\ UNCHANGED <<seq, outcome, confirmed, why>>
    BY <1>4 DEF BoardReset, StartTx
  <2>. QED BY <1>1, <2>1, OverKeeps, AloneKeeps
<1>. QED BY <1>2, <1>3, <1>4

\* BoardClose.
LEMMA CloseKeeps ==
  ASSUME SessionAssumption, IInv, BoardClose
  PROVE IInv'
<1>. DEFINE m == Line("CLOSE", seq, "-")
<1>1. Books /\ LinesTyped /\ InFlight /\ stage = "close" /\ stage' = "term" /\ h2b' = h2b /\ UNCHANGED HostBooks
  BY DEF IInv, BoardClose, HostBooks, host, StartTx
<1>2. /\ Stop("COMPLETED") \/ Stop("STOP_DEVICE")
      /\ UNCHANGED <<seq, outcome, confirmed>>
      /\ SendToHost(m) \/ b2h' = b2h
  BY DEF BoardClose
<1>3. Books' /\ LinesStayTrue
  BY <1>1, <1>2, StopKeeps DEF Causes
<1>4. m \in ToHost /\ m.type = "CLOSE"
  BY <1>1 DEF Line, ToHost, BoardTypes, Bodies, Forms, Books, BooksTyped
<1>. HIDE DEF m
<1>5. b2h \in Seq(ToHost) /\ h2b' \in Seq(ToBoard) /\ Lines(h2b') = Lines(h2b)
  BY <1>1 DEF LinesTyped
<1>6. CASE b2h' = b2h
  BY <1>1, <1>3, <1>6, AloneKeeps
<1>7. CASE SendToHost(m)
  <2>1. b2h' \in Seq(ToHost) /\ \A x \in Lines(b2h') : x \in Lines(b2h) \/ x.type = "CLOSE"
    BY <1>1, <1>4, <1>7, SentToHost
  <2>2. \A x \in Lines(b2h') : x \in Lines(b2h) \/ LineIsTrue(x)'
    BY <2>1 DEF LineIsTrue
  <2>. QED BY <1>1, <1>3, <1>5, <2>1, <2>2, QueuesKeep DEF IInv
<1>. QED BY <1>2, <1>6, <1>7

-----------------------------------------------------------------------------
(* The host's steps.                                                        *)

\* What the head of the host's input says is true.
LEMMA HeardIsTrue ==
  ASSUME IInv, HostTakes
  PROVE /\ Head(b2h) \in ToHost /\ LineIsTrue(Head(b2h))
        /\ b2h' \in Seq(ToHost) /\ Lines(b2h') \subseteq Lines(b2h)
BY LinesTail DEF IInv, LinesTyped, InFlight, HostTakes

\* A step of the host that takes one line and answers at most once.
LEMMA AnswerKeeps ==
  ASSUME IInv, HostTakes, Books', LinesStayTrue,
         NEW a \in ToBoard, SendToBoard(a) \/ h2b' = h2b, ReplyIsTrue(a)'
  PROVE IInv'
<1>1. LinesTyped /\ InFlight /\ b2h' \in Seq(ToHost) /\ Lines(b2h') \subseteq Lines(b2h)
  BY HeardIsTrue DEF IInv
<1>2. h2b' \in Seq(ToBoard) /\ \A x \in Lines(h2b') : x \in Lines(h2b) \/ (x.type = a.type /\ x.seq = a.seq)
  BY <1>1, SentToBoard
<1>3. \A x \in Lines(h2b') : x \in Lines(h2b) \/ ReplyIsTrue(x)'
  BY <1>2 DEF ReplyIsTrue
<1>. QED BY <1>1, <1>2, <1>3, QueuesKeep DEF IInv

\* Steps of the host that change none of its books but the end of the epoch.
LEMMA EndKeeps ==
  ASSUME Books, UNCHANGED Control, UNCHANGED <<notary, records, closing>>,
         end' = end \/ end' \notin Causes
  PROVE Books' /\ LinesStayTrue
<1>1. UNCHANGED <<stage, seq, outcome, confirmed, why, notary, records, closing>>
  BY DEF Control
<1>2. Books'
  BY <1>1 DEF Books, BooksTyped, InOrder, StageFits, OutcomeFits, RecordMatchesNotary, WhyFits, Told, signed, recorded, Causes
<1>3. LinesStayTrue
  BY <1>1 DEF LinesStayTrue, LineIsTrue, ReplyIsTrue, Told, signed, recorded
<1>. QED BY <1>2, <1>3

\* A re-request names no record and no signature.
LEMMA AskedAgain ==
  ASSUME Books, NEW m \in ToHost, OnBroken(m) \/ OnBrokenTerm(m) \/ NoAsk
  PROVE \E a \in ToBoard : /\ a.type \in {"SIGNGET", "RECGET", "TERMGET"}
                           /\ SendToBoard(a) \/ h2b' = h2b
<1>1. m.seq \in Nat /\ signed \in Nat /\ recorded \in Nat
  BY DEF ToHost, Books, BooksTyped, signed, recorded
<1>2. \A t \in {"SIGNGET", "RECGET", "TERMGET"}, k \in Nat :
        Reply(t, k) \in ToBoard /\ Reply(t, k).type = t
  BY DEF Reply, ToBoard, HostTypes
<1>3. ASSUME NEW t, NEW k, NEW g, Ask(t, k, g) PROVE SendToBoard(g) \/ h2b' = h2b
  BY <1>3 DEF Ask, Silent
<1>4. CASE NoAsk
  BY <1>2, <1>4 DEF NoAsk, Silent
<1>5. CASE OnBrokenTerm(m)
  <2>. DEFINE k == IF HeadSays(m, m.seq) \/ end \in Causes THEN m.seq ELSE 0
  <2>1. k \in Nat /\ Ask("TERM", 0, Reply("TERMGET", k))
    BY <1>1, <1>5 DEF OnBrokenTerm
  <2>. HIDE DEF k
  <2>. QED BY <1>2, <1>3, <2>1
<1>6. CASE OnBrokenSign
  <2>1. Ask("SIGNREQ", signed + 1, Reply("SIGNGET", signed + 1)) /\ signed + 1 \in Nat
    BY <1>1, <1>6 DEF OnBrokenSign
  <2>. QED BY <1>2, <1>3, <2>1
<1>7. CASE OnBrokenRec(m)
  <2>1. CASE Ask("REC", signed, Reply("RECGET", signed))
    BY <1>1, <1>2, <1>3, <2>1
  <2>2. CASE Ask("REC", recorded, Reply("RECGET", recorded))
    BY <1>1, <1>2, <1>3, <2>2
  <2>. QED BY <1>4, <1>7, <2>1, <2>2 DEF OnBrokenRec
<1>8. OnBroken(m) => OnBrokenSign \/ OnBrokenTerm(m) \/ OnBrokenRec(m) \/ NoAsk
  BY DEF OnBroken
<1>. QED BY <1>4, <1>5, <1>6, <1>7, <1>8

\* A step of the host that takes a line it cannot use, or one it only answers.
LEMMA AskKeeps ==
  ASSUME IInv, HostTakes, UNCHANGED Control, UNCHANGED <<notary, records, closing>>,
         end' = end \/ end' \notin Causes,
         OnBroken(Head(b2h)) \/ OnBrokenTerm(Head(b2h)) \/ NoAsk
  PROVE IInv'
<1>1. Books' /\ LinesStayTrue
  BY EndKeeps DEF IInv
<1>2. PICK a \in ToBoard : /\ a.type \in {"SIGNGET", "RECGET", "TERMGET"}
                           /\ SendToBoard(a) \/ h2b' = h2b
  BY AskedAgain, HeardIsTrue DEF IInv
<1>3. ReplyIsTrue(a)'
  BY <1>2 DEF ReplyIsTrue
<1>. QED BY <1>1, <1>2, <1>3, AnswerKeeps

\* HostIdent.
LEMMA IdentKeeps ==
  ASSUME IInv, HostIdent
  PROVE IInv'
<1>. DEFINE a == Reply("IDENTACK", 0)
<1>1. HostTakes /\ UNCHANGED Control /\ UNCHANGED <<notary, records, closing, end>>
  BY DEF HostIdent, Control, board
<1>2. Books' /\ LinesStayTrue
  BY <1>1, EndKeeps DEF IInv
<1>3. SendToBoard(a) \/ h2b' = h2b
  BY DEF HostIdent, Ack, Silent
<1>4. a \in ToBoard /\ a.type = "IDENTACK"
  BY DEF Reply, ToBoard, HostTypes
<1>5. ReplyIsTrue(a)'
  BY <1>4 DEF ReplyIsTrue
<1>. HIDE DEF a
<1>. QED BY <1>1, <1>2, <1>3, <1>4, <1>5, AnswerKeeps

\* HostSign: the notary's chain grows by the seq the board is at.
LEMMA SignKeeps ==
  ASSUME IInv, HostSign
  PROVE IInv'
<1>. DEFINE m == Head(b2h)
<1>1. HostTakes /\ Books /\ UNCHANGED <<stage, seq, outcome, confirmed, why, records, closing, end>>
  BY DEF IInv, HostSign, board
<1>2. PICK answer \in {"SIGNOK", "SIGNREF"} :
        /\ m.type = "SIGNREQ" /\ SignFault(m) = "none" /\ m.seq = signed + 1
        /\ notary' = Append(notary, answer) /\ SendToBoard(Reply(answer, m.seq))
  BY DEF HostSign
<1>3. m \in ToHost /\ LineIsTrue(m)
  BY <1>1, HeardIsTrue
<1>. HIDE DEF m
<1>4. signed + 1 <= seq /\ seq \in Nat /\ Len(notary) \in Nat /\ Len(records) \in Nat /\ Len(confirmed) \in Nat
  BY <1>1, <1>2, <1>3 DEF LineIsTrue, Books, BooksTyped, signed
<1>5. recorded = signed
  BY <1>1, <1>2, <1>4 DEF SignFault, Pending, Books, InOrder, signed, recorded
<1>6. /\ notary' \in Seq({"SIGNOK", "SIGNREF"}) /\ Len(notary') = Len(notary) + 1
      /\ \A i \in 1 .. Len(notary) : notary'[i] = notary[i]
      /\ notary'[Len(notary) + 1] = answer
  BY <1>1, <1>2 DEF Books, BooksTyped
<1>7. Books'
  <2>1. BooksTyped' /\ InOrder' /\ WhyFits'
    BY <1>1, <1>4, <1>5, <1>6 DEF Books, BooksTyped, InOrder, WhyFits, Causes, signed, recorded
  <2>2. StageFits' /\ OutcomeFits'
    BY <1>1, <1>4, <1>6 DEF Books, StageFits, OutcomeFits, Told, signed
  <2>3. DOMAIN records = 1 .. Len(notary)
    BY <1>1, <1>5 DEF Books, BooksTyped, signed, recorded
  <2>4. RecordMatchesNotary'
    BY <1>1, <1>6, <2>3 DEF Books, RecordMatchesNotary, recorded
  <2>. QED BY <2>1, <2>2, <2>4 DEF Books
<1>8. LinesStayTrue
  <2>1. \A x \in ToHost : LineIsTrue(x) => LineIsTrue(x)'
    BY <1>1 DEF LineIsTrue, Told
  <2>2. \A x \in ToBoard : ReplyIsTrue(x) => ReplyIsTrue(x)'
    BY <1>1, <1>4, <1>6 DEF ReplyIsTrue, signed, recorded, ToBoard
  <2>. QED BY <2>1, <2>2 DEF LinesStayTrue
<1>9. PICK a \in ToBoard : SendToBoard(a) /\ a.type = answer /\ a.seq = Len(notary) + 1
  BY <1>2, <1>4 DEF Reply, ToBoard, HostTypes, signed
<1>10. ReplyIsTrue(a)'
  BY <1>4, <1>6, <1>9 DEF ReplyIsTrue, signed
<1>. QED BY <1>1, <1>7, <1>8, <1>9, <1>10, AnswerKeeps

\* HostReplay: the cached answer is the notary's.
LEMMA ReplayKeeps ==
  ASSUME IInv, HostReplay
  PROVE IInv'
<1>. DEFINE m == Head(b2h)
<1>1. HostTakes /\ UNCHANGED Control /\ UNCHANGED <<notary, records, closing, end>>
  BY DEF HostReplay, Control, board
<1>2. Books' /\ LinesStayTrue
  BY <1>1, EndKeeps DEF IInv
<1>3. /\ SendToBoard(Reply(notary[m.seq], m.seq)) \/ h2b' = h2b
      /\ m.seq \in 1 .. signed
  BY DEF HostReplay, Ack, Silent
<1>. HIDE DEF m
<1>4. notary \in Seq({"SIGNOK", "SIGNREF"}) /\ notary' = notary
  BY <1>1 DEF IInv, Books, BooksTyped
<1>5. notary[m.seq] \in {"SIGNOK", "SIGNREF"} /\ m.seq \in Nat
  BY <1>3, <1>4 DEF signed
<1>6. PICK a \in ToBoard : /\ SendToBoard(a) \/ h2b' = h2b
                           /\ a.type = notary[m.seq] /\ a.seq = m.seq
  BY <1>3, <1>5 DEF Reply, ToBoard, HostTypes
<1>7. ReplyIsTrue(a)'
  BY <1>3, <1>4, <1>5, <1>6 DEF ReplyIsTrue, signed
<1>. QED BY <1>1, <1>2, <1>6, <1>7, AnswerKeeps

\* HostRecord: the next record is the one the board is waiting on.
LEMMA RecKeeps ==
  ASSUME IInv, HostRecord
  PROVE IInv'
<1>. DEFINE m == Head(b2h)
<1>1. HostTakes /\ Books /\ UNCHANGED <<stage, seq, outcome, confirmed, why, notary, closing, end>>
  BY DEF IInv, HostRecord, board
<1>2. m.type = "REC" /\ NextRec(m) /\ records' = Append(records, m.body) /\ SendToBoard(Reply("RECACK", m.seq))
  BY DEF HostRecord
<1>3. m \in ToHost /\ LineIsTrue(m)
  BY <1>1, HeardIsTrue
<1>. HIDE DEF m
<1>4. /\ m.seq \in 1 .. seq /\ m.body \in Outcomes /\ Told(m.seq, m.body)
      /\ m.seq = signed /\ m.seq = recorded + 1
  BY <1>2, <1>3 DEF LineIsTrue, NextRec
<1>5. /\ Len(records) \in Nat /\ Len(confirmed) \in Nat /\ Len(notary) \in Nat /\ seq \in Nat
      /\ DOMAIN records = 1 .. Len(records) /\ DOMAIN confirmed = 1 .. Len(confirmed)
  BY <1>1 DEF Books, BooksTyped
<1>6. m.seq = seq /\ m.body = outcome /\ seq = Len(confirmed) + 1 /\ seq = Len(records) + 1 /\ seq = Len(notary)
  BY <1>1, <1>4, <1>5 DEF Told, Books, InOrder, signed, recorded
<1>7. /\ records' \in Seq(Outcomes) /\ Len(records') = seq
      /\ DOMAIN records' = 1 .. seq
      /\ \A i \in 1 .. seq - 1 : records'[i] = records[i]
      /\ records'[seq] = outcome
  BY <1>1, <1>2, <1>4, <1>5, <1>6 DEF Books, BooksTyped
<1>8. BooksTyped' /\ StageFits' /\ WhyFits'
  BY <1>1, <1>7 DEF Books, BooksTyped, StageFits, WhyFits, signed
<1>9. InOrder'
  BY <1>1, <1>5, <1>6, <1>7 DEF Books, InOrder, signed, recorded
<1>10. OutcomeFits'
  <2>1. \A i \in 1 .. seq : Told(i, records'[i])
    <3>1. \A i \in 1 .. seq - 1 : Told(i, records[i])
      <4>1. \A i \in DOMAIN records : Told(i, records[i])
        BY <1>1 DEF Books, OutcomeFits
      <4>2. DOMAIN records = 1 .. seq - 1
        <5>. DEFINE n == Len(records)
        <5>1. n \in Nat /\ seq = n + 1 /\ DOMAIN records = 1 .. n
          BY <1>5, <1>6
        <5>. HIDE DEF n
        <5>. QED BY <5>1
      <4>. QED BY <4>1, <4>2
    <3>2. Told(seq, records'[seq])
      BY <1>5, <1>6, <1>7 DEF Told
    <3>. QED BY <1>5, <1>7, <3>1, <3>2
  <2>2. \A i \in DOMAIN records' : Told(i, records[i])'
    BY <1>1, <1>7, <2>1 DEF Told
  <2>. QED BY <1>1, <2>2 DEF Books, OutcomeFits, signed
<1>11. RecordMatchesNotary'
  <2>1. \A i \in 1 .. seq - 1 : confirmed[i] \in Plain /\ records[i] = confirmed[i]
    <3>1. DOMAIN confirmed = 1 .. seq - 1 /\ \A i \in 1 .. seq - 1 : i < seq
      BY <1>5, <1>6
    <3>2. \A i \in DOMAIN confirmed : i < seq => confirmed[i] \in Plain
      BY <1>1 DEF Books, OutcomeFits
    <3>3. \A i \in DOMAIN confirmed : confirmed[i] = records[i]
      BY <1>1 DEF Books, InOrder
    <3>. QED BY <3>1, <3>2, <3>3
  <2>2. \A i \in 1 .. seq - 1 : /\ records[i] = "SCORED" => notary[i] = "SIGNOK"
                                /\ records[i] = "REFUSED_BY_GATE" => notary[i] = "SIGNREF"
                                /\ records[i] \in Plain
    BY <1>1, <1>5, <1>6, <2>1 DEF Books, RecordMatchesNotary
  <2>3. /\ outcome \in {"SCORED", "STOP_DEVICE"} => notary[seq] = "SIGNOK"
        /\ outcome = "REFUSED_BY_GATE" => notary[seq] = "SIGNREF"
    BY <1>1 DEF Books, OutcomeFits
  <2>4. ASSUME NEW i \in 1 .. seq
        PROVE /\ records'[i] \in {"SCORED", "STOP_DEVICE"} => notary[i] = "SIGNOK"
              /\ records'[i] = "REFUSED_BY_GATE" => notary[i] = "SIGNREF"
              /\ records'[i] \in {"STOP_SIGN", "STOP_DEVICE"} => i = seq
    BY <1>5, <1>7, <2>2, <2>3 DEF Plain
  <2>. QED BY <1>1, <1>7, <2>4 DEF RecordMatchesNotary, recorded
<1>12. Books'
  BY <1>8, <1>9, <1>10, <1>11 DEF Books
<1>13. LinesStayTrue
  <2>1. \A x \in ToHost : LineIsTrue(x) => LineIsTrue(x)'
    BY <1>1 DEF LineIsTrue, Told
  <2>2. \A x \in ToBoard : ReplyIsTrue(x) => ReplyIsTrue(x)'
    BY <1>1, <1>5, <1>6, <1>7 DEF ReplyIsTrue, signed, recorded, ToBoard
  <2>. QED BY <2>1, <2>2 DEF LinesStayTrue
<1>14. PICK a \in ToBoard : SendToBoard(a) /\ a.type = "RECACK" /\ a.seq = seq
  BY <1>2, <1>5, <1>6 DEF Reply, ToBoard, HostTypes
<1>15. ReplyIsTrue(a)'
  BY <1>5, <1>7, <1>14 DEF ReplyIsTrue, recorded
<1>. QED BY <1>1, <1>12, <1>13, <1>14, <1>15, AnswerKeeps

\* HostRecordAgain: only a record the host has is acknowledged again.
LEMMA RecAgainKeeps ==
  ASSUME IInv, HostRecordAgain
  PROVE IInv'
<1>. DEFINE m == Head(b2h)
<1>1. HostTakes /\ UNCHANGED Control /\ UNCHANGED <<notary, records, closing, end>>
  BY DEF HostRecordAgain, Control, board
<1>2. Books' /\ LinesStayTrue
  BY <1>1, EndKeeps DEF IInv
<1>3. (SendToBoard(Reply("RECACK", m.seq)) \/ h2b' = h2b) /\ m.seq = recorded
  BY DEF HostRecordAgain, RepeatedRec, Ack, Silent
<1>. HIDE DEF m
<1>4. recorded \in Nat /\ records' = records
  BY <1>1 DEF IInv, Books, BooksTyped, recorded
<1>5. PICK a \in ToBoard : (SendToBoard(a) \/ h2b' = h2b) /\ a.type = "RECACK" /\ a.seq = recorded
  BY <1>3, <1>4 DEF Reply, ToBoard, HostTypes
<1>6. ReplyIsTrue(a)'
  BY <1>4, <1>5 DEF ReplyIsTrue, recorded
<1>. QED BY <1>1, <1>2, <1>5, <1>6, AnswerKeeps

\* HostTerm: the end is the board's own cause.
LEMMA TermKeeps ==
  ASSUME IInv, HostTerm
  PROVE IInv'
<1>. DEFINE m == Head(b2h)
<1>1. /\ HostTakes /\ Books
      /\ UNCHANGED <<stage, seq, outcome, confirmed, why, notary, records>>
  BY DEF IInv, HostTerm, board
<1>2. m.type = "TERM" /\ end' = m.body /\ closing' = (closing \/ m.body = "COMPLETED")
  BY DEF HostTerm, Finish, DeliverTerm
<1>3. SendToBoard(Reply("TERMACK", m.seq)) \/ h2b' = h2b
  BY DEF HostTerm, Ack, Silent
<1>4. m \in ToHost /\ LineIsTrue(m)
  BY <1>1, HeardIsTrue
<1>. HIDE DEF m
<1>5. end' = why /\ (why = "COMPLETED" => closing')
  BY <1>2, <1>4 DEF LineIsTrue
<1>6. Books'
  BY <1>1, <1>5 DEF Books, BooksTyped, InOrder, StageFits, OutcomeFits, RecordMatchesNotary, WhyFits, Told, signed, recorded
<1>7. LinesStayTrue
  BY <1>1 DEF LinesStayTrue, LineIsTrue, ReplyIsTrue, Told, signed, recorded
<1>8. PICK a \in ToBoard : (SendToBoard(a) \/ h2b' = h2b) /\ a.type = "TERMACK"
  BY <1>3, <1>4 DEF Reply, ToBoard, HostTypes, ToHost
<1>9. ReplyIsTrue(a)'
  BY <1>8 DEF ReplyIsTrue
<1>. QED BY <1>1, <1>6, <1>7, <1>8, <1>9, AnswerKeeps

\* HostAfterEnd only answers the board's TERM.
LEMMA AfterEndKeeps ==
  ASSUME IInv, HostAfterEnd
  PROVE IInv'
<1>. DEFINE m == Head(b2h)
<1>1. HostTakes /\ UNCHANGED Control /\ UNCHANGED <<notary, records, closing, end>>
  BY DEF HostAfterEnd, Control, board
<1>2. CASE SendToBoard(Reply("TERMACK", m.seq))
  <2>1. m.seq \in Nat
    BY <1>1, HeardIsTrue DEF ToHost
  <2>. HIDE DEF m
  <2>2. PICK a \in ToBoard : SendToBoard(a) /\ a.type = "TERMACK"
    BY <1>2, <2>1 DEF Reply, ToBoard, HostTypes
  <2>3. ReplyIsTrue(a)'
    BY <2>2 DEF ReplyIsTrue
  <2>4. Books' /\ LinesStayTrue
    BY <1>1, EndKeeps DEF IInv
  <2>. QED BY <1>1, <2>2, <2>3, <2>4, AnswerKeeps
<1>3. CASE h2b' = h2b
  <2>1. Books' /\ LinesStayTrue
    BY <1>1, EndKeeps DEF IInv
  <2>2. Reply("TERMACK", 0) \in ToBoard /\ Reply("TERMACK", 0).type = "TERMACK"
    BY DEF Reply, ToBoard, HostTypes
  <2>3. ReplyIsTrue(Reply("TERMACK", 0))'
    BY <2>2 DEF ReplyIsTrue
  <2>. QED BY <1>1, <1>3, <2>1, <2>2, <2>3, AnswerKeeps
<1>4. CASE OnBrokenTerm(m)
  BY <1>1, <1>4, AskKeeps
<1>. QED BY <1>2, <1>3, <1>4 DEF HostAfterEnd, Ack, Silent

\* HostProtocol, HostClose, HostCrcFailed and HostMalformed.
LEMMA OtherLineKeeps ==
  ASSUME IInv, HostProtocol \/ HostClose \/ HostCrcFailed \/ HostMalformed
  PROVE IInv'
<1>1. HostTakes /\ Books /\ UNCHANGED <<stage, seq, outcome, confirmed, why, notary, records>>
  BY DEF IInv, HostProtocol, HostClose, HostCrcFailed, HostMalformed, board
<1>2. UNCHANGED Control
  BY <1>1 DEF Control
<1>3. Reply("TERMACK", 0) \in ToBoard /\ Reply("TERMACK", 0).type = "TERMACK"
  BY DEF Reply, ToBoard, HostTypes
<1>4. ReplyIsTrue(Reply("TERMACK", 0))'
  BY <1>3 DEF ReplyIsTrue
<1>5. CASE HostProtocol
  <2>1. h2b' = h2b /\ closing' = closing /\ end' \notin Causes
    BY <1>5 DEF HostProtocol, Finish, SignFault, Causes
  <2>2. Books' /\ LinesStayTrue
    BY <1>1, <1>2, <2>1, EndKeeps
  <2>. QED BY <1>1, <1>3, <1>4, <2>1, <2>2, AnswerKeeps
<1>6. CASE HostClose
  <2>1. h2b' = h2b /\ closing' = TRUE /\ end' = end
    BY <1>6 DEF HostClose
  <2>2. Books'
    BY <1>1, <2>1 DEF Books, BooksTyped, InOrder, StageFits, OutcomeFits, RecordMatchesNotary, WhyFits, Told, signed, recorded
  <2>3. LinesStayTrue
    BY <1>1 DEF LinesStayTrue, LineIsTrue, ReplyIsTrue, Told, signed, recorded
  <2>. QED BY <1>1, <1>3, <1>4, <2>1, <2>2, <2>3, AnswerKeeps
<1>7. CASE HostCrcFailed
  <2>1. closing' = closing /\ (end' = end \/ end' \notin Causes) /\ (OnBroken(Head(b2h)) \/ NoAsk)
    BY <1>7 DEF HostCrcFailed, Finish, Causes
  <2>. QED BY <1>1, <1>2, <2>1, AskKeeps
<1>8. CASE HostMalformed
  <2>1. closing' = closing /\ (end' = end \/ end' \notin Causes) /\ (OnBroken(Head(b2h)) \/ NoAsk)
    BY <1>8 DEF HostMalformed, Finish, Causes
  <2>. QED BY <1>1, <1>2, <2>1, AskKeeps
<1>. QED BY <1>5, <1>6, <1>7, <1>8

\* HostSilence and HostBanner.
LEMMA PollKeeps ==
  ASSUME IInv, HostSilence \/ HostBanner
  PROVE IInv'
<1>1. UNCHANGED Control /\ UNCHANGED <<notary, records, closing, b2h, h2b>> /\ end' \notin Causes
  BY DEF HostSilence, HostBanner, Finish, Causes, Control, board
<1>2. Books' /\ LinesStayTrue
  BY <1>1, EndKeeps DEF IInv
<1>. QED BY <1>1, <1>2, AloneKeeps

-----------------------------------------------------------------------------
(* Theorems.                                                                *)

\* No line is in flight before the first step, and nothing is recorded.
LEMMA InitIInv == SessionAssumption /\ Init => IInv
<1>. SUFFICES ASSUME SessionAssumption, Init PROVE IInv
  OBVIOUS
<1>1. Lines(b2h) = {} /\ Lines(h2b) = {}
  BY DEF Init, Lines
<1>2. BooksTyped /\ LinesTyped
  BY DEF Init, BooksTyped, LinesTyped, Stages, TxStages
<1>3. InOrder /\ RecordMatchesNotary
  BY DEF Init, InOrder, RecordMatchesNotary, signed, recorded
<1>4. StageFits
  BY DEF Init, StageFits, SessionAssumption
<1>5. OutcomeFits /\ WhyFits
  BY DEF Init, OutcomeFits, WhyFits, Causes
<1>. QED BY <1>1, <1>2, <1>3, <1>4, <1>5 DEF IInv, Books, InFlight

\* Every step keeps the inductive invariant.
LEMMA NextIInv == SessionAssumption /\ IInv /\ [Next]_vars => IInv'
<1>. SUFFICES ASSUME SessionAssumption, IInv, [Next]_vars PROVE IInv'
  OBVIOUS
<1>1. CASE BoardNext
  BY <1>1, SendKeeps, AckKeeps, HearKeeps, InsideKeeps, CloseKeeps DEF BoardNext
<1>2. CASE BoardReset
  BY <1>2, InsideKeeps
<1>3. CASE HostNext
  BY <1>3, IdentKeeps, SignKeeps, ReplayKeeps, RecKeeps, RecAgainKeeps, TermKeeps, AfterEndKeeps,
     OtherLineKeeps, PollKeeps DEF HostNext
<1>4. CASE UNCHANGED vars
  <2>1. UNCHANGED Control /\ UNCHANGED HostBooks /\ UNCHANGED <<b2h, h2b>>
    BY <1>4 DEF vars, board, host, Control, HostBooks
  <2>2. Books' /\ LinesStayTrue
    BY <2>1, StayKeeps DEF IInv
  <2>. QED BY <2>1, <2>2, AloneKeeps
<1>. QED BY <1>1, <1>2, <1>3, <1>4 DEF Next, Over

\* The inductive invariant holds of every session.
LEMMA Inductive == Spec => []IInv
<1>1. Init => IInv
  BY InitIInv, SessionAssumption
<1>2. IInv /\ [Next]_vars => IInv'
  BY NextIInv, SessionAssumption
<1>. QED BY <1>1, <1>2, PTL DEF Spec

\* Every variable the books rest on keeps its type, for any session.
THEOREM TypeCorrect == Spec => []TypeOK
<1>1. IInv => TypeOK
  BY DEF IInv, Books, TypeOK
<1>. QED BY <1>1, Inductive, PTL

\* The board never moves on from a record the host does not have, and both
\* hold the same, whatever the link loses, breaks, repeats or delays.
THEOREM Ordered == Spec => []InOrder
<1>1. IInv => InOrder
  BY DEF IInv, Books
<1>. QED BY <1>1, Inductive, PTL

\* Every record says what the notary answered to that very seq.
THEOREM RecordsMatch == Spec => []RecordMatchesNotary
<1>1. IInv => RecordMatchesNotary
  BY DEF IInv, Books
<1>. QED BY <1>1, Inductive, PTL

\* The TERM the host ends on tells the truth about the host's own books.
THEOREM TermIsTrue == Spec => []TermTellsTheTruth
<1>1. ASSUME IInv PROVE TermTellsTheTruth
  <2>1. Books /\ Len(confirmed) \in Nat /\ recorded \in Nat /\ signed \in Nat /\ seq \in Nat /\ NCand \in Nat
    BY <1>1, SessionAssumption DEF IInv, Books, BooksTyped, signed, recorded, SessionAssumption
  <2>2. ASSUME end = "COMPLETED"
        PROVE /\ recorded = NCand /\ records = confirmed /\ closing
              /\ \A i \in DOMAIN records : records[i] \notin {"STOP_SIGN", "STOP_DEVICE"}
    <3>1. why = "COMPLETED" /\ seq = NCand /\ Len(confirmed) = NCand /\ outcome \in Plain /\ closing
      BY <2>1, <2>2 DEF Books, WhyFits, Causes
    <3>2. recorded = NCand
      BY <2>1, <3>1 DEF Books, InOrder
    <3>3. confirmed \in Seq(Outcomes) /\ records \in Seq(Outcomes) /\ Len(records) = Len(confirmed)
      BY <2>1, <3>1, <3>2 DEF Books, BooksTyped, recorded
    <3>4. \A i \in 1 .. Len(confirmed) : confirmed[i] = records[i]
      BY <2>1, <3>3 DEF Books, InOrder
    <3>5. records = confirmed
      BY <3>3, <3>4
    <3>6. \A i \in DOMAIN confirmed : confirmed[i] \in Plain
      <4>1. \A i \in DOMAIN confirmed : i < seq => confirmed[i] \in Plain
        BY <2>1 DEF Books, OutcomeFits
      <4>2. NCand >= 1 /\ outcome = confirmed[seq]
        BY <2>1, <3>1, SessionAssumption DEF Books, OutcomeFits, SessionAssumption
      <4>3. ASSUME NEW i \in DOMAIN confirmed PROVE i < seq \/ i = seq
        BY <2>1, <3>1, <3>3
      <4>. QED BY <3>1, <4>1, <4>2, <4>3
    <3>. QED BY <3>1, <3>2, <3>5, <3>6 DEF Plain
  <2>3. end \in Causes => seq - recorded <= 1
    BY <2>1 DEF Books, InOrder
  <2>4. end \in {"STOP_IDENT", "IDENT_REFUSED"} => signed = 0
    <3>1. end \in {"STOP_IDENT", "IDENT_REFUSED"} => end = why /\ seq = 0
      BY <2>1 DEF Books, WhyFits, Causes
    <3>. QED BY <2>1, <3>1 DEF Books, InOrder
  <2>5. end = "STOP_REC" => Len(confirmed) = seq - 1
    BY <2>1 DEF Books, WhyFits, Causes
  <2>. QED BY <2>2, <2>3, <2>4, <2>5 DEF TermTellsTheTruth
<1>2. IInv => TermTellsTheTruth
  BY <1>1
<1>. QED BY <1>2, Inductive, PTL

-----------------------------------------------------------------------------
(* The refinement: every step of the session is a step of module Handover,  *)
(* or none of its state changes.                                            *)

HandedOver == <<notary, records, confirmed>>

\* A new signature is an answer to the one candidate that is open.
LEMMA SignIsAnswer ==
  ASSUME SessionAssumption, IInv, HostSign
  PROVE Promise!Answer
<1>. DEFINE m == Head(b2h)
<1>1. HostTakes /\ Books /\ UNCHANGED <<records, confirmed>>
  BY DEF IInv, HostSign, board
<1>2. /\ m.type = "SIGNREQ" /\ SignFault(m) = "none" /\ m.seq = signed + 1
      /\ \E answer \in {"SIGNOK", "SIGNREF"} : notary' = Append(notary, answer)
  BY DEF HostSign
<1>3. m.seq \in 1 .. seq /\ ~(Pending /\ m.seq # signed)
  BY <1>1, <1>2, HeardIsTrue DEF LineIsTrue, SignFault
<1>. HIDE DEF m
<1>4. /\ Len(notary) \in Nat /\ Len(records) \in Nat /\ Len(confirmed) \in Nat /\ seq \in Nat
      /\ DOMAIN confirmed = 1 .. Len(confirmed)
  BY <1>1 DEF Books, BooksTyped
<1>5. Len(notary) = Len(confirmed) /\ seq = Len(confirmed) + 1 /\ seq <= NCand
  <2>1. signed + 1 <= seq /\ signed \in Nat /\ recorded \in Nat
    BY <1>2, <1>3, <1>4 DEF signed, recorded
  <2>2. signed = recorded
    BY <1>1, <1>2, <1>3, <2>1 DEF Books, InOrder, Pending
  <2>3. Len(confirmed) <= signed /\ seq <= Len(confirmed) + 1 /\ seq <= NCand
    BY <1>1, <2>2 DEF Books, InOrder, StageFits
  <2>4. signed = Len(confirmed) /\ seq = Len(confirmed) + 1
    <3>. DEFINE n == Len(confirmed)
    <3>1. n \in Nat /\ seq \in Nat /\ signed \in Nat /\ n <= signed /\ signed + 1 <= seq /\ seq <= n + 1
      BY <1>4, <2>1, <2>3
    <3>. HIDE DEF n
    <3>2. signed = n /\ seq = n + 1
      BY <3>1
    <3>. QED BY <3>2 DEF n
  <2>. QED BY <2>3, <2>4 DEF signed
<1>6. \A i \in DOMAIN confirmed : confirmed[i] \notin {"STOP_SIGN", "STOP_DEVICE"}
  <2>1. \A i \in DOMAIN confirmed : i < seq => confirmed[i] \in Plain
    BY <1>1 DEF Books, OutcomeFits
  <2>2. \A i \in DOMAIN confirmed : i < seq
    BY <1>4, <1>5
  <2>. QED BY <2>1, <2>2 DEF Plain
<1>7. Len(notary) < NCand
  <2>1. \A k \in Nat, n \in Nat : k + 1 <= n => k < n
    OBVIOUS
  <2>2. Len(confirmed) + 1 <= NCand /\ NCand \in Nat
    BY <1>5, SessionAssumption DEF SessionAssumption
  <2>. QED BY <1>4, <1>5, <2>1, <2>2
<1>. QED BY <1>1, <1>2, <1>5, <1>6, <1>7 DEF Promise!Answer, Promise!Stops

\* A new record is a record of the answered candidate, and fits the answer.
LEMMA RecIsRecord ==
  ASSUME IInv, IInv', HostRecord
  PROVE Promise!Record
<1>. DEFINE m == Head(b2h)
<1>1. HostTakes /\ Books /\ UNCHANGED <<notary, confirmed>>
  BY DEF IInv, HostRecord, board
<1>2. m.type = "REC" /\ m.seq = signed /\ m.seq = recorded + 1 /\ records' = Append(records, m.body)
  BY DEF HostRecord, NextRec
<1>3. m.body \in Outcomes
  BY <1>1, <1>2, HeardIsTrue DEF LineIsTrue
<1>. DEFINE o == m.body
<1>. HIDE DEF o, m
<1>4. Len(records) \in Nat /\ records \in Seq(Outcomes) /\ notary \in Seq({"SIGNOK", "SIGNREF"})
  BY <1>1 DEF Books, BooksTyped
<1>5. Len(records) < Len(notary) /\ Len(records) + 1 \in 1 .. Len(notary)
  BY <1>2, <1>4 DEF signed, recorded
<1>6. /\ records' = Append(records, o) /\ o \in Outcomes
      /\ Len(records') = Len(records) + 1 /\ records'[Len(records) + 1] = o
      /\ Len(records) + 1 \in DOMAIN records'
  BY <1>2, <1>3, <1>4 DEF o
<1>7. /\ o \in {"SCORED", "STOP_DEVICE"} => notary[Len(records) + 1] = "SIGNOK"
      /\ o = "REFUSED_BY_GATE" => notary[Len(records) + 1] = "SIGNREF"
  <2>1. RecordMatchesNotary'
    BY DEF IInv, Books
  <2>. QED BY <1>1, <1>6, <2>1 DEF RecordMatchesNotary
<1>8. notary[Len(records) + 1] \in {"SIGNOK", "SIGNREF"}
  BY <1>4, <1>5
<1>9. o \in Promise!Fitting[notary[Len(records) + 1]]
  BY <1>6, <1>7, <1>8 DEF Promise!Fitting, Promise!Stops, Outcomes
<1>. QED BY <1>1, <1>5, <1>6, <1>9 DEF Promise!Record

\* An acknowledged record is confirmed to the board; no other acknowledgement
\* confirms anything.
LEMMA AckIsConfirm ==
  ASSUME SessionAssumption, IInv, BoardRecvAck
  PROVE Promise!Confirm \/ UNCHANGED HandedOver
<1>. DEFINE m == Head(h2b)
<1>1. Books /\ stage \in TxStages /\ h2b # << >> /\ UNCHANGED <<notary, records>>
  BY DEF IInv, BoardRecvAck, Receiving, host
<1>2. /\ ReplyIsTrue(m) /\ m.seq = TxSeq /\ m.type \in AckTypes[stage]
      /\ Acknowledged(m, Tail(h2b))
  BY <1>1, HeadIsTrue DEF BoardRecvAck, LineOfTx
<1>. HIDE DEF m
<1>3. CASE stage = "rec"
  <2>1. m.seq = seq /\ m.type = "RECACK" /\ confirmed' = Append(confirmed, outcome)
    BY <1>2, <1>3 DEF TxSeq, AckTypes, Acknowledged
  <2>2. /\ Len(confirmed) \in Nat /\ Len(records) \in Nat /\ seq = Len(confirmed) + 1 /\ seq <= Len(records)
        /\ DOMAIN records = 1 .. Len(records)
    BY <1>1, <1>2, <1>3, <2>1 DEF ReplyIsTrue, Books, BooksTyped, StageFits, recorded
  <2>3. records[seq] = outcome
    <3>1. seq \in DOMAIN records /\ \A i \in DOMAIN records : Told(i, records[i])
      BY <1>1, <2>2 DEF Books, OutcomeFits
    <3>. QED BY <3>1 DEF Told
  <2>. QED BY <1>1, <2>1, <2>2, <2>3 DEF Promise!Confirm
<1>4. CASE stage # "rec"
  <2>1. UNCHANGED confirmed
    BY <1>1, <1>2, <1>4 DEF Acknowledged, TxStages
  <2>. QED BY <1>1, <2>1 DEF HandedOver
<1>. QED BY <1>3, <1>4

\* Out of attempts, and every step that may end there, hands nothing over.
LEMMA ResendHandsNothing ==
  ASSUME stage \in TxStages, NEW p, ResendOrExhaust(p) \/ Ignored(p)
  PROVE UNCHANGED confirmed
BY DEF ResendOrExhaust, Ignored, Exhausted

\* Every step of the session is one of the promise's.
LEMMA StepIsPromised ==
  ASSUME SessionAssumption, IInv, IInv', [Next]_vars
  PROVE Promise!Next \/ UNCHANGED HandedOver
<1>1. CASE BoardNext \/ BoardReset
  <2>1. UNCHANGED <<notary, records>>
    BY <1>1 DEF BoardNext, BoardReset, BoardSend, BoardRecvAck, BoardRecvGet, BoardRecvRecAckInSign,
       BoardRecvForeign, BoardBound, BoardWork, BoardClose, host
  <2>2. CASE BoardRecvAck
    BY <2>2, AckIsConfirm DEF Promise!Next
  <2>3. CASE BoardSend \/ BoardWork \/ BoardClose \/ BoardReset
    BY <2>1, <2>3 DEF BoardSend, BoardWork, BoardClose, BoardReset, HandedOver
  <2>4. CASE BoardRecvGet \/ BoardRecvForeign \/ BoardBound
    <3>1. stage \in TxStages /\ (ResendOrExhaust(prevAcks) \/ Ignored(prevAcks))
      BY <2>4 DEF BoardRecvGet, BoardRecvForeign, BoardBound, Receiving
    <3>. QED BY <2>1, <3>1, ResendHandsNothing DEF HandedOver
  <2>5. CASE BoardRecvRecAckInSign
    <3>1. stage \in TxStages /\ (Ignored(prevAcks + 1) \/ UNCHANGED confirmed)
      BY <2>5 DEF BoardRecvRecAckInSign, Receiving
    <3>. QED BY <2>1, <3>1, ResendHandsNothing DEF HandedOver
  <2>. QED BY <1>1, <2>2, <2>3, <2>4, <2>5 DEF BoardNext
<1>2. CASE HostSign
  BY <1>2, SignIsAnswer DEF Promise!Next
<1>3. CASE HostRecord
  BY <1>3, RecIsRecord DEF Promise!Next
<1>4. CASE HostIdent \/ HostReplay \/ HostRecordAgain \/ HostProtocol \/ HostClose \/ HostTerm
  BY <1>4 DEF HostIdent, HostReplay, HostRecordAgain, HostProtocol, HostClose, HostTerm, board, HandedOver
<1>5. CASE HostCrcFailed \/ HostMalformed \/ HostAfterEnd \/ HostSilence \/ HostBanner
  BY <1>5 DEF HostCrcFailed, HostMalformed, HostAfterEnd, HostSilence, HostBanner, board, HandedOver
<1>6. CASE UNCHANGED vars
  BY <1>6 DEF vars, board, host, HandedOver
<1>. QED BY <1>1, <1>2, <1>3, <1>4, <1>5, <1>6 DEF Next, HostNext, Over

\* The session implements its promise: each candidate is answered, recorded
\* and confirmed once and in that order, for any number of candidates and any
\* number of lost, broken, repeated and late lines.
THEOREM Implements == Spec => KeepsPromise
<1>1. Init => Promise!Init
  BY DEF Init, Promise!Init
<1>2. IInv /\ IInv' /\ [Next]_vars => [Promise!Next]_(Promise!vars)
  BY StepIsPromised, SessionAssumption DEF HandedOver, Promise!vars
<1>. QED BY <1>1, <1>2, Inductive, PTL DEF Spec, KeepsPromise, Promise!Spec

-----------------------------------------------------------------------------
(* The order of the lines on the link.                                      *)

\* Lines of the types Ts are in the order of their seqs.
InSeqOrder(q, Ts) ==
  \A i, j \in DOMAIN q : i < j /\ q[i].type \in Ts /\ q[j].type \in Ts => q[i].seq <= q[j].seq

Numbered == {"SIGNREQ", "REC"}
RecReplies == {"RECACK", "RECGET"}
OrderCauses == {"PROTOCOL_REC", "PROTOCOL_IDENT", "PROTOCOL_SEQ"}

\* A SIGNREQ or a REC still on its way is not older than the last signature,
\* and no candidate is asked for before the identity.
LineOrder ==
  /\ InSeqOrder(b2h, Numbered)
  /\ \A m \in Lines(b2h) : m.type \in Numbered => m.seq >= signed
  /\ \A m \in Lines(h2b) : m.type = "IDENTACK" => ident = "established"
  /\ seq >= 1 => ident = "established"

\* The host ended over the order of the frames for the one reason there is.
EndFits == end \in OrderCauses => end = "PROTOCOL_REC" /\ outcome = "STOP_SIGN" /\ signed < seq

\* A line added behind lines that are not newer keeps the order.
LEMMA OrderAppend ==
  ASSUME NEW T, NEW q \in Seq(T), NEW m \in T, NEW Ts, InSeqOrder(q, Ts),
         m.type \in Ts => \A x \in Lines(q) : x.type \in Ts => x.seq <= m.seq
  PROVE InSeqOrder(Append(q, m), Ts)
<1>1. /\ DOMAIN Append(q, m) = 1 .. Len(q) + 1 /\ DOMAIN q = 1 .. Len(q) /\ Len(q) \in Nat
      /\ \A i \in 1 .. Len(q) : Append(q, m)[i] = q[i]
      /\ Append(q, m)[Len(q) + 1] = m
  OBVIOUS
<1>. DEFINE r == Append(q, m)
<1>2. ASSUME NEW i \in 1 .. Len(q) + 1, NEW j \in 1 .. Len(q) + 1, i < j, r[i].type \in Ts, r[j].type \in Ts
      PROVE r[i].seq <= r[j].seq
  <2>1. i \in 1 .. Len(q) /\ r[i] = q[i] /\ q[i] \in Lines(q)
    BY <1>1, <1>2 DEF Lines
  <2>2. CASE j = Len(q) + 1
    <3>1. r[j] = m
      BY <1>1, <2>2
    <3>. HIDE DEF r
    <3>. QED BY <1>2, <2>1, <3>1
  <2>3. CASE j # Len(q) + 1
    <3>1. j \in 1 .. Len(q) /\ r[j] = q[j]
      BY <1>1, <2>3
    <3>. HIDE DEF r
    <3>. QED BY <1>1, <1>2, <2>1, <3>1 DEF InSeqOrder
  <2>. QED BY <2>2, <2>3
<1>. QED BY <1>1, <1>2 DEF InSeqOrder

\* One transmission: nothing, the line, a line like it, or the line twice.
LEMMA OrderSent ==
  ASSUME NEW T, NEW q \in Seq(T), NEW m \in T, NEW n \in T, NEW r, NEW Ts, InSeqOrder(q, Ts),
         m.seq \in Nat, n.type = m.type, n.seq = m.seq,
         m.type \in Ts => \A x \in Lines(q) : x.type \in Ts => x.seq <= m.seq,
         r \in {q, Append(q, m), Append(q, n), Append(Append(q, m), m)}
  PROVE InSeqOrder(r, Ts)
<1>1. InSeqOrder(Append(q, m), Ts) /\ InSeqOrder(Append(q, n), Ts)
  BY OrderAppend
<1>2. Append(q, m) \in Seq(T) /\ Lines(Append(q, m)) = Lines(q) \cup {m}
  BY LinesAppend
<1>. DEFINE p == Append(q, m)
<1>3. p \in Seq(T) /\ InSeqOrder(p, Ts) /\ \A x \in Lines(p) : x \in Lines(q) \/ x = m
  BY <1>1, <1>2
<1>. HIDE DEF p
<1>4. m.type \in Ts => \A x \in Lines(p) : x.type \in Ts => x.seq <= m.seq
  BY <1>3
<1>5. InSeqOrder(Append(p, m), Ts)
  BY <1>3, <1>4, OrderAppend
<1>. QED BY <1>1, <1>5 DEF p

\* What is left of a queue is in order, and not older than what was taken.
LEMMA OrderTail ==
  ASSUME NEW T, NEW q \in Seq(T), q # << >>, NEW Ts, InSeqOrder(q, Ts)
  PROVE /\ InSeqOrder(Tail(q), Ts)
        /\ Head(q).type \in Ts => \A x \in Lines(Tail(q)) : x.type \in Ts => Head(q).seq <= x.seq
<1>1. /\ Len(q) \in Nat /\ Len(q) >= 1 /\ DOMAIN q = 1 .. Len(q) /\ Head(q) = q[1]
      /\ DOMAIN Tail(q) = 1 .. Len(q) - 1
      /\ \A i \in 1 .. Len(q) - 1 : Tail(q)[i] = q[i + 1]
  OBVIOUS
<1>2. \A i \in 1 .. Len(q) - 1 : i + 1 \in DOMAIN q /\ 1 \in DOMAIN q /\ 1 < i + 1
  BY <1>1
<1>3. \A i, j \in 1 .. Len(q) - 1 : i < j => i + 1 < j + 1
  BY <1>1
<1>4. InSeqOrder(Tail(q), Ts)
  BY <1>1, <1>2, <1>3 DEF InSeqOrder
<1>5. ASSUME Head(q).type \in Ts, NEW i \in DOMAIN Tail(q), Tail(q)[i].type \in Ts PROVE Head(q).seq <= Tail(q)[i].seq
  BY <1>1, <1>2, <1>5 DEF InSeqOrder
<1>. QED BY <1>4, <1>5 DEF Lines

\* The same of what a flush leaves.
LEMMA OrderFlush ==
  ASSUME NEW T, NEW q \in Seq(T), NEW n \in 0 .. Len(q), NEW Ts, InSeqOrder(q, Ts)
  PROVE InSeqOrder(SubSeq(q, n + 1, Len(q)), Ts)
<1>1. /\ Len(q) \in Nat /\ DOMAIN q = 1 .. Len(q)
      /\ DOMAIN SubSeq(q, n + 1, Len(q)) = 1 .. Len(q) - n
      /\ \A i \in 1 .. Len(q) - n : SubSeq(q, n + 1, Len(q))[i] = q[n + i]
  OBVIOUS
<1>2. \A i \in 1 .. Len(q) - n : n + i \in DOMAIN q
  BY <1>1
<1>3. \A i, j \in 1 .. Len(q) - n : i < j => n + i < n + j
  BY <1>1
<1>. QED BY <1>1, <1>2, <1>3 DEF InSeqOrder

\* What a transmission to the host does to the order.
LEMMA OrderToHost ==
  ASSUME LinesTyped, NEW m \in ToHost, NEW Ts, InSeqOrder(b2h, Ts),
         SendToHost(m) \/ b2h' = Append(b2h, [m EXCEPT !.form = "crc"]),
         m.type \in Ts => \A x \in Lines(b2h) : x.type \in Ts => x.seq <= m.seq
  PROVE InSeqOrder(b2h', Ts)
<1>. DEFINE n(f) == [m EXCEPT !.form = f]
<1>1. \A f \in BadForms : n(f) \in ToHost /\ n(f).type = m.type /\ n(f).seq = m.seq
  BY DEF ToHost, Forms
<1>2. b2h \in Seq(ToHost) /\ "crc" \in BadForms /\ m.seq \in Nat
  BY DEF LinesTyped, BadForms, CrcForms, ToHost
<1>3. \E f \in BadForms : b2h' \in {b2h, Append(b2h, m), Append(b2h, n(f)), Append(Append(b2h, m), m)}
  BY <1>2 DEF SendToHost
<1>. HIDE DEF n
<1>. QED BY <1>1, <1>2, <1>3, OrderSent

\* The same of a transmission to the board.
LEMMA OrderToBoard ==
  ASSUME LinesTyped, NEW m \in ToBoard, NEW Ts, InSeqOrder(h2b, Ts), SendToBoard(m),
         m.type \in Ts => \A x \in Lines(h2b) : x.type \in Ts => x.seq <= m.seq
  PROVE InSeqOrder(h2b', Ts)
<1>. DEFINE n == [m EXCEPT !.form = "broken"]
<1>1. n \in ToBoard /\ n.type = m.type /\ n.seq = m.seq /\ m.seq \in Nat /\ h2b \in Seq(ToBoard)
  BY DEF ToBoard, LinesTyped
<1>2. h2b' \in {h2b, Append(h2b, m), Append(h2b, n), Append(Append(h2b, m), m)}
  BY DEF SendToBoard
<1>. HIDE DEF n
<1>. QED BY <1>1, <1>2, OrderSent

\* What the board leaves of its receiver: what was behind the head, or less.
Left == \/ h2b' = Tail(h2b)
        \/ \E n \in 0 .. Len(Tail(h2b)) : h2b' = SubSeq(Tail(h2b), n + 1, Len(Tail(h2b)))

\* What is left was there before, and stays in order.
LEMMA LeftKeeps ==
  ASSUME LinesTyped, h2b # << >>, Left
  PROVE /\ Lines(h2b') \subseteq Lines(Tail(h2b)) /\ Lines(h2b') \subseteq Lines(h2b)
        /\ \A Ts : InSeqOrder(h2b, Ts) => InSeqOrder(h2b', Ts)
<1>. DEFINE r == Tail(h2b)
<1>1. r \in Seq(ToBoard) /\ Lines(r) \subseteq Lines(h2b)
  BY LinesTail DEF LinesTyped
<1>2. \A Ts : InSeqOrder(h2b, Ts) => InSeqOrder(r, Ts)
  BY OrderTail DEF LinesTyped
<1>3. h2b' = r \/ \E n \in 0 .. Len(r) : h2b' = SubSeq(r, n + 1, Len(r))
  BY DEF Left
<1>. HIDE DEF r
<1>4. ASSUME NEW n \in 0 .. Len(r), h2b' = SubSeq(r, n + 1, Len(r))
      PROVE Lines(h2b') \subseteq Lines(r) /\ \A Ts : InSeqOrder(r, Ts) => InSeqOrder(h2b', Ts)
  BY <1>1, <1>4, LinesFlush, OrderFlush
<1>5. Lines(h2b') \subseteq Lines(r) /\ \A Ts : InSeqOrder(r, Ts) => InSeqOrder(h2b', Ts)
  BY <1>3, <1>4
<1>. QED BY <1>1, <1>2, <1>5 DEF r

\* BoardRecvAck starts a candidate, at the head of the loop or after a record
\* the host has, or it leaves the seq where it is.
LEMMA AckMoves ==
  ASSUME SessionAssumption, IInv, BoardRecvAck
  PROVE /\ h2b # << >> /\ Left /\ UNCHANGED <<b2h, faults>> /\ UNCHANGED host
        /\ \/ /\ stage' # "sign" /\ seq' = seq
              /\ outcome' = outcome \/ stage = "sign"
           \/ /\ stage' = "sign" /\ seq' = seq + 1 /\ prevAcks' = 0
              /\ \/ stage = "ident" /\ Head(h2b).type = "IDENTACK"
                 \/ stage = "rec" /\ Head(h2b).type = "RECACK" /\ Head(h2b).seq = seq
<1>. DEFINE m == Head(h2b)
<1>1. h2b # << >> /\ UNCHANGED <<b2h, faults>> /\ UNCHANGED host /\ stage \in TxStages
  BY DEF BoardRecvAck, Receiving, host
<1>2. m.seq = TxSeq /\ m.type \in AckTypes[stage] /\ Acknowledged(m, Tail(h2b))
  BY DEF BoardRecvAck, LineOfTx
<1>. HIDE DEF m
<1>3. CASE stage = "ident"
  <2>1. \/ StartCandidate(Tail(h2b))
        \/ StartTx("term") /\ h2b' = Tail(h2b) /\ UNCHANGED <<seq, outcome>>
    BY <1>2, <1>3 DEF Acknowledged
  <2>2. m.type = "IDENTACK"
    BY <1>2, <1>3 DEF AckTypes
  <2>. QED BY <1>1, <1>3, <2>1, <2>2 DEF StartCandidate, StartTx, Left, m
<1>4. CASE stage = "sign"
  <2>1. h2b' = Tail(h2b) /\ seq' = seq /\ (StartTx("rec") \/ StartTx("work"))
    BY <1>2, <1>4 DEF Acknowledged
  <2>. QED BY <1>1, <1>4, <2>1 DEF StartTx, Left
<1>5. CASE stage = "rec"
  <2>1. \/ StartCandidate(Tail(h2b))
        \/ (StartTx("term") \/ StartTx("close")) /\ h2b' = Tail(h2b) /\ UNCHANGED <<seq, outcome>>
    BY <1>2, <1>5 DEF Acknowledged
  <2>2. m.type = "RECACK" /\ m.seq = seq
    BY <1>2, <1>5 DEF AckTypes, TxSeq
  <2>. QED BY <1>1, <1>5, <2>1, <2>2 DEF StartCandidate, StartTx, Left, m
<1>6. CASE stage = "term"
  <2>1. StartTx("halted") /\ h2b' = Tail(h2b) /\ UNCHANGED <<seq, outcome>>
    BY <1>2, <1>6 DEF Acknowledged
  <2>. QED BY <1>1, <1>6, <2>1 DEF StartTx, Left
<1>. QED BY <1>1, <1>3, <1>4, <1>5, <1>6 DEF TxStages

\* A resend or a foreign line moves no seq; what it may change of the outcome
\* is the stop of a SIGNREQ without an answer.
LEMMA ResendMoves ==
  ASSUME stage \in TxStages, NEW p, ResendOrExhaust(p) \/ Ignored(p)
  PROVE /\ seq' = seq
        /\ outcome' = outcome \/ stage = "sign"
        /\ stage' = "sign" => stage = "sign" /\ prevAcks' = p
<1>1. CASE Exhausted
  BY <1>1 DEF Exhausted, StartTx, TxStages
<1>2. CASE UNCHANGED <<stage, seq, outcome>> /\ prevAcks' = p
  BY <1>2
<1>. QED BY <1>1, <1>2 DEF ResendOrExhaust, Ignored

\* The other steps of the board that take a line.
LEMMA HearMoves ==
  ASSUME IInv, BoardRecvGet \/ BoardRecvRecAckInSign \/ BoardRecvForeign
  PROVE /\ h2b # << >> /\ h2b' = Tail(h2b) /\ UNCHANGED <<b2h, faults>> /\ UNCHANGED host
        /\ seq' = seq
        /\ outcome' = outcome \/ stage = "sign"
        /\ stage' = "sign" => /\ stage = "sign"
                              /\ \/ prevAcks' = prevAcks
                                 \/ prevAcks' = prevAcks + 1 /\ StrictLine(Head(h2b))
<1>1. /\ stage \in TxStages /\ h2b # << >> /\ h2b' = Tail(h2b) /\ UNCHANGED <<b2h, faults>> /\ UNCHANGED host
  BY DEF BoardRecvGet, BoardRecvRecAckInSign, BoardRecvForeign, Receiving, host
<1>2. CASE BoardRecvGet
  BY <1>1, <1>2, ResendMoves DEF BoardRecvGet
<1>3. CASE BoardRecvForeign
  BY <1>1, <1>3, ResendMoves DEF BoardRecvForeign
<1>4. CASE BoardRecvRecAckInSign
  <2>1. StrictLine(Head(h2b)) /\ (Ignored(prevAcks + 1) \/ (StartTx("term") /\ UNCHANGED <<seq, outcome>>))
    <3>1. CASE PreviousAck(Head(h2b))
      BY <1>4, <3>1 DEF BoardRecvRecAckInSign
    <3>2. CASE ~PreviousAck(Head(h2b))
      BY <1>4, <3>2 DEF BoardRecvRecAckInSign
    <3>. QED BY <3>1, <3>2
  <2>2. CASE Ignored(prevAcks + 1)
    BY <1>1, <2>1, <2>2, ResendMoves
  <2>3. CASE StartTx("term") /\ UNCHANGED <<seq, outcome>>
    BY <1>1, <2>3 DEF StartTx
  <2>. QED BY <2>1, <2>2, <2>3
<1>. QED BY <1>2, <1>3, <1>4

\* The steps of the board that take no line and send none.
LEMMA InsideMoves ==
  ASSUME SessionAssumption, IInv, BoardBound \/ BoardWork \/ BoardReset
  PROVE /\ UNCHANGED <<b2h, h2b>> /\ UNCHANGED host
        /\ seq' = seq
        /\ outcome' = outcome \/ stage \in {"sign", "work"}
        /\ stage' = "sign" => stage = "sign" /\ prevAcks' = prevAcks
        /\ faults' = faults \/ (faults' = faults + 1 /\ faults < MaxFaults)
<1>1. CASE BoardBound
  <2>1. stage \in TxStages /\ ResendOrExhaust(prevAcks) /\ UNCHANGED <<b2h, h2b, host>>
    BY <1>1 DEF BoardBound
  <2>2. faults' = faults \/ (faults' = faults + 1 /\ faults < MaxFaults)
    BY <1>1 DEF BoardBound
  <2>. QED BY <2>1, <2>2, ResendMoves
<1>2. CASE BoardWork
  <2>1. stage = "work" /\ UNCHANGED <<seq, b2h, h2b, faults, host>>
    BY <1>2 DEF BoardWork
  <2>2. stage' \in {"rec", "term"}
    BY <1>2 DEF BoardWork, StartTx
  <2>. QED BY <2>1, <2>2
<1>3. CASE BoardReset
  BY <1>3 DEF BoardReset, StartTx, host
<1>. QED BY <1>1, <1>2, <1>3

\* BoardSend and BoardClose.
LEMMA SendMoves ==
  ASSUME SessionAssumption, IInv, BoardSend \/ BoardClose
  PROVE /\ h2b' = h2b /\ UNCHANGED host /\ UNCHANGED <<seq, outcome>>
        /\ stage' = "sign" => stage = "sign" /\ prevAcks' = prevAcks
        /\ \E m \in ToHost :
             /\ m.type \in Numbered => m.seq = seq /\ seq >= 1
             /\ SendToHost(m) \/ (b2h' = Append(b2h, [m EXCEPT !.form = "crc"]) /\ faults' = faults)
                \/ UNCHANGED <<b2h, faults>>
<1>1. CASE BoardSend
  <2>1. stage \in TxStages /\ TxLine \in ToHost /\ LineIsTrue(TxLine)
    BY <1>1, TxLineIsTrue DEF BoardSend, IInv
  <2>2. TxLine.type \in Numbered => TxLine.seq = seq
    BY <2>1 DEF TxLine, Line, Numbered, TxStages
  <2>3. TxLine.type \in Numbered => seq >= 1
    BY <2>1, <2>2 DEF LineIsTrue, Numbered, ToHost
  <2>4. SendToHost(TxLine) \/ (b2h' = Append(b2h, [TxLine EXCEPT !.form = "crc"]) /\ faults' = faults)
    BY <1>1 DEF BoardSend
  <2>5. UNCHANGED <<stage, prevAcks, h2b, seq, outcome>> /\ UNCHANGED host
    BY <1>1 DEF BoardSend
  <2>. QED BY <2>1, <2>2, <2>3, <2>4, <2>5
<1>2. CASE BoardClose
  <2>. DEFINE m == Line("CLOSE", seq, "-")
  <2>1. seq \in Nat
    BY DEF IInv, Books, BooksTyped
  <2>2. m \in ToHost /\ m.type \notin Numbered
    BY <2>1 DEF Line, ToHost, BoardTypes, Bodies, Forms, Numbered
  <2>3. SendToHost(m) \/ UNCHANGED <<b2h, faults>>
    BY <1>2 DEF BoardClose
  <2>4. stage' = "term" /\ UNCHANGED <<h2b, seq, outcome>> /\ UNCHANGED host
    BY <1>2 DEF BoardClose, StartTx, host
  <2>. HIDE DEF m
  <2>. QED BY <2>2, <2>3, <2>4
<1>. QED BY <1>1, <1>2

-----------------------------------------------------------------------------
(* What the host answers, and what it is charged for it.                    *)

\* Answers and re-requests of the record of seq k so far.
Calls(k) == acks[<<"REC", k>>] + gets[<<"REC", k>>]

\* The ledgers stay within their bounds, and a record that is not held has not
\* been acknowledged.  The first acknowledgement is not asked of the bound.
LedgersFit ==
  /\ gets \in [Ledgers -> Nat] /\ acks \in [Ledgers -> Nat]
  /\ faults \in Nat /\ faults <= MaxFaults
  /\ \A k \in Cands : /\ gets[<<"REC", k>>] <= HostGets
                      /\ acks[<<"REC", k>>] <= HostReplays \/ acks[<<"REC", k>>] <= 1
                      /\ k > recorded => acks[<<"REC", k>>] = 0

\* The host sent `a`, and the ledger of the record it names was charged; or it
\* said nothing.
Charged(a) ==
  \/ /\ SendToBoard(a)
     /\ \A k \in Cands : Calls(k)' >= Calls(k) + (IF a.type \in RecReplies /\ a.seq = k THEN 1 ELSE 0)
  \/ /\ UNCHANGED <<h2b, faults>>
     /\ \A k \in Cands : Calls(k)' >= Calls(k)

\* The link's faults stay within their bound.
LEMMA FaultsFit ==
  ASSUME SessionAssumption, faults \in Nat, faults <= MaxFaults,
         NEW a, NEW m, SendToBoard(a) \/ SendToHost(m) \/ UNCHANGED faults
  PROVE faults' \in Nat /\ faults' <= MaxFaults /\ faults' >= faults
<1>1. MaxFaults \in Nat
  BY DEF SessionAssumption
<1>2. faults' = faults \/ (faults < MaxFaults /\ faults' = faults + 1)
  BY DEF SendToBoard, SendToHost
<1>. QED BY <1>1, <1>2

\* A re-request charges its ledger.
LEMMA AskCharges ==
  ASSUME SessionAssumption, LedgersFit, NEW t, NEW j, <<t, j>> \in Ledgers,
         NEW g \in ToBoard, Ask(t, j, g), UNCHANGED <<acks, records>>,
         g.type \in RecReplies => t = "REC" /\ j = g.seq
  PROVE LedgersFit' /\ Charged(g)
<1>1. HostGets \in Nat /\ gets \in [Ledgers -> Nat] /\ acks \in [Ledgers -> Nat]
  BY DEF SessionAssumption, LedgersFit
<1>2. \A k \in Cands : <<"REC", k>> \in Ledgers
  BY DEF SessionAssumption, Cands, Ledgers, Seqs
<1>3. CASE gets[<<t, j>>] < HostGets
  <2>1. gets' = [gets EXCEPT ![<<t, j>>] = gets[<<t, j>>] + 1] /\ SendToBoard(g)
    BY <1>3 DEF Ask
  <2>2. gets' \in [Ledgers -> Nat] /\ gets'[<<t, j>>] = gets[<<t, j>>] + 1
    BY <1>1, <2>1
  <2>3. \A l \in Ledgers : l # <<t, j>> => gets'[l] = gets[l]
    BY <1>1, <2>1
  <2>4. ASSUME NEW k \in Cands
        PROVE /\ gets'[<<"REC", k>>] <= HostGets
              /\ gets'[<<"REC", k>>] >= gets[<<"REC", k>>] + (IF g.type \in RecReplies /\ g.seq = k THEN 1 ELSE 0)
    <3>1. <<"REC", k>> \in Ledgers /\ gets[<<"REC", k>>] \in Nat /\ gets[<<"REC", k>>] <= HostGets
      BY <1>1, <1>2 DEF LedgersFit
    <3>2. CASE <<"REC", k>> = <<t, j>>
      <4>1. gets'[<<"REC", k>>] = gets[<<"REC", k>>] + 1 /\ gets[<<"REC", k>>] < HostGets
        BY <1>3, <2>2, <3>2
      <4>. QED BY <1>1, <3>1, <4>1
    <3>3. CASE <<"REC", k>> # <<t, j>>
      <4>1. gets'[<<"REC", k>>] = gets[<<"REC", k>>]
        BY <2>3, <3>1, <3>3
      <4>2. ~(g.type \in RecReplies /\ g.seq = k)
        BY <3>3
      <4>. QED BY <3>1, <4>1, <4>2
    <3>. QED BY <3>2, <3>3
  <2>5. \A k \in Cands : Calls(k)' >= Calls(k) + (IF g.type \in RecReplies /\ g.seq = k THEN 1 ELSE 0)
    <3>1. ASSUME NEW k \in Cands, NEW c \in {0, 1},
                 gets'[<<"REC", k>>] >= gets[<<"REC", k>>] + c
          PROVE Calls(k)' >= Calls(k) + c
      <4>1. <<"REC", k>> \in Ledgers
        BY <1>2
      <4>2. acks[<<"REC", k>>] \in Nat /\ gets[<<"REC", k>>] \in Nat /\ gets'[<<"REC", k>>] \in Nat
        BY <1>1, <2>2, <4>1
      <4>. QED BY <3>1, <4>2 DEF Calls
    <3>. QED BY <2>4, <3>1
  <2>6. LedgersFit'
    BY <2>1, <2>2, <2>4, FaultsFit DEF LedgersFit, recorded
  <2>. QED BY <2>1, <2>5, <2>6 DEF Charged
<1>4. CASE ~(gets[<<t, j>>] < HostGets)
  <2>1. UNCHANGED <<gets, acks, records, h2b, faults>>
    BY <1>4 DEF Ask, Silent
  <2>2. \A k \in Cands : acks[<<"REC", k>>] \in Nat /\ gets[<<"REC", k>>] \in Nat
    BY <1>1, <1>2
  <2>3. ASSUME NEW k \in Cands PROVE Calls(k)' >= Calls(k)
    <3>1. Calls(k) \in Nat /\ Calls(k)' = Calls(k)
      BY <2>1, <2>2 DEF Calls
    <3>. QED BY <3>1
  <2>. QED BY <2>1, <2>3 DEF Charged, LedgersFit, recorded
<1>. QED BY <1>3, <1>4

\* An acknowledgement charges its ledger.
LEMMA AckCharges ==
  ASSUME SessionAssumption, LedgersFit, NEW t, NEW j, <<t, j>> \in Ledgers,
         NEW g \in ToBoard, Ack(t, j, g), UNCHANGED <<gets, records>>,
         recorded \in Nat, t = "REC" => j <= recorded,
         g.type \in RecReplies => t = "REC" /\ j = g.seq
  PROVE LedgersFit' /\ Charged(g)
<1>1. HostReplays \in Nat /\ gets \in [Ledgers -> Nat] /\ acks \in [Ledgers -> Nat]
  BY DEF SessionAssumption, LedgersFit
<1>2. \A k \in Cands : <<"REC", k>> \in Ledgers /\ k \in Nat
  BY DEF SessionAssumption, Cands, Ledgers, Seqs
<1>3. CASE acks[<<t, j>>] < HostReplays
  <2>1. acks' = [acks EXCEPT ![<<t, j>>] = acks[<<t, j>>] + 1] /\ SendToBoard(g)
    BY <1>3 DEF Ack
  <2>2. acks' \in [Ledgers -> Nat] /\ acks'[<<t, j>>] = acks[<<t, j>>] + 1
    BY <1>1, <2>1
  <2>3. \A l \in Ledgers : l # <<t, j>> => acks'[l] = acks[l]
    BY <1>1, <2>1
  <2>4. ASSUME NEW k \in Cands
        PROVE /\ acks'[<<"REC", k>>] <= HostReplays \/ acks'[<<"REC", k>>] <= 1
              /\ k > recorded => acks'[<<"REC", k>>] = 0
              /\ acks'[<<"REC", k>>] >= acks[<<"REC", k>>] + (IF g.type \in RecReplies /\ g.seq = k THEN 1 ELSE 0)
    <3>1. <<"REC", k>> \in Ledgers /\ acks[<<"REC", k>>] \in Nat /\ k \in Nat
      BY <1>1, <1>2
    <3>2. CASE <<"REC", k>> = <<t, j>>
      <4>1. acks'[<<"REC", k>>] = acks[<<"REC", k>>] + 1 /\ acks[<<"REC", k>>] < HostReplays
        BY <1>3, <2>2, <3>2
      <4>2. k <= recorded
        BY <3>2
      <4>. QED BY <1>1, <3>1, <4>1, <4>2
    <3>3. CASE <<"REC", k>> # <<t, j>>
      <4>1. acks'[<<"REC", k>>] = acks[<<"REC", k>>]
        BY <2>3, <3>1, <3>3
      <4>2. ~(g.type \in RecReplies /\ g.seq = k)
        BY <3>3
      <4>. QED BY <3>1, <4>1, <4>2 DEF LedgersFit
    <3>. QED BY <3>2, <3>3
  <2>5. \A k \in Cands : Calls(k)' >= Calls(k) + (IF g.type \in RecReplies /\ g.seq = k THEN 1 ELSE 0)
    <3>1. ASSUME NEW k \in Cands, NEW c \in {0, 1},
                 acks'[<<"REC", k>>] >= acks[<<"REC", k>>] + c
          PROVE Calls(k)' >= Calls(k) + c
      <4>1. <<"REC", k>> \in Ledgers
        BY <1>2
      <4>2. acks[<<"REC", k>>] \in Nat /\ gets[<<"REC", k>>] \in Nat /\ acks'[<<"REC", k>>] \in Nat
        BY <1>1, <2>2, <4>1
      <4>. QED BY <3>1, <4>2 DEF Calls
    <3>. QED BY <2>4, <3>1
  <2>6. LedgersFit'
    BY <2>1, <2>2, <2>4, FaultsFit DEF LedgersFit, recorded
  <2>. QED BY <2>1, <2>5, <2>6 DEF Charged
<1>4. CASE ~(acks[<<t, j>>] < HostReplays)
  <2>1. UNCHANGED <<gets, acks, records, h2b, faults>>
    BY <1>4 DEF Ack, Silent
  <2>2. \A k \in Cands : acks[<<"REC", k>>] \in Nat /\ gets[<<"REC", k>>] \in Nat
    BY <1>1, <1>2
  <2>3. ASSUME NEW k \in Cands PROVE Calls(k)' >= Calls(k)
    <3>1. Calls(k) \in Nat /\ Calls(k)' = Calls(k)
      BY <2>1, <2>2 DEF Calls
    <3>. QED BY <3>1
  <2>. QED BY <2>1, <2>3 DEF Charged, LedgersFit, recorded
<1>. QED BY <1>3, <1>4

\* Nothing is asked and nothing is charged.
LEMMA SilentCharges ==
  ASSUME SessionAssumption, LedgersFit, NEW g, UNCHANGED <<gets, acks, records, h2b, faults>>
  PROVE LedgersFit' /\ Charged(g)
<1>1. \A k \in Cands : <<"REC", k>> \in Ledgers
  BY DEF SessionAssumption, Cands, Ledgers, Seqs
<1>2. \A k \in Cands : acks[<<"REC", k>>] \in Nat /\ gets[<<"REC", k>>] \in Nat
  BY <1>1 DEF LedgersFit
<1>3. ASSUME NEW k \in Cands PROVE Calls(k)' >= Calls(k)
  <2>1. Calls(k) \in Nat /\ Calls(k)' = Calls(k)
    BY <1>2 DEF Calls
  <2>. QED BY <2>1
<1>. QED BY <1>3 DEF Charged, LedgersFit, recorded

\* An answer keeps to the order: identity is acknowledged once it is
\* established, and a record's answer is about the last candidate signed.
Timely(a) ==
  /\ a.type = "IDENTACK" => ident' = "established"
  /\ a.type \in RecReplies => a.seq = signed' /\ a.seq >= 1 /\ (stage = "sign" => a.seq = seq - 1)

\* A REC still on its way is of the last candidate signed or of a later one; in
\* the wait for the next answer it is of the candidate before.
LEMMA RecIsLast ==
  ASSUME IInv, LineOrder, NEW m \in Lines(b2h), m.type = "REC"
  PROVE /\ m.seq \in Nat /\ m.seq >= signed /\ m.seq >= 1 /\ m.seq <= seq
        /\ stage = "sign" => m.seq = seq - 1 /\ signed = seq - 1
<1>1. m.seq \in 1 .. seq /\ m.body \in Outcomes /\ Told(m.seq, m.body) /\ m.seq >= signed
  BY DEF IInv, InFlight, LineIsTrue, LineOrder, Numbered
<1>2. seq \in Nat /\ signed \in Nat /\ recorded \in Nat /\ Len(confirmed) \in Nat
  BY DEF IInv, Books, BooksTyped, signed, recorded
<1>3. ASSUME stage = "sign" PROVE m.seq = seq - 1 /\ signed = seq - 1
  <2>1. outcome = "-" /\ seq = Len(confirmed) + 1
    BY <1>3 DEF IInv, Books, StageFits
  <2>2. m.seq # seq
    BY <1>1, <2>1 DEF Told, Outcomes
  <2>3. Len(confirmed) <= recorded /\ recorded <= signed
    BY DEF IInv, Books, InOrder
  <2>. QED BY <1>1, <1>2, <2>1, <2>2, <2>3
<1>. QED BY <1>1, <1>2, <1>3

\* What a line the host cannot use makes it ask for.
LEMMA BrokenAnswers ==
  ASSUME SessionAssumption, IInv, LineOrder, LedgersFit, HostTakes, UNCHANGED <<acks, records, notary>>,
         OnBroken(Head(b2h)) \/ OnBrokenTerm(Head(b2h)) \/ NoAsk
  PROVE LedgersFit' /\ \E a \in ToBoard : Charged(a) /\ Timely(a)
<1>. DEFINE m == Head(b2h)
            Asked == \E a \in ToBoard : Charged(a) /\ Timely(a)
<1>1. m \in ToHost /\ m \in Lines(b2h)
  BY LinesTail DEF IInv, LinesTyped, HostTakes
<1>2. m.seq \in Nat /\ signed \in Nat /\ recorded \in Nat /\ seq \in Nat /\ NCand \in Nat
  BY <1>1 DEF ToHost, IInv, Books, BooksTyped, signed, recorded, SessionAssumption
<1>3. recorded <= signed /\ signed <= seq /\ seq <= NCand /\ signed' = signed
  BY DEF IInv, Books, InOrder, StageFits, signed
<1>4. m.type = "REC" => m.seq >= signed /\ (stage = "sign" => m.seq = seq - 1 /\ signed = seq - 1)
  BY <1>1, RecIsLast
<1>5. OnBroken(m) \/ OnBrokenTerm(m) \/ NoAsk
  OBVIOUS
<1>. HIDE DEF m
<1>6. CASE NoAsk
  <2>1. UNCHANGED <<gets, acks, records, h2b, faults>>
    BY <1>6 DEF NoAsk, Silent
  <2>2. Reply("SIGNGET", 0) \in ToBoard /\ Timely(Reply("SIGNGET", 0))
    BY DEF Reply, ToBoard, HostTypes, Timely, RecReplies
  <2>. QED BY <2>1, <2>2, SilentCharges
<1>7. CASE OnBrokenTerm(m)
  <2>1. PICK k \in Nat : Ask("TERM", 0, Reply("TERMGET", k))
    BY <1>2, <1>7 DEF OnBrokenTerm
  <2>. DEFINE a == Reply("TERMGET", k)
  <2>2. a \in ToBoard /\ Timely(a) /\ a.type \notin RecReplies
    BY DEF Reply, ToBoard, HostTypes, Timely, RecReplies
  <2>3. <<"TERM", 0>> \in Ledgers
    BY <1>2 DEF Ledgers, Seqs
  <2>. HIDE DEF a
  <2>4. Ask("TERM", 0, a)
    BY <2>1 DEF a
  <2>. QED BY <2>2, <2>3, <2>4, AskCharges
<1>8. CASE OnBrokenSign
  <2>. DEFINE a == Reply("SIGNGET", signed + 1)
  <2>1. a \in ToBoard /\ Timely(a) /\ a.type \notin RecReplies
    BY <1>2 DEF Reply, ToBoard, HostTypes, Timely, RecReplies
  <2>2. <<"SIGNREQ", signed + 1>> \in Ledgers
    BY <1>2, <1>3 DEF Ledgers, Seqs
  <2>3. Ask("SIGNREQ", signed + 1, a)
    BY <1>8 DEF OnBrokenSign
  <2>. HIDE DEF a
  <2>. QED BY <2>1, <2>2, <2>3, AskCharges
<1>9. CASE m.type = "REC" /\ OnBrokenRec(m)
  <2>. DEFINE a == Reply("RECGET", signed)
  <2>1. a \in ToBoard /\ a.type \in RecReplies /\ a.seq = signed /\ a.type # "IDENTACK"
    BY <1>2 DEF Reply, ToBoard, HostTypes, RecReplies
  <2>2. <<"REC", signed>> \in Ledgers
    BY <1>2, <1>3 DEF Ledgers, Seqs
  <2>3. ASSUME Ask("REC", signed, a), signed >= 1 PROVE LedgersFit' /\ Asked
    <3>. HIDE DEF a
    <3>1. Timely(a)
      BY <1>3, <1>4, <1>9, <2>1, <2>3 DEF Timely
    <3>. QED BY <2>1, <2>2, <2>3, <3>1, AskCharges
  <2>4. CASE Pending /\ HeadMaySay(m, signed)
    <3>1. Ask("REC", signed, a) /\ signed > recorded
      BY <1>9, <2>4 DEF OnBrokenRec, Pending
    <3>. QED BY <1>2, <2>3, <3>1
  <2>5. CASE ~(Pending /\ HeadMaySay(m, signed)) /\ recorded > 0 /\ HeadSays(m, recorded)
    <3>1. recorded = signed
      BY <1>2, <1>3, <1>4, <1>9, <2>5 DEF HeadSays
    <3>2. Ask("REC", recorded, Reply("RECGET", recorded))
      BY <1>9, <2>5 DEF OnBrokenRec
    <3>3. Ask("REC", signed, a)
      BY <3>1, <3>2
    <3>4. signed >= 1
      BY <1>2, <2>5, <3>1
    <3>. HIDE DEF a
    <3>. QED BY <2>3, <3>3, <3>4
  <2>6. CASE ~(Pending /\ HeadMaySay(m, signed)) /\ ~(recorded > 0 /\ HeadSays(m, recorded))
    BY <1>6, <1>9, <2>6 DEF OnBrokenRec
  <2>. QED BY <2>4, <2>5, <2>6
<1>10. OnBroken(m) => OnBrokenSign \/ OnBrokenTerm(m) \/ (m.type = "REC" /\ OnBrokenRec(m)) \/ NoAsk
  BY DEF OnBroken
<1>. QED BY <1>5, <1>6, <1>7, <1>8, <1>9, <1>10

\* What an acknowledgement within its bound sends.
LEMMA AckAnswers ==
  ASSUME SessionAssumption, LedgersFit, NEW t, NEW j, <<t, j>> \in Ledgers,
         NEW a \in ToBoard, Ack(t, j, a), UNCHANGED <<gets, records>>,
         recorded \in Nat, t = "REC" => j <= recorded,
         a.type \in RecReplies => t = "REC" /\ j = a.seq, Timely(a)
  PROVE LedgersFit' /\ \E x \in ToBoard : Charged(x) /\ Timely(x)
<1>1. LedgersFit' /\ Charged(a)
  BY AckCharges
<1>. QED BY <1>1

\* The first record of a candidate is acknowledged outside the bound.
LEMMA RecordAnswers ==
  ASSUME SessionAssumption, IInv, LineOrder, LedgersFit, HostRecord
  PROVE LedgersFit' /\ \E a \in ToBoard : Charged(a) /\ Timely(a)
<1>. DEFINE m == Head(b2h)
            a == Reply("RECACK", m.seq)
            k0 == m.seq
<1>1. m \in ToHost /\ m \in Lines(b2h)
  BY LinesTail DEF IInv, LinesTyped, HostRecord, HostTakes
<1>2. /\ m.type = "REC" /\ m.seq = signed /\ m.seq = recorded + 1
      /\ records' = Append(records, m.body)
      /\ acks' = [acks EXCEPT ![<<"REC", m.seq>>] = acks[<<"REC", m.seq>>] + 1]
      /\ SendToBoard(a) /\ UNCHANGED <<notary, gets>>
  BY DEF HostRecord, NextRec
<1>3. k0 >= 1 /\ k0 <= seq /\ (stage = "sign" => k0 = seq - 1)
  BY <1>1, <1>2, RecIsLast
<1>. HIDE DEF m
<1>4. k0 \in Nat /\ seq \in Nat /\ seq <= NCand /\ NCand \in Nat /\ Len(records) \in Nat
  BY <1>1 DEF ToHost, IInv, Books, BooksTyped, StageFits, SessionAssumption
<1>5. a \in ToBoard /\ a.type = "RECACK" /\ a.seq = k0
  BY <1>4 DEF Reply, ToBoard, HostTypes
<1>6. Timely(a)
  BY <1>2, <1>3, <1>5 DEF Timely, signed
<1>7. recorded' = k0 /\ recorded = k0 - 1
  BY <1>2, <1>4 DEF recorded, IInv, Books, BooksTyped
<1>8. \A k \in Cands : <<"REC", k>> \in Ledgers /\ k \in Nat
  BY DEF SessionAssumption, Cands, Ledgers, Seqs
<1>9. <<"REC", k0>> \in Ledgers /\ k0 \in Cands /\ gets \in [Ledgers -> Nat] /\ acks \in [Ledgers -> Nat]
  <2>1. k0 \in Cands
    BY <1>3, <1>4 DEF Cands
  <2>2. gets \in [Ledgers -> Nat] /\ acks \in [Ledgers -> Nat]
    BY DEF LedgersFit
  <2>. HIDE DEF k0
  <2>. QED BY <1>8, <2>1, <2>2
<1>. HIDE DEF k0
<1>10. acks[<<"REC", k0>>] = 0
  <2>1. k0 > recorded
    BY <1>4, <1>7
  <2>2. \A k \in Cands : k > recorded => acks[<<"REC", k>>] = 0
    BY DEF LedgersFit
  <2>. QED BY <1>9, <2>1, <2>2
<1>11. acks' = [acks EXCEPT ![<<"REC", k0>>] = acks[<<"REC", k0>>] + 1]
  BY <1>2 DEF k0
<1>12. acks' \in [Ledgers -> Nat] /\ acks'[<<"REC", k0>>] = 1 /\ \A l \in Ledgers : l # <<"REC", k0>> => acks'[l] = acks[l]
  BY <1>9, <1>10, <1>11
<1>13. ASSUME NEW k \in Cands
       PROVE /\ acks'[<<"REC", k>>] <= HostReplays \/ acks'[<<"REC", k>>] <= 1
             /\ k > recorded' => acks'[<<"REC", k>>] = 0
             /\ acks'[<<"REC", k>>] >= acks[<<"REC", k>>] + (IF k0 = k THEN 1 ELSE 0)
  <2>1. <<"REC", k>> \in Ledgers /\ acks[<<"REC", k>>] \in Nat /\ k \in Nat
    BY <1>8, <1>9
  <2>2. CASE k = k0
    BY <1>7, <1>10, <1>12, <2>1, <2>2
  <2>3. CASE k # k0
    <3>1. acks'[<<"REC", k>>] = acks[<<"REC", k>>]
      BY <1>12, <2>1, <2>3
    <3>2. k > recorded' => k > recorded
      BY <1>4, <1>7, <2>1
    <3>. QED BY <2>1, <2>3, <3>1, <3>2 DEF LedgersFit
  <2>. QED BY <2>2, <2>3
<1>14. LedgersFit'
  <2>1. faults' \in Nat /\ faults' <= MaxFaults
    BY <1>2, FaultsFit DEF LedgersFit
  <2>2. \A k \in Cands : gets'[<<"REC", k>>] <= HostGets
    BY <1>2 DEF LedgersFit
  <2>3. gets' \in [Ledgers -> Nat]
    BY <1>2, <1>9
  <2>. QED BY <1>12, <1>13, <2>1, <2>2, <2>3 DEF LedgersFit
<1>. HIDE DEF a
<1>15. ASSUME NEW k \in Cands
       PROVE Calls(k)' >= Calls(k) + (IF a.type \in RecReplies /\ a.seq = k THEN 1 ELSE 0)
  <2>1. <<"REC", k>> \in Ledgers
    BY <1>8
  <2>2. acks[<<"REC", k>>] \in Nat /\ gets[<<"REC", k>>] \in Nat /\ acks'[<<"REC", k>>] \in Nat
    BY <1>9, <1>12, <2>1
  <2>3. gets' = gets
    BY <1>2
  <2>4. (IF a.type \in RecReplies /\ a.seq = k THEN 1 ELSE 0) = (IF k0 = k THEN 1 ELSE 0)
    BY <1>5 DEF RecReplies
  <2>5. CASE k0 = k
    BY <1>13, <2>2, <2>3, <2>4, <2>5 DEF Calls
  <2>6. CASE k0 # k
    BY <1>13, <2>2, <2>3, <2>4, <2>6 DEF Calls
  <2>. QED BY <2>5, <2>6
<1>16. Charged(a)
  BY <1>2, <1>15 DEF Charged
<1>. QED BY <1>5, <1>6, <1>14, <1>16

\* Every step of the host answers in time and is charged for it.
LEMMA HostAnswers ==
  ASSUME SessionAssumption, IInv, LineOrder, LedgersFit, HostNext
  PROVE LedgersFit' /\ \E a \in ToBoard : Charged(a) /\ Timely(a)
<1>. DEFINE m == Head(b2h)
            Goal == LedgersFit' /\ \E a \in ToBoard : Charged(a) /\ Timely(a)
<1>1. signed \in Nat /\ recorded \in Nat /\ seq \in Nat /\ NCand \in Nat
  BY DEF IInv, Books, BooksTyped, signed, recorded, SessionAssumption
<1>2. recorded <= signed /\ signed <= seq /\ seq <= NCand
  BY DEF IInv, Books, InOrder, StageFits
<1>3. b2h # << >> => m \in ToHost /\ m \in Lines(b2h) /\ m.seq \in Nat
  <2>1. b2h # << >> => m \in ToHost /\ m \in Lines(b2h)
    BY LinesTail DEF IInv, LinesTyped
  <2>2. \A x \in ToHost : x.seq \in Nat
    BY DEF ToHost
  <2>. QED BY <2>1, <2>2
<1>4. ASSUME UNCHANGED <<gets, acks, records, h2b, faults>> PROVE Goal
  <2>1. Reply("SIGNGET", 0) \in ToBoard /\ Timely(Reply("SIGNGET", 0))
    BY DEF Reply, ToBoard, HostTypes, Timely, RecReplies
  <2>. QED BY <1>4, <2>1, SilentCharges
<1>5. CASE HostIdent
  <2>. DEFINE a == Reply("IDENTACK", 0)
  <2>1. CASE ident' = "established"
    <3>1. Ack("IDENT", 0, a) /\ UNCHANGED <<gets, records>>
      BY <1>5, <2>1 DEF HostIdent
    <3>2. a \in ToBoard /\ Timely(a) /\ a.type \notin RecReplies
      BY <2>1 DEF Reply, ToBoard, HostTypes, Timely, RecReplies
    <3>3. <<"IDENT", 0>> \in Ledgers
      BY <1>1 DEF Ledgers, Seqs
    <3>. HIDE DEF a
    <3>. QED BY <1>1, <3>1, <3>2, <3>3, AckAnswers
  <2>2. CASE ident' # "established"
    BY <1>4, <1>5, <2>2 DEF HostIdent, Silent
  <2>. QED BY <2>1, <2>2
<1>6. CASE HostSign
  <2>1. PICK answer \in {"SIGNOK", "SIGNREF"} : SendToBoard(Reply(answer, m.seq))
    BY <1>6 DEF HostSign
  <2>. DEFINE a == Reply(answer, m.seq)
  <2>2. a \in ToBoard /\ Timely(a) /\ a.type \notin RecReplies
    BY <1>3, <1>6 DEF Reply, ToBoard, HostTypes, Timely, RecReplies, HostSign, HostTakes
  <2>3. UNCHANGED <<gets, acks, records>>
    BY <1>6 DEF HostSign, ledgers
  <2>. HIDE DEF a
  <2>4. ASSUME NEW k \in Cands
        PROVE Calls(k)' >= Calls(k) + (IF a.type \in RecReplies /\ a.seq = k THEN 1 ELSE 0)
    <3>1. <<"REC", k>> \in Ledgers
      BY DEF SessionAssumption, Cands, Ledgers, Seqs
    <3>2. acks[<<"REC", k>>] \in Nat /\ gets[<<"REC", k>>] \in Nat
      BY <3>1 DEF LedgersFit
    <3>3. Calls(k) \in Nat /\ Calls(k)' = Calls(k)
      BY <2>3, <3>2 DEF Calls
    <3>. QED BY <2>2, <3>3
  <2>5. faults' \in Nat /\ faults' <= MaxFaults
    BY <2>1, FaultsFit DEF LedgersFit
  <2>6. LedgersFit'
    BY <2>3, <2>5 DEF LedgersFit, recorded
  <2>7. Charged(a)
    BY <2>1, <2>4 DEF Charged, a
  <2>. QED BY <2>2, <2>6, <2>7
<1>7. CASE HostReplay
  <2>. DEFINE a == Reply(notary[m.seq], m.seq)
  <2>1. m.seq \in 1 .. signed /\ Ack("SIGNREQ", m.seq, a) /\ UNCHANGED <<gets, records>>
    BY <1>7 DEF HostReplay
  <2>2. notary[m.seq] \in {"SIGNOK", "SIGNREF"}
    BY <2>1 DEF signed, IInv, Books, BooksTyped
  <2>3. a \in ToBoard /\ Timely(a) /\ a.type \notin RecReplies
    BY <1>1, <2>1, <2>2 DEF Reply, ToBoard, HostTypes, Timely, RecReplies
  <2>4. <<"SIGNREQ", m.seq>> \in Ledgers
    BY <1>1, <1>2, <2>1 DEF Ledgers, Seqs
  <2>. HIDE DEF a
  <2>. QED BY <1>1, <2>1, <2>3, <2>4, AckAnswers
<1>8. CASE HostRecord
  BY <1>8, RecordAnswers
<1>9. CASE HostRecordAgain
  <2>. DEFINE a == Reply("RECACK", m.seq)
  <2>1. b2h # << >> /\ m.type = "REC" /\ m.seq = recorded /\ Ack("REC", m.seq, a) /\ UNCHANGED <<gets, records, notary>>
    BY <1>9 DEF HostRecordAgain, RepeatedRec, HostTakes
  <2>2. m.seq = signed /\ m.seq >= 1 /\ (stage = "sign" => m.seq = seq - 1)
    BY <1>1, <1>2, <1>3, <2>1, RecIsLast
  <2>3. a \in ToBoard /\ a.type = "RECACK" /\ a.seq = m.seq
    BY <1>3, <2>1 DEF Reply, ToBoard, HostTypes
  <2>4. Timely(a)
    BY <2>1, <2>2, <2>3 DEF Timely, signed
  <2>5. <<"REC", m.seq>> \in Ledgers
    BY <1>1, <1>2, <2>1 DEF Ledgers, Seqs
  <2>. HIDE DEF a
  <2>. QED BY <1>1, <2>1, <2>3, <2>4, <2>5, AckAnswers
<1>10. CASE HostTerm \/ (HostAfterEnd /\ m.form = "ok" /\ Ack("TERM", 0, Reply("TERMACK", m.seq)) /\ UNCHANGED gets)
  <2>. DEFINE a == Reply("TERMACK", m.seq)
  <2>1. b2h # << >> /\ Ack("TERM", 0, a) /\ UNCHANGED <<gets, records>>
    BY <1>10 DEF HostTerm, HostAfterEnd, HostTakes
  <2>2. a \in ToBoard /\ Timely(a) /\ a.type \notin RecReplies
    BY <1>3, <2>1 DEF Reply, ToBoard, HostTypes, Timely, RecReplies
  <2>3. <<"TERM", 0>> \in Ledgers
    BY <1>1 DEF Ledgers, Seqs
  <2>. HIDE DEF a
  <2>. QED BY <1>1, <2>1, <2>2, <2>3, AckAnswers
<1>11. CASE HostAfterEnd
  <2>1. CASE OnBrokenTerm(m) /\ UNCHANGED acks
    BY <1>11, <2>1, BrokenAnswers DEF HostAfterEnd
  <2>2. CASE UNCHANGED <<gets, acks>> /\ Silent
    BY <1>4, <1>11, <2>2 DEF HostAfterEnd, Silent
  <2>. QED BY <1>10, <1>11, <2>1, <2>2 DEF HostAfterEnd
<1>12. CASE HostCrcFailed \/ HostMalformed
  <2>1. HostTakes /\ UNCHANGED <<acks, records, notary>>
    BY <1>12 DEF HostCrcFailed, HostMalformed
  <2>2. NoAsk \/ OnBroken(m)
    BY <1>12 DEF HostCrcFailed, HostMalformed
  <2>. QED BY <2>1, <2>2, BrokenAnswers
<1>13. CASE HostProtocol \/ HostClose
  BY <1>4, <1>13 DEF HostProtocol, HostClose, ledgers
<1>14. CASE HostSilence \/ HostBanner
  BY <1>4, <1>14 DEF HostSilence, HostBanner, ledgers
<1>. QED BY <1>5, <1>6, <1>7, <1>8, <1>9, <1>10, <1>11, <1>12, <1>13, <1>14 DEF HostNext

\* What a step of the host leaves alone, and how it moves the rest.
LEMMA HostMoves ==
  ASSUME IInv, HostNext
  PROVE /\ UNCHANGED board
        /\ b2h' = b2h \/ HostTakes
        /\ ident = "established" => ident' = "established"
        /\ \/ UNCHANGED notary
           \/ /\ HostTakes /\ Head(b2h).type = "SIGNREQ"
              /\ signed' = Head(b2h).seq /\ signed' = signed + 1
<1>1. CASE HostIdent
  BY <1>1 DEF HostIdent
<1>2. CASE HostSign
  <2>1. HostTakes /\ UNCHANGED board /\ UNCHANGED ident
    BY <1>2 DEF HostSign
  <2>2. PICK answer \in {"SIGNOK", "SIGNREF"} :
          Head(b2h).type = "SIGNREQ" /\ Head(b2h).seq = signed + 1 /\ notary' = Append(notary, answer)
    BY <1>2 DEF HostSign
  <2>3. signed' = signed + 1
    BY <2>2 DEF signed, IInv, Books, BooksTyped
  <2>. QED BY <2>1, <2>2, <2>3
<1>3. CASE HostReplay \/ HostRecord \/ HostRecordAgain \/ HostProtocol \/ HostClose \/ HostTerm
  BY <1>3 DEF HostReplay, HostRecord, HostRecordAgain, HostProtocol, HostClose, HostTerm
<1>4. CASE HostCrcFailed \/ HostMalformed \/ HostAfterEnd
  BY <1>4 DEF HostCrcFailed, HostMalformed, HostAfterEnd
<1>5. CASE HostSilence \/ HostBanner
  BY <1>5 DEF HostSilence, HostBanner
<1>. QED BY <1>1, <1>2, <1>3, <1>4, <1>5 DEF HostNext

-----------------------------------------------------------------------------
(* The order is kept.                                                       *)

\* A step of the board keeps the order of the lines.
LEMMA BoardOrder ==
  ASSUME SessionAssumption, IInv, LineOrder, BoardNext \/ BoardReset
  PROVE LineOrder'
<1>1. seq \in Nat /\ signed \in Nat
  BY DEF IInv, Books, BooksTyped, signed
<1>2. ASSUME UNCHANGED b2h, UNCHANGED host, Lines(h2b') \subseteq Lines(h2b), seq' >= 1 => ident = "established"
      PROVE LineOrder'
  <2>1. UNCHANGED <<ident, notary>>
    BY <1>2 DEF host
  <2>. QED BY <1>2, <2>1 DEF LineOrder, signed, Lines, InSeqOrder
<1>3. CASE BoardRecvAck
  <2>1. /\ h2b # << >> /\ Left /\ UNCHANGED <<b2h, faults>> /\ UNCHANGED host
        /\ seq' = seq \/ (seq' = seq + 1 /\ ((stage = "ident" /\ Head(h2b).type = "IDENTACK") \/ stage = "rec"))
    BY <1>3, AckMoves
  <2>2. Lines(h2b') \subseteq Lines(h2b) /\ Head(h2b) \in Lines(h2b)
    BY <2>1, LeftKeeps, LinesTail DEF IInv, LinesTyped
  <2>3. stage = "rec" => seq >= 1
    <3>1. Len(confirmed) \in Nat
      BY DEF IInv, Books, BooksTyped
    <3>. QED BY <3>1 DEF IInv, Books, StageFits
  <2>4. seq' >= 1 => ident = "established"
    BY <2>1, <2>2, <2>3 DEF LineOrder
  <2>. QED BY <1>2, <2>1, <2>2, <2>4
<1>4. CASE BoardRecvGet \/ BoardRecvRecAckInSign \/ BoardRecvForeign
  <2>1. h2b # << >> /\ h2b' = Tail(h2b) /\ UNCHANGED b2h /\ UNCHANGED host /\ seq' = seq
    BY <1>4, HearMoves
  <2>2. Lines(h2b') \subseteq Lines(h2b)
    BY <2>1, LinesTail DEF IInv, LinesTyped
  <2>. QED BY <1>2, <2>1, <2>2 DEF LineOrder
<1>5. CASE BoardBound \/ BoardWork \/ BoardReset
  <2>1. UNCHANGED <<b2h, h2b>> /\ UNCHANGED host /\ seq' = seq
    BY <1>5, InsideMoves
  <2>2. Lines(h2b') \subseteq Lines(h2b)
    BY <2>1
  <2>. QED BY <1>2, <2>1, <2>2 DEF LineOrder
<1>6. CASE BoardSend \/ BoardClose
  <2>1. h2b' = h2b /\ UNCHANGED host /\ seq' = seq
    BY <1>6, SendMoves
  <2>2. PICK m \in ToHost :
             /\ m.type \in Numbered => m.seq = seq /\ seq >= 1
             /\ SendToHost(m) \/ (b2h' = Append(b2h, [m EXCEPT !.form = "crc"]) /\ faults' = faults)
                \/ UNCHANGED <<b2h, faults>>
    BY <1>6, SendMoves
  <2>3. CASE UNCHANGED <<b2h, faults>>
    <3>1. Lines(h2b') \subseteq Lines(h2b) /\ (seq' >= 1 => ident = "established")
      BY <2>1 DEF LineOrder
    <3>. QED BY <1>2, <2>1, <2>3, <3>1
  <2>4. CASE SendToHost(m) \/ b2h' = Append(b2h, [m EXCEPT !.form = "crc"])
    <3>1. \A x \in Lines(b2h) : x.type \in Numbered => x.seq <= seq
      BY DEF IInv, InFlight, LineIsTrue, Numbered
    <3>2. LinesTyped /\ InSeqOrder(b2h, Numbered)
      BY DEF IInv, LineOrder
    <3>3. InSeqOrder(b2h', Numbered)
      BY <2>2, <2>4, <3>1, <3>2, OrderToHost
    <3>4. \A x \in Lines(b2h') : x \in Lines(b2h) \/ (x.type = m.type /\ x.seq = m.seq)
      BY <2>4, <3>2, SentToHost
    <3>5. signed <= seq
      BY DEF IInv, Books, InOrder
    <3>6. \A x \in Lines(b2h') : x.type \in Numbered => x.seq >= signed
      BY <1>1, <2>2, <3>4, <3>5 DEF LineOrder
    <3>7. UNCHANGED <<ident, notary, h2b, seq>>
      BY <2>1 DEF host
    <3>. QED BY <3>3, <3>6, <3>7 DEF LineOrder, Lines, signed, InSeqOrder
  <2>. QED BY <2>2, <2>3, <2>4
<1>. QED BY <1>3, <1>4, <1>5, <1>6 DEF BoardNext

\* A step of the host keeps it too: a signature is for the oldest line there is.
LEMMA HostOrder ==
  ASSUME SessionAssumption, IInv, LineOrder, LedgersFit, HostNext
  PROVE LineOrder'
<1>1. signed \in Nat /\ LinesTyped
  BY DEF IInv, Books, BooksTyped, signed
<1>2. UNCHANGED board /\ (b2h' = b2h \/ HostTakes) /\ (ident = "established" => ident' = "established")
  BY HostMoves
<1>3. PICK a \in ToBoard : Charged(a) /\ Timely(a)
  BY HostAnswers
<1>4. InSeqOrder(b2h', Numbered) /\ Lines(b2h') \subseteq Lines(b2h)
  <2>1. CASE HostTakes
    BY <1>1, <2>1, LinesTail, OrderTail DEF HostTakes, LinesTyped, LineOrder
  <2>2. CASE b2h' = b2h
    BY <2>2 DEF LineOrder
  <2>. QED BY <1>2, <2>1, <2>2
<1>5. \A x \in Lines(b2h') : x.type \in Numbered => x.seq >= signed'
  <2>1. CASE UNCHANGED notary
    BY <1>4, <2>1 DEF LineOrder, signed
  <2>2. CASE HostTakes /\ Head(b2h).type = "SIGNREQ" /\ signed' = Head(b2h).seq
    <3>1. b2h # << >> /\ b2h' = Tail(b2h) /\ Head(b2h).type \in Numbered
      BY <2>2 DEF HostTakes, Numbered
    <3>2. \A x \in Lines(Tail(b2h)) : x.type \in Numbered => Head(b2h).seq <= x.seq
      BY <1>1, <3>1, OrderTail DEF LinesTyped, LineOrder
    <3>3. \A x \in Lines(b2h') : x.seq \in Nat
      <4>1. \A x \in Lines(b2h) : x \in ToHost
        BY <1>1 DEF LinesTyped, Lines
      <4>. QED BY <1>4, <4>1 DEF ToHost
    <3>4. Head(b2h).seq \in Nat
      <4>1. Head(b2h) \in ToHost
        BY <1>1, <3>1, LinesTail DEF LinesTyped
      <4>. QED BY <4>1 DEF ToHost
    <3>. QED BY <2>2, <3>1, <3>2, <3>3, <3>4
  <2>. QED BY <2>1, <2>2, HostMoves
<1>6. \A x \in Lines(h2b') : x.type = "IDENTACK" => ident' = "established"
  <2>1. SendToBoard(a) \/ h2b' = h2b
    BY <1>3 DEF Charged
  <2>2. \A x \in Lines(h2b') : x \in Lines(h2b) \/ x.type = a.type
    BY <1>1, <2>1, SentToBoard
  <2>. QED BY <1>2, <1>3, <2>2 DEF LineOrder, Timely
<1>7. seq' = seq
  BY <1>2 DEF board
<1>. QED BY <1>2, <1>4, <1>5, <1>6, <1>7 DEF LineOrder, Lines, signed, InSeqOrder

\* A step of the board leaves the reason of the end as it was: the record that
\* ended it is a stop, and a stop is never acknowledged without a signature.
LEMMA BoardEnd ==
  ASSUME SessionAssumption, IInv, EndFits, BoardNext \/ BoardReset
  PROVE EndFits'
<1>1. UNCHANGED host
  BY AckMoves, HearMoves, InsideMoves, SendMoves DEF BoardNext
<1>2. UNCHANGED <<end, notary>>
  BY <1>1 DEF host
<1>3. ASSUME outcome = "STOP_SIGN", signed < seq PROVE outcome' = outcome /\ seq' = seq
  <2>1. stage \notin {"ident", "sign", "work"}
    BY <1>3 DEF IInv, Books, BooksTyped, StageFits, signed
  <2>2. CASE BoardRecvAck
    <3>1. ~(stage = "rec" /\ Head(h2b).type = "RECACK" /\ Head(h2b).seq = seq)
      <4>1. h2b # << >> /\ ReplyIsTrue(Head(h2b))
        BY <2>2, HeadIsTrue, AckMoves
      <4>2. recorded <= signed /\ recorded \in Nat /\ signed \in Nat /\ seq \in Nat
        BY DEF IInv, Books, BooksTyped, InOrder, recorded, signed
      <4>. QED BY <1>3, <4>1, <4>2 DEF ReplyIsTrue
    <3>. QED BY <2>1, <2>2, <3>1, AckMoves
  <2>3. CASE BoardRecvGet \/ BoardRecvRecAckInSign \/ BoardRecvForeign
    BY <2>1, <2>3, HearMoves
  <2>4. CASE BoardBound \/ BoardWork \/ BoardReset
    BY <2>1, <2>4, InsideMoves
  <2>5. CASE BoardSend \/ BoardClose
    BY <2>5, SendMoves
  <2>. QED BY <2>2, <2>3, <2>4, <2>5 DEF BoardNext
<1>. QED BY <1>2, <1>3 DEF EndFits, signed

\* HostProtocol: the record out of order is a stop whose SIGNREQ the host never
\* had, and a SIGNREQ is never out of order.
LEMMA ProtocolEnd ==
  ASSUME SessionAssumption, IInv, LineOrder, HostProtocol
  PROVE EndFits'
<1>. DEFINE m == Head(b2h)
<1>1. /\ HostTakes /\ UNCHANGED board /\ UNCHANGED notary
      /\ \/ m.type = "REC" /\ ~RepeatedRec(m) /\ ~NextRec(m) /\ end' = "PROTOCOL_REC"
         \/ m.type = "SIGNREQ" /\ SignFault(m) # "none"
  BY DEF HostProtocol, Finish
<1>2. LineIsTrue(m) /\ m \in Lines(b2h)
  BY <1>1, HeardIsTrue, LinesTail DEF IInv, LinesTyped, HostTakes
<1>. HIDE DEF m
<1>3. seq \in Nat /\ signed \in Nat /\ recorded \in Nat /\ Len(confirmed) \in Nat
  BY DEF IInv, Books, BooksTyped, signed, recorded
<1>4. Len(confirmed) <= recorded /\ recorded <= signed /\ signed <= seq /\ seq <= Len(confirmed) + 1
  BY DEF IInv, Books, InOrder
<1>5. m.seq \in 1 .. seq /\ m.seq >= signed
  BY <1>1, <1>2 DEF LineIsTrue, LineOrder, Numbered
<1>6. CASE m.type = "REC" /\ ~RepeatedRec(m) /\ ~NextRec(m) /\ end' = "PROTOCOL_REC"
  <2>1. m.seq # recorded
    BY <1>3, <1>5, <1>6 DEF RepeatedRec
  <2>2. m.seq = seq /\ seq = recorded + 1
    BY <1>3, <1>4, <1>5, <2>1
  <2>3. signed < seq
    BY <1>3, <1>4, <1>6, <2>2 DEF NextRec, Pending
  <2>4. outcome \in Outcomes
    BY <1>2, <1>6, <2>2 DEF LineIsTrue, Told
  <2>5. outcome = "STOP_SIGN"
    BY <1>3, <2>3, <2>4 DEF Outcomes, IInv, Books, OutcomeFits
  <2>. QED BY <1>1, <1>6, <2>3, <2>5 DEF EndFits, board, signed
<1>7. CASE m.type = "SIGNREQ" /\ SignFault(m) # "none"
  <2>1. ~(Pending /\ m.seq # signed)
    BY <1>3, <1>4, <1>5 DEF Pending
  <2>2. ident = "established"
    BY <1>3, <1>5 DEF LineOrder
  <2>3. m.seq \in 1 .. signed + 1
    BY <1>3, <1>4, <1>5
  <2>. QED BY <1>7, <2>1, <2>2, <2>3 DEF SignFault
<1>. QED BY <1>1, <1>6, <1>7

\* No other step of the host calls an end over the order, and an end is final.
LEMMA HostEnd ==
  ASSUME SessionAssumption, IInv, LineOrder, EndFits, HostNext
  PROVE EndFits'
<1>1. CASE HostProtocol
  BY <1>1, ProtocolEnd
<1>2. ASSUME ~HostProtocol PROVE end' = end \/ end' \notin OrderCauses
  <2>1. CASE HostIdent \/ HostSign \/ HostReplay \/ HostRecord \/ HostRecordAgain \/ HostClose \/ HostAfterEnd
    BY <2>1 DEF HostIdent, HostSign, HostReplay, HostRecord, HostRecordAgain, HostClose, HostAfterEnd
  <2>2. CASE HostTerm
    <3>1. LineIsTrue(Head(b2h)) /\ Head(b2h).type = "TERM" /\ end' = Head(b2h).body
      BY <2>2, HeardIsTrue DEF HostTerm, Finish
    <3>2. end' = why /\ why \in Causes \cup {"-"}
      BY <3>1 DEF LineIsTrue, IInv, Books, BooksTyped
    <3>. QED BY <3>2 DEF Causes, OrderCauses
  <2>3. CASE HostCrcFailed \/ HostMalformed
    BY <2>3 DEF HostCrcFailed, HostMalformed, Finish, OrderCauses
  <2>4. CASE HostSilence \/ HostBanner
    BY <2>4 DEF HostSilence, HostBanner, Finish, OrderCauses
  <2>. QED BY <1>2, <2>1, <2>2, <2>3, <2>4 DEF HostNext
<1>3. ASSUME end \in OrderCauses PROVE UNCHANGED notary
  <2>1. ~Open
    BY <1>3 DEF Open, OrderCauses
  <2>. QED BY <2>1 DEF HostNext, HostIdent, HostSign, HostReplay, HostRecord, HostRecordAgain, HostProtocol,
       HostClose, HostTerm, HostCrcFailed, HostMalformed, HostAfterEnd, HostSilence, HostBanner
<1>4. UNCHANGED board
  BY HostMoves
<1>5. UNCHANGED <<seq, outcome>>
  BY <1>4 DEF board
<1>. QED BY <1>1, <1>2, <1>3, <1>5 DEF EndFits, signed

-----------------------------------------------------------------------------
(* How many answers about one record can still arrive.                      *)

Tally(q, k) == {i \in DOMAIN q : q[i].type \in RecReplies /\ q[i].seq = k}
Count(q, k) == Cardinality(Tally(q, k))

\* The answers about the last record on their way to the board are in order.
ReplyOrder ==
  /\ InSeqOrder(h2b, RecReplies)
  /\ \A m \in Lines(h2b) : m.type \in RecReplies => m.seq \in 1 .. signed
  /\ stage = "sign" => \A m \in Lines(h2b) : m.type \in RecReplies => m.seq = seq - 1

\* Every answer about a record was charged, or is the link's repetition; in the
\* wait for the next answer one of them was the acknowledgement that was taken,
\* and the late ones borne so far are charged too.
CountFits ==
  /\ \A k \in Cands : Count(h2b, k) <= Calls(k) + faults
  /\ stage = "sign" => prevAcks \in Nat
  /\ stage = "sign" /\ seq >= 2 => Count(h2b, seq - 1) + prevAcks + 1 <= Calls(seq - 1) + faults

\* The count of a queue is a number.
LEMMA CountType ==
  ASSUME NEW T, NEW q \in Seq(T), NEW k
  PROVE IsFiniteSet(Tally(q, k)) /\ Count(q, k) \in Nat
<1>1. IsFiniteSet(1 .. Len(q)) /\ DOMAIN q = 1 .. Len(q)
  BY FS_Interval
<1>2. Tally(q, k) \in SUBSET (1 .. Len(q))
  BY <1>1 DEF Tally
<1>3. IsFiniteSet(Tally(q, k))
  BY <1>1, <1>2, FS_Subset
<1>. QED BY <1>3, FS_CardinalityType DEF Count

\* A line added counts if it is such an answer.
LEMMA CountAppend ==
  ASSUME NEW T, NEW q \in Seq(T), NEW m \in T, NEW k
  PROVE Count(Append(q, m), k) = Count(q, k) + (IF m.type \in RecReplies /\ m.seq = k THEN 1 ELSE 0)
<1>1. /\ DOMAIN Append(q, m) = 1 .. Len(q) + 1 /\ DOMAIN q = 1 .. Len(q) /\ Len(q) \in Nat
      /\ \A i \in 1 .. Len(q) : Append(q, m)[i] = q[i]
      /\ Append(q, m)[Len(q) + 1] = m
  OBVIOUS
<1>. DEFINE r == Append(q, m)
            n == Len(q) + 1
<1>2. n \in Nat /\ n \notin DOMAIN q /\ DOMAIN r = DOMAIN q \cup {n}
  BY <1>1
<1>3. (\A i \in DOMAIN q : r[i] = q[i]) /\ r[n] = m
  BY <1>1
<1>. HIDE DEF r, n
<1>4. CASE m.type \in RecReplies /\ m.seq = k
  <2>1. Tally(r, k) = Tally(q, k) \cup {n} /\ n \notin Tally(q, k)
    BY <1>2, <1>3, <1>4 DEF Tally
  <2>2. IsFiniteSet(Tally(q, k))
    BY CountType
  <2>3. Cardinality(Tally(q, k) \cup {n}) = Cardinality(Tally(q, k)) + 1
    BY <2>1, <2>2, FS_AddElement
  <2>. QED BY <1>4, <2>1, <2>3 DEF Count, r
<1>5. CASE ~(m.type \in RecReplies /\ m.seq = k)
  <2>1. Tally(r, k) = Tally(q, k)
    BY <1>2, <1>3, <1>5 DEF Tally
  <2>2. Count(r, k) = Count(q, k) /\ Count(q, k) \in Nat
    BY <2>1, CountType DEF Count
  <2>. QED BY <1>5, <2>2 DEF r
<1>. QED BY <1>4, <1>5

\* What is left of a queue counts no more than what stood there.
LEMMA CountShift ==
  ASSUME NEW T, NEW q \in Seq(T), NEW r \in Seq(T), NEW n \in Nat, NEW k,
         \A i \in DOMAIN r : n + i \in DOMAIN q /\ q[n + i] = r[i]
  PROVE Count(r, k) <= Cardinality(Tally(q, k) \ (1 .. n))
<1>. DEFINE S == Tally(r, k)
            U == Tally(q, k) \ (1 .. n)
            f == [i \in S |-> n + i]
<1>1. S \subseteq DOMAIN r /\ DOMAIN r = 1 .. Len(r) /\ Len(r) \in Nat
  BY DEF Tally
<1>2. \A i \in S : i \in Nat /\ i >= 1
  BY <1>1
<1>3. \A i \in S : n + i \in U
  BY <1>1, <1>2 DEF Tally
<1>4. IsFiniteSet(U)
  <2>1. U \in SUBSET Tally(q, k)
    OBVIOUS
  <2>2. IsFiniteSet(Tally(q, k))
    BY CountType
  <2>. QED BY <2>1, <2>2, FS_Subset
<1>5. f \in [S -> U]
  BY <1>3
<1>6. \A a, b \in DOMAIN f : f[a] = f[b] => a = b
  BY <1>2
<1>7. f \in Injection(S, U)
  BY <1>5, <1>6 DEF Injection, IsInjective
<1>. HIDE DEF S, U, f
<1>8. Cardinality(S) <= Cardinality(U)
  BY <1>4, <1>7, FS_Injection
<1>. QED BY <1>8 DEF S, U, Count

\* Taking the head takes what it counts.
LEMMA CountTail ==
  ASSUME NEW T, NEW q \in Seq(T), q # << >>, NEW k
  PROVE Count(Tail(q), k) + (IF Head(q).type \in RecReplies /\ Head(q).seq = k THEN 1 ELSE 0) <= Count(q, k)
<1>1. /\ Len(q) \in Nat /\ Len(q) >= 1 /\ DOMAIN q = 1 .. Len(q) /\ Head(q) = q[1]
      /\ DOMAIN Tail(q) = 1 .. Len(q) - 1 /\ Tail(q) \in Seq(T)
      /\ \A i \in 1 .. Len(q) - 1 : Tail(q)[i] = q[1 + i]
  OBVIOUS
<1>2. \A i \in DOMAIN Tail(q) : 1 + i \in DOMAIN q /\ q[1 + i] = Tail(q)[i]
  BY <1>1
<1>3. Count(Tail(q), k) <= Cardinality(Tally(q, k) \ (1 .. 1))
  BY <1>1, <1>2, CountShift
<1>4. 1 .. 1 = {1}
  OBVIOUS
<1>5. Cardinality(Tally(q, k) \ {1}) = IF 1 \in Tally(q, k) THEN Count(q, k) - 1 ELSE Count(q, k)
  BY CountType, FS_RemoveElement DEF Count
<1>6. 1 \in Tally(q, k) <=> Head(q).type \in RecReplies /\ Head(q).seq = k
  BY <1>1 DEF Tally
<1>7. Count(q, k) \in Nat /\ Count(Tail(q), k) \in Nat
  BY <1>1, CountType
<1>. QED BY <1>3, <1>4, <1>5, <1>6, <1>7

\* A flush only takes.
LEMMA CountFlush ==
  ASSUME NEW T, NEW q \in Seq(T), NEW n \in 0 .. Len(q), NEW k
  PROVE Count(SubSeq(q, n + 1, Len(q)), k) <= Count(q, k)
<1>. DEFINE r == SubSeq(q, n + 1, Len(q))
<1>1. /\ Len(q) \in Nat /\ DOMAIN q = 1 .. Len(q) /\ n \in Nat
      /\ DOMAIN r = 1 .. Len(q) - n
      /\ \A i \in 1 .. Len(q) - n : r[i] = q[n + i]
  OBVIOUS
<1>2. r \in Seq(T)
  BY LinesFlush
<1>3. \A i \in DOMAIN r : n + i \in DOMAIN q /\ q[n + i] = r[i]
  BY <1>1
<1>. HIDE DEF r
<1>4. Count(r, k) <= Cardinality(Tally(q, k) \ (1 .. n))
  BY <1>1, <1>2, <1>3, CountShift
<1>5. Tally(q, k) \ (1 .. n) \in SUBSET Tally(q, k) /\ IsFiniteSet(Tally(q, k))
  BY CountType
<1>6. /\ Cardinality(Tally(q, k) \ (1 .. n)) <= Cardinality(Tally(q, k))
      /\ Cardinality(Tally(q, k) \ (1 .. n)) \in Nat
  BY <1>5, FS_Subset, FS_CardinalityType
<1>7. Count(r, k) \in Nat /\ Count(q, k) \in Nat
  BY <1>2, CountType
<1>. QED BY <1>4, <1>6, <1>7 DEF Count, r

\* A transmission counts once, and once more when the link repeats it.
LEMMA CountSent ==
  ASSUME LinesTyped, faults \in Nat, NEW m \in ToBoard, NEW k, SendToBoard(m)
  PROVE Count(h2b', k) <= Count(h2b, k) + (IF m.type \in RecReplies /\ m.seq = k THEN 1 ELSE 0) + (faults' - faults)
<1>. DEFINE n == [m EXCEPT !.form = "broken"]
            p == Append(h2b, m)
            hit == IF m.type \in RecReplies /\ m.seq = k THEN 1 ELSE 0
<1>1. n \in ToBoard /\ n.type = m.type /\ n.seq = m.seq /\ h2b \in Seq(ToBoard)
  BY DEF ToBoard, LinesTyped
<1>2. \/ h2b' = p /\ faults' = faults
      \/ faults' = faults + 1 /\ (h2b' = h2b \/ h2b' = Append(h2b, n) \/ h2b' = Append(p, m))
  BY DEF SendToBoard
<1>3. hit \in {0, 1}
  OBVIOUS
<1>. HIDE DEF n, p
<1>4. Count(h2b, k) \in Nat /\ p \in Seq(ToBoard)
  BY <1>1, CountType DEF p
<1>5. Count(p, k) = Count(h2b, k) + hit
  BY <1>1, CountAppend DEF p
<1>6. Count(Append(h2b, n), k) = Count(h2b, k) + hit
  BY <1>1, CountAppend
<1>7. Count(Append(p, m), k) = Count(p, k) + hit
  BY <1>4, CountAppend
<1>. HIDE DEF hit
<1>8. Count(h2b', k) <= Count(h2b, k) + hit + (faults' - faults)
  <2>1. CASE h2b' = p /\ faults' = faults
    <3>1. Count(h2b', k) = Count(h2b, k) + hit
      BY <1>5, <2>1
    <3>. QED BY <1>3, <1>4, <2>1, <3>1
  <2>2. CASE faults' = faults + 1 /\ h2b' = h2b
    <3>1. Count(h2b', k) = Count(h2b, k)
      BY <2>2
    <3>. QED BY <1>3, <1>4, <2>2, <3>1
  <2>3. CASE faults' = faults + 1 /\ h2b' = Append(h2b, n)
    <3>1. Count(h2b', k) = Count(h2b, k) + hit
      BY <1>6, <2>3
    <3>. QED BY <1>3, <1>4, <2>3, <3>1
  <2>4. CASE faults' = faults + 1 /\ h2b' = Append(p, m)
    <3>1. Count(h2b', k) = Count(h2b, k) + hit + hit
      BY <1>5, <1>7, <2>4
    <3>. QED BY <1>3, <1>4, <2>4, <3>1
  <2>. QED BY <1>2, <2>1, <2>2, <2>3, <2>4
<1>. QED BY <1>8 DEF hit

\* A step of the board keeps the order of the answers: the candidate it starts
\* has only answers about the candidate before still on their way.
LEMMA BoardReplies ==
  ASSUME SessionAssumption, IInv, ReplyOrder, BoardNext \/ BoardReset
  PROVE ReplyOrder'
<1>1. seq \in Nat /\ signed \in Nat /\ signed <= seq /\ LinesTyped
  BY DEF IInv, Books, BooksTyped, InOrder, signed
<1>2. ASSUME UNCHANGED host, Lines(h2b') \subseteq Lines(h2b), InSeqOrder(h2b', RecReplies),
             stage' = "sign" => \A x \in Lines(h2b') : x.type \in RecReplies => x.seq = seq' - 1
      PROVE ReplyOrder'
  <2>1. UNCHANGED notary
    BY <1>2 DEF host
  <2>. QED BY <1>2, <2>1 DEF ReplyOrder, signed, Lines, InSeqOrder
<1>3. CASE BoardRecvAck
  <2>1. /\ h2b # << >> /\ Left /\ UNCHANGED host
        /\ \/ stage' # "sign"
           \/ /\ stage' = "sign" /\ seq' = seq + 1
              /\ \/ stage = "ident"
                 \/ stage = "rec" /\ Head(h2b).type = "RECACK" /\ Head(h2b).seq = seq
    BY <1>3, AckMoves
  <2>2. Lines(h2b') \subseteq Lines(Tail(h2b)) /\ Lines(h2b') \subseteq Lines(h2b) /\ InSeqOrder(h2b', RecReplies)
    BY <1>1, <2>1, LeftKeeps DEF ReplyOrder
  <2>3. CASE stage = "ident"
    <3>1. seq = 0
      BY <2>3 DEF IInv, Books, StageFits
    <3>2. \A x \in Lines(h2b') : x.type \notin RecReplies
      BY <1>1, <2>2, <3>1 DEF ReplyOrder
    <3>. QED BY <1>2, <2>1, <2>2, <3>2
  <2>4. CASE stage' = "sign" /\ seq' = seq + 1 /\ Head(h2b).type = "RECACK" /\ Head(h2b).seq = seq
    <3>1. \A x \in Lines(Tail(h2b)) : x.type \in RecReplies => seq <= x.seq
      BY <1>1, <2>1, <2>4, OrderTail DEF RecReplies, ReplyOrder, LinesTyped
    <3>2. \A x \in Lines(h2b') : x.type \in RecReplies => x.seq = seq
      BY <1>1, <2>2, <3>1 DEF ReplyOrder
    <3>3. \A x \in Lines(h2b') : x.type \in RecReplies => x.seq = seq' - 1
      BY <1>1, <2>4, <3>2
    <3>. QED BY <1>2, <2>1, <2>2, <3>3
  <2>5. CASE stage' # "sign"
    BY <1>2, <2>1, <2>2, <2>5
  <2>. QED BY <2>1, <2>3, <2>4, <2>5
<1>4. CASE BoardRecvGet \/ BoardRecvRecAckInSign \/ BoardRecvForeign
  <2>1. h2b # << >> /\ h2b' = Tail(h2b) /\ UNCHANGED host /\ seq' = seq /\ (stage' = "sign" => stage = "sign")
    BY <1>4, HearMoves
  <2>2. Lines(h2b') \subseteq Lines(h2b) /\ InSeqOrder(h2b', RecReplies)
    BY <1>1, <2>1, LinesTail, OrderTail DEF LinesTyped, ReplyOrder
  <2>. QED BY <1>2, <2>1, <2>2 DEF ReplyOrder
<1>5. CASE BoardBound \/ BoardWork \/ BoardReset
  <2>1. h2b' = h2b /\ UNCHANGED host /\ seq' = seq /\ (stage' = "sign" => stage = "sign")
    BY <1>5, InsideMoves
  <2>. QED BY <1>2, <2>1 DEF ReplyOrder
<1>6. CASE BoardSend \/ BoardClose
  <2>1. h2b' = h2b /\ UNCHANGED host /\ seq' = seq /\ (stage' = "sign" => stage = "sign")
    BY <1>6, SendMoves
  <2>. QED BY <1>2, <2>1 DEF ReplyOrder
<1>. QED BY <1>3, <1>4, <1>5, <1>6 DEF BoardNext

\* A step of the host keeps it too.
LEMMA HostReplies ==
  ASSUME SessionAssumption, IInv, LineOrder, LedgersFit, ReplyOrder, HostNext
  PROVE ReplyOrder'
<1>1. signed \in Nat /\ LinesTyped
  BY DEF IInv, Books, BooksTyped, signed
<1>2. PICK a \in ToBoard : Charged(a) /\ Timely(a)
  BY HostAnswers
<1>3. UNCHANGED <<stage, seq>> /\ signed' \in Nat /\ signed' >= signed
  <2>1. UNCHANGED board /\ (UNCHANGED notary \/ signed' = signed + 1)
    BY HostMoves
  <2>2. signed' = signed \/ signed' = signed + 1
    BY <2>1 DEF signed
  <2>. QED BY <1>1, <2>1, <2>2 DEF board
<1>4. SendToBoard(a) \/ h2b' = h2b
  BY <1>2 DEF Charged
<1>5. \A x \in Lines(h2b') : x \in Lines(h2b) \/ (x.type = a.type /\ x.seq = a.seq)
  BY <1>1, <1>4, SentToBoard
<1>6. a.seq \in Nat
  BY DEF ToBoard
<1>7. \A x \in Lines(h2b) : x.type \in RecReplies => x.seq \in 1 .. signed'
  BY <1>1, <1>3 DEF ReplyOrder
<1>8. a.type \in RecReplies => a.seq \in 1 .. signed' /\ \A x \in Lines(h2b) : x.type \in RecReplies => x.seq <= a.seq
  BY <1>2, <1>3, <1>6, <1>7 DEF Timely
<1>9. InSeqOrder(h2b', RecReplies)
  <2>1. CASE h2b' = h2b
    BY <2>1 DEF ReplyOrder
  <2>2. CASE SendToBoard(a)
    BY <1>1, <1>8, <2>2, OrderToBoard DEF ReplyOrder
  <2>. QED BY <1>4, <2>1, <2>2
<1>10. \A x \in Lines(h2b') : x.type \in RecReplies => x.seq \in 1 .. signed' /\ (stage' = "sign" => x.seq = seq' - 1)
  BY <1>2, <1>3, <1>5, <1>7, <1>8 DEF ReplyOrder, Timely
<1>. QED BY <1>9, <1>10 DEF ReplyOrder, Lines, signed, InSeqOrder

\* What is left of the receiver counts no more than what stood behind the head.
LEMMA LeftCounts ==
  ASSUME LinesTyped, h2b # << >>, Left, NEW k
  PROVE /\ Count(h2b', k) + (IF Head(h2b).type \in RecReplies /\ Head(h2b).seq = k THEN 1 ELSE 0) <= Count(h2b, k)
        /\ Count(h2b', k) \in Nat /\ Count(h2b, k) \in Nat
<1>. DEFINE r == Tail(h2b)
            hit == IF Head(h2b).type \in RecReplies /\ Head(h2b).seq = k THEN 1 ELSE 0
<1>1. h2b \in Seq(ToBoard) /\ r \in Seq(ToBoard)
  BY LinesTail DEF LinesTyped
<1>2. Count(r, k) + hit <= Count(h2b, k)
  BY <1>1, CountTail
<1>3. h2b' = r \/ \E n \in 0 .. Len(r) : h2b' = SubSeq(r, n + 1, Len(r))
  BY DEF Left
<1>4. hit \in {0, 1}
  OBVIOUS
<1>. HIDE DEF r, hit
<1>5. Count(h2b', k) <= Count(r, k) /\ h2b' \in Seq(ToBoard)
  <2>1. CASE h2b' = r
    <3>1. Count(r, k) \in Nat
      BY <1>1, CountType
    <3>. QED BY <1>1, <2>1, <3>1
  <2>2. ASSUME NEW n \in 0 .. Len(r), h2b' = SubSeq(r, n + 1, Len(r))
        PROVE Count(h2b', k) <= Count(r, k) /\ h2b' \in Seq(ToBoard)
    BY <1>1, <2>2, CountFlush, LinesFlush
  <2>. QED BY <1>3, <2>1, <2>2
<1>6. Count(h2b', k) \in Nat /\ Count(h2b, k) \in Nat /\ Count(r, k) \in Nat
  BY <1>1, <1>5, CountType
<1>7. Count(h2b', k) + hit <= Count(h2b, k)
  BY <1>2, <1>4, <1>5, <1>6
<1>. QED BY <1>6, <1>7 DEF hit

\* A step of the board keeps the count: what it takes as a late answer it no
\* longer has in its receiver.
LEMMA BoardCount ==
  ASSUME SessionAssumption, IInv, LedgersFit, ReplyOrder, CountFits, BoardNext \/ BoardReset
  PROVE LedgersFit' /\ CountFits'
<1>1. seq \in Nat /\ NCand \in Nat /\ seq <= NCand /\ MaxFaults \in Nat /\ LinesTyped /\ faults \in Nat
  BY DEF IInv, Books, BooksTyped, StageFits, SessionAssumption, LedgersFit
<1>2. \A k \in Cands : <<"REC", k>> \in Ledgers /\ k \in Nat
  BY DEF SessionAssumption, Cands, Ledgers, Seqs
<1>3. ASSUME NEW k \in Cands PROVE Calls(k) \in Nat
  <2>1. acks[<<"REC", k>>] \in Nat /\ gets[<<"REC", k>>] \in Nat
    BY <1>2 DEF LedgersFit
  <2>. QED BY <2>1 DEF Calls
<1>4. seq >= 2 => seq - 1 \in Cands
  BY <1>1 DEF Cands
<1>5. ASSUME UNCHANGED host, faults' \in Nat, faults' <= MaxFaults, faults' >= faults,
             \A k \in Cands : Count(h2b', k) \in Nat /\ Count(h2b', k) <= Count(h2b, k),
             stage' = "sign" => /\ prevAcks' \in Nat
                                /\ seq' >= 2 => Count(h2b', seq' - 1) + prevAcks' + 1 <= Calls(seq' - 1) + faults'
      PROVE LedgersFit' /\ CountFits'
  <2>1. UNCHANGED <<gets, acks, records>>
    BY <1>5 DEF host
  <2>2. LedgersFit'
    BY <1>5, <2>1 DEF LedgersFit, recorded
  <2>3. ASSUME NEW k \in Cands PROVE Count(h2b', k) <= Calls(k) + faults'
    <3>1. Count(h2b, k) <= Calls(k) + faults /\ Count(h2b, k) \in Nat
      BY <1>1, CountType DEF CountFits, LinesTyped
    <3>. QED BY <1>1, <1>3, <1>5, <3>1
  <2>4. \A k : Calls(k)' = Calls(k) /\ Count(h2b, k)' = Count(h2b', k)
    BY <2>1 DEF Calls, Count, Tally
  <2>5. (\A k \in Cands : Count(h2b, k) <= Calls(k) + faults)'
    BY <2>3, <2>4
  <2>6. (stage = "sign" /\ seq >= 2 => Count(h2b, seq - 1) + prevAcks + 1 <= Calls(seq - 1) + faults)'
    <3>1. Calls(seq - 1)' = acks'[<<"REC", seq' - 1>>] + gets'[<<"REC", seq' - 1>>]
      BY DEF Calls
    <3>2. Calls(seq' - 1) = acks[<<"REC", seq' - 1>>] + gets[<<"REC", seq' - 1>>]
      BY DEF Calls
    <3>3. Count(h2b, seq - 1)' = Count(h2b', seq' - 1)
      BY DEF Count, Tally
    <3>. QED BY <1>5, <2>1, <3>1, <3>2, <3>3
  <2>. QED BY <1>5, <2>2, <2>5, <2>6 DEF CountFits
<1>6. CASE BoardRecvAck
  <2>1. /\ h2b # << >> /\ Left /\ UNCHANGED faults /\ UNCHANGED host
        /\ \/ stage' # "sign"
           \/ /\ stage' = "sign" /\ seq' = seq + 1 /\ prevAcks' = 0
              /\ \/ stage = "ident"
                 \/ stage = "rec" /\ Head(h2b).type = "RECACK" /\ Head(h2b).seq = seq
    BY <1>6, AckMoves
  <2>2. ASSUME NEW k
        PROVE /\ Count(h2b', k) + (IF Head(h2b).type \in RecReplies /\ Head(h2b).seq = k THEN 1 ELSE 0) <= Count(h2b, k)
              /\ Count(h2b', k) \in Nat /\ Count(h2b, k) \in Nat
    BY <1>1, <2>1, LeftCounts
  <2>3. ASSUME NEW k \in Cands PROVE Count(h2b', k) \in Nat /\ Count(h2b', k) <= Count(h2b, k)
    BY <2>2
  <2>4. ASSUME stage' = "sign", seq' >= 2
        PROVE Count(h2b', seq' - 1) + prevAcks' + 1 <= Calls(seq' - 1) + faults'
    <3>1. seq' = seq + 1 /\ prevAcks' = 0 /\ seq >= 1
      BY <1>1, <2>1, <2>4
    <3>2. Head(h2b).type = "RECACK" /\ Head(h2b).seq = seq
      BY <2>1, <2>4, <3>1 DEF IInv, Books, StageFits
    <3>3. Count(h2b', seq) + 1 <= Count(h2b, seq) /\ Count(h2b', seq) \in Nat /\ Count(h2b, seq) \in Nat
      BY <2>2, <3>2 DEF RecReplies
    <3>4. seq \in Cands
      BY <1>1, <3>1 DEF Cands
    <3>5. Count(h2b, seq) <= Calls(seq) + faults /\ Calls(seq) \in Nat
      BY <1>3, <3>4 DEF CountFits
    <3>6. seq' - 1 = seq
      BY <1>1, <3>1
    <3>7. Count(h2b', seq) + 0 + 1 <= Calls(seq) + faults
      BY <1>1, <3>3, <3>5
    <3>. QED BY <2>1, <3>1, <3>6, <3>7
  <2>. QED BY <1>1, <1>5, <2>1, <2>3, <2>4 DEF LedgersFit
<1>7. CASE BoardRecvGet \/ BoardRecvRecAckInSign \/ BoardRecvForeign
  <2>1. /\ h2b # << >> /\ h2b' = Tail(h2b) /\ UNCHANGED faults /\ UNCHANGED host /\ seq' = seq
        /\ stage' = "sign" => /\ stage = "sign"
                              /\ \/ prevAcks' = prevAcks
                                 \/ prevAcks' = prevAcks + 1 /\ StrictLine(Head(h2b))
    BY <1>7, HearMoves
  <2>2. ASSUME NEW k
        PROVE /\ Count(h2b', k) + (IF Head(h2b).type \in RecReplies /\ Head(h2b).seq = k THEN 1 ELSE 0) <= Count(h2b, k)
              /\ Count(h2b', k) \in Nat /\ Count(h2b, k) \in Nat
    BY <1>1, <2>1, LeftCounts DEF Left
  <2>3. ASSUME NEW k \in Cands PROVE Count(h2b', k) \in Nat /\ Count(h2b', k) <= Count(h2b, k)
    BY <2>2
  <2>4. stage' = "sign" => prevAcks \in Nat /\ prevAcks' \in Nat
    BY <2>1 DEF CountFits
  <2>5. ASSUME stage' = "sign", seq' >= 2
        PROVE Count(h2b', seq' - 1) + prevAcks' + 1 <= Calls(seq' - 1) + faults'
    <3>1. Count(h2b, seq - 1) + prevAcks + 1 <= Calls(seq - 1) + faults
      BY <2>1, <2>5 DEF CountFits
    <3>2. Calls(seq - 1) \in Nat
      BY <1>3, <1>4, <2>1, <2>5
    <3>3. CASE prevAcks' = prevAcks
      <4>1. Count(h2b', seq - 1) <= Count(h2b, seq - 1) /\ Count(h2b', seq - 1) \in Nat /\ Count(h2b, seq - 1) \in Nat
        BY <2>2
      <4>2. Count(h2b', seq - 1) + prevAcks' + 1 <= Calls(seq - 1) + faults
        BY <1>1, <2>4, <2>5, <3>1, <3>2, <3>3, <4>1
      <4>. QED BY <2>1, <4>2
    <3>4. CASE prevAcks' = prevAcks + 1 /\ StrictLine(Head(h2b))
      <4>1. Head(h2b) \in Lines(h2b) /\ Head(h2b).type \in RecReplies
        BY <1>1, <2>1, <3>4, LinesTail DEF LinesTyped, StrictLine, RecReplies
      <4>2. Head(h2b).seq = seq - 1
        BY <2>1, <2>5, <4>1 DEF ReplyOrder
      <4>3. Count(h2b', seq - 1) + 1 <= Count(h2b, seq - 1) /\ Count(h2b', seq - 1) \in Nat /\ Count(h2b, seq - 1) \in Nat
        BY <2>2, <4>1, <4>2
      <4>4. Count(h2b', seq - 1) + prevAcks' + 1 <= Calls(seq - 1) + faults
        BY <1>1, <2>4, <2>5, <3>1, <3>2, <3>4, <4>3
      <4>. QED BY <2>1, <4>4
    <3>. QED BY <2>1, <2>5, <3>3, <3>4
  <2>. QED BY <1>1, <1>5, <2>1, <2>3, <2>4, <2>5 DEF LedgersFit
<1>8. CASE BoardBound \/ BoardWork \/ BoardReset \/ BoardSend \/ BoardClose
  <2>1. /\ h2b' = h2b /\ UNCHANGED host /\ seq' = seq
        /\ stage' = "sign" => stage = "sign" /\ prevAcks' = prevAcks
    <3>1. CASE BoardBound \/ BoardWork \/ BoardReset
      BY <3>1, InsideMoves
    <3>2. CASE BoardSend \/ BoardClose
      BY <3>2, SendMoves
    <3>. QED BY <1>8, <3>1, <3>2
  <2>2. faults' \in Nat /\ faults' <= MaxFaults /\ faults' >= faults
    <3>1. CASE BoardBound \/ BoardWork \/ BoardReset
      <4>1. faults' = faults \/ (faults' = faults + 1 /\ faults < MaxFaults)
        BY <3>1, InsideMoves
      <4>. QED BY <1>1, <4>1 DEF LedgersFit
    <3>2. CASE BoardSend \/ BoardClose
      <4>1. PICK m \in ToHost :
               SendToHost(m) \/ (b2h' = Append(b2h, [m EXCEPT !.form = "crc"]) /\ faults' = faults)
               \/ UNCHANGED <<b2h, faults>>
        BY <3>2, SendMoves
      <4>2. SendToHost(m) \/ UNCHANGED faults
        BY <4>1
      <4>. QED BY <1>1, <4>2, FaultsFit DEF LedgersFit
    <3>. QED BY <1>8, <3>1, <3>2
  <2>3. ASSUME NEW k PROVE Count(h2b', k) = Count(h2b, k) /\ Count(h2b, k) \in Nat
    BY <1>1, <2>1, CountType DEF LinesTyped
  <2>4. ASSUME NEW k \in Cands PROVE Count(h2b', k) \in Nat /\ Count(h2b', k) <= Count(h2b, k)
    BY <2>3
  <2>5. stage' = "sign" => prevAcks \in Nat /\ prevAcks' \in Nat
    BY <2>1 DEF CountFits
  <2>6. ASSUME stage' = "sign", seq' >= 2
        PROVE Count(h2b', seq' - 1) + prevAcks' + 1 <= Calls(seq' - 1) + faults'
    <3>1. Count(h2b, seq - 1) + prevAcks + 1 <= Calls(seq - 1) + faults
      BY <2>1, <2>6 DEF CountFits
    <3>2. Calls(seq - 1) \in Nat /\ Count(h2b, seq - 1) \in Nat
      BY <1>3, <1>4, <2>1, <2>3, <2>6
    <3>3. Count(h2b, seq - 1) + prevAcks + 1 <= Calls(seq - 1) + faults'
      BY <1>1, <2>2, <2>5, <2>6, <3>1, <3>2
    <3>. QED BY <2>1, <2>6, <3>3
  <2>. QED BY <1>5, <2>1, <2>2, <2>4, <2>5, <2>6
<1>. QED BY <1>6, <1>7, <1>8 DEF BoardNext

\* Arithmetic of one charge: n answers counted, c charged, f faults.
LEMMA ChargeAdds ==
  ASSUME NEW n0 \in Nat, NEW n1 \in Nat, NEW c0 \in Nat, NEW c1 \in Nat, NEW f0 \in Nat, NEW f1 \in Nat,
         NEW hit \in Nat, NEW p \in Nat,
         n0 + p <= c0 + f0, n1 <= n0 + hit + (f1 - f0), c1 >= c0 + hit
  PROVE n1 + p <= c1 + f1
OBVIOUS

\* A step of the host is charged for what it sends.
LEMMA HostCount ==
  ASSUME SessionAssumption, IInv, LineOrder, LedgersFit, CountFits, HostNext
  PROVE CountFits'
<1>1. /\ seq \in Nat /\ NCand \in Nat /\ seq <= NCand /\ LinesTyped /\ faults \in Nat
  BY DEF IInv, Books, BooksTyped, StageFits, SessionAssumption, LedgersFit
<1>2. LedgersFit'
  BY HostAnswers
<1>3. ASSUME NEW k \in Cands PROVE Calls(k) \in Nat /\ Calls(k)' \in Nat
  <2>1. <<"REC", k>> \in Ledgers
    BY DEF SessionAssumption, Cands, Ledgers, Seqs
  <2>2. acks[<<"REC", k>>] \in Nat /\ gets[<<"REC", k>>] \in Nat
    BY <2>1 DEF LedgersFit
  <2>3. acks'[<<"REC", k>>] \in Nat /\ gets'[<<"REC", k>>] \in Nat
    BY <1>2, <2>1 DEF LedgersFit
  <2>. QED BY <2>2, <2>3 DEF Calls
<1>4. PICK a \in ToBoard : Charged(a)
  BY HostAnswers
<1>5. UNCHANGED <<stage, seq, prevAcks>>
  <2>1. UNCHANGED board
    BY HostMoves
  <2>. QED BY <2>1 DEF board
<1>6. faults' \in Nat /\ h2b \in Seq(ToBoard)
  BY <1>1, <1>2 DEF LedgersFit, LinesTyped
<1>7. ASSUME NEW k \in Cands, NEW p \in Nat, Count(h2b, k) + p <= Calls(k) + faults
      PROVE Count(h2b', k) + p <= Calls(k)' + faults'
  <2>1. SendToBoard(a) \/ h2b' = h2b
    BY <1>4 DEF Charged
  <2>2. h2b' \in Seq(ToBoard)
    BY <1>1, <2>1, SentToBoard
  <2>3. Count(h2b', k) \in Nat /\ Count(h2b, k) \in Nat
    BY <1>6, <2>2, CountType
  <2>. DEFINE hit == IF a.type \in RecReplies /\ a.seq = k THEN 1 ELSE 0
  <2>4. hit \in Nat
    OBVIOUS
  <2>. DEFINE c0 == Calls(k)
              c1 == acks'[<<"REC", k>>] + gets'[<<"REC", k>>]
  <2>7. /\ c1 = Calls(k)' /\ c0 \in Nat /\ c1 \in Nat
        /\ Count(h2b, k) + p <= c0 + faults
    <3>1. c1 = Calls(k)'
      BY DEF Calls
    <3>. QED BY <1>3, <1>7, <3>1
  <2>5. CASE SendToBoard(a) /\ Calls(k)' >= Calls(k) + hit
    <3>1. Count(h2b', k) <= Count(h2b, k) + hit + (faults' - faults)
      BY <1>1, <2>5, CountSent
    <3>2. c1 >= c0 + hit
      BY <2>5, <2>7
    <3>3. Count(h2b', k) + p <= c1 + faults'
      <4>1. c0 \in Nat /\ c1 \in Nat /\ Count(h2b, k) + p <= c0 + faults
        BY <2>7
      <4>2. faults \in Nat /\ faults' \in Nat /\ p \in Nat
        BY <1>1, <1>6, <1>7
      <4>. HIDE DEF hit, c0, c1
      <4>. QED BY ONLY <2>3, <2>4, <3>1, <3>2, <4>1, <4>2, ChargeAdds
    <3>. QED BY <2>7, <3>3
  <2>6. CASE UNCHANGED <<h2b, faults>> /\ Calls(k)' >= Calls(k)
    <3>1. Count(h2b', k) = Count(h2b, k) /\ faults' = faults
      BY <2>6
    <3>2. c1 >= c0
      BY <2>6, <2>7
    <3>3. Count(h2b', k) + p <= c1 + faults'
      <4>. HIDE DEF c0, c1
      <4>. QED BY <1>1, <2>3, <2>7, <3>1, <3>2
    <3>. QED BY <2>7, <3>3
  <2>. QED BY <1>4, <2>5, <2>6 DEF Charged
<1>8. ASSUME NEW k \in Cands PROVE Count(h2b', k) <= Calls(k)' + faults'
  <2>1. Count(h2b, k) <= Calls(k) + faults /\ Count(h2b, k) \in Nat
    BY <1>6, CountType DEF CountFits
  <2>2. Count(h2b, k) + 0 <= Calls(k) + faults
    BY <2>1
  <2>3. SendToBoard(a) \/ h2b' = h2b
    BY <1>4 DEF Charged
  <2>4. h2b' \in Seq(ToBoard)
    BY <1>1, <2>3, SentToBoard
  <2>5. Count(h2b', k) \in Nat
    BY <2>4, CountType
  <2>6. Count(h2b', k) + 0 <= Calls(k)' + faults'
    BY <1>7, <2>2
  <2>. QED BY <2>5, <2>6
<1>9. ASSUME stage = "sign", seq >= 2, NEW k \in Cands, k = seq - 1
      PROVE Count(h2b', k) + (prevAcks + 1) <= Calls(k)' + faults'
  <2>1. Count(h2b, k) + prevAcks + 1 <= Calls(k) + faults /\ prevAcks \in Nat
    BY <1>9 DEF CountFits
  <2>2. Count(h2b, k) \in Nat
    BY <1>6, CountType
  <2>3. Count(h2b, k) + (prevAcks + 1) <= Calls(k) + faults /\ prevAcks + 1 \in Nat
    BY <2>1, <2>2
  <2>. QED BY <1>7, <2>3
<1>10. (\A k \in Cands : Count(h2b, k) <= Calls(k) + faults)'
  <2>1. \A k : Count(h2b, k)' = Count(h2b', k)
    BY DEF Count, Tally
  <2>. QED BY <1>8, <2>1
<1>11. ASSUME stage = "sign", seq >= 2
       PROVE (Count(h2b, seq - 1) + prevAcks + 1 <= Calls(seq - 1) + faults)'
  <2>1. PICK k \in Cands : k = seq - 1
    BY <1>1, <1>11 DEF Cands
  <2>2. Count(h2b', k) + (prevAcks + 1) <= Calls(k)' + faults'
    BY <1>9, <1>11, <2>1
  <2>3. Calls(k)' = acks'[<<"REC", k>>] + gets'[<<"REC", k>>]
    BY DEF Calls
  <2>4. Calls(seq - 1)' = acks'[<<"REC", seq' - 1>>] + gets'[<<"REC", seq' - 1>>]
    BY DEF Calls
  <2>5. Calls(seq - 1)' = Calls(k)'
    BY <1>5, <2>1, <2>3, <2>4
  <2>6. Count(h2b, seq - 1)' = Count(h2b', seq' - 1)
    BY DEF Count, Tally
  <2>7. Count(h2b, seq - 1)' = Count(h2b', k)
    BY <1>5, <2>1, <2>6
  <2>8. prevAcks \in Nat
    BY <1>11 DEF CountFits
  <2>9. Count(h2b', k) \in Nat
    <3>1. SendToBoard(a) \/ h2b' = h2b
      BY <1>4 DEF Charged
    <3>2. h2b' \in Seq(ToBoard)
      BY <1>1, <3>1, SentToBoard
    <3>. QED BY <3>2, CountType
  <2>10. Count(h2b', k) + prevAcks + 1 <= Calls(k)' + faults'
    BY <2>2, <2>8, <2>9
  <2>. QED BY <1>5, <2>5, <2>7, <2>10
<1>. QED BY <1>5, <1>10, <1>11 DEF CountFits

-----------------------------------------------------------------------------
(* The strict rule of the sign wait never stops the session.                *)

\* The bounds leave room: the acknowledgements and re-requests of one record,
\* and what the link repeats of them, are no more than the late ones a sign
\* wait bears and the one that was taken.
ReplyRoom == HostReplays >= 1 /\ HostReplays + HostGets + MaxFaults <= PrevAckLimit + 1

\* An acknowledgement in the sign wait is of the record before, and within the
\* limit.
LEMMA LateAckIsBorne ==
  ASSUME SessionAssumption, ReplyRoom, IInv, LedgersFit, ReplyOrder, CountFits, BoardRecvRecAckInSign
  PROVE PreviousAck(Head(h2b))
<1>. DEFINE m == Head(h2b)
<1>1. h2b # << >> /\ stage = "sign" /\ m.type \in RecReplies
  BY DEF BoardRecvRecAckInSign, Receiving, StrictLine, RecReplies
<1>2. seq \in Nat /\ seq <= NCand /\ NCand \in Nat /\ signed \in Nat /\ signed <= seq /\ h2b \in Seq(ToBoard)
  BY DEF IInv, Books, BooksTyped, InOrder, StageFits, SessionAssumption, LinesTyped, signed
<1>3. m \in Lines(h2b)
  BY <1>1, <1>2, LinesTail
<1>4. m.seq = seq - 1 /\ m.seq \in 1 .. signed
  BY <1>1, <1>3 DEF ReplyOrder
<1>5. seq >= 2
  BY <1>2, <1>4
<1>6. PICK k \in Cands : k = seq - 1
  BY <1>2, <1>5 DEF Cands
<1>7. Count(Tail(h2b), k) + 1 <= Count(h2b, k)
  <2>1. Count(Tail(h2b), k) + (IF m.type \in RecReplies /\ m.seq = k THEN 1 ELSE 0) <= Count(h2b, k)
    BY <1>1, <1>2, CountTail
  <2>. QED BY <1>1, <1>4, <1>6, <2>1
<1>8. Count(h2b, k) \in Nat /\ Count(Tail(h2b), k) \in Nat
  <2>1. Tail(h2b) \in Seq(ToBoard)
    BY <1>1, <1>2, LinesTail
  <2>. QED BY <1>2, <2>1, CountType
<1>9. Count(h2b, k) + prevAcks + 1 <= Calls(k) + faults /\ prevAcks \in Nat
  BY <1>1, <1>5, <1>6 DEF CountFits
<1>10. PICK x \in Nat, y \in Nat : /\ Calls(k) = x + y
                                   /\ y <= HostGets /\ (x <= HostReplays \/ x <= 1)
  <2>1. <<"REC", k>> \in Ledgers
    BY DEF SessionAssumption, Cands, Ledgers, Seqs
  <2>2. acks[<<"REC", k>>] \in Nat /\ gets[<<"REC", k>>] \in Nat
    BY <2>1 DEF LedgersFit
  <2>3. /\ gets[<<"REC", k>>] <= HostGets
        /\ acks[<<"REC", k>>] <= HostReplays \/ acks[<<"REC", k>>] <= 1
    BY DEF LedgersFit
  <2>. QED BY <2>2, <2>3 DEF Calls
<1>11. HostReplays \in Nat /\ HostGets \in Nat /\ MaxFaults \in Nat /\ PrevAckLimit \in Nat
  BY DEF SessionAssumption
<1>12. faults \in Nat /\ faults <= MaxFaults
  BY DEF LedgersFit
<1>13. prevAcks < PrevAckLimit
  <2>1. prevAcks + 2 <= x + y + faults
    BY <1>7, <1>8, <1>9, <1>10, <1>12
  <2>2. x + y + faults <= PrevAckLimit + 1
    BY <1>10, <1>11, <1>12 DEF ReplyRoom
  <2>. QED BY <1>9, <1>10, <1>11, <1>12, <2>1, <2>2
<1>. QED BY <1>4, <1>5, <1>13 DEF PreviousAck

\* No step makes PROTOCOL the board's cause.
LEMMA NoProtocol ==
  ASSUME SessionAssumption, ReplyRoom, IInv, LedgersFit, ReplyOrder, CountFits, why # "PROTOCOL",
         BoardNext \/ BoardReset
  PROVE why' # "PROTOCOL"
<1>1. ASSUME NEW c, Stop(c), c # "PROTOCOL" PROVE why' # "PROTOCOL"
  BY <1>1 DEF Stop
<1>2. outcome # "PROTOCOL" /\ RecStop # "PROTOCOL"
  BY DEF IInv, Books, BooksTyped, Outcomes, RecStop
<1>3. Exhausted => why' # "PROTOCOL"
  <2>1. Exhausted => UNCHANGED why \/ Stop("STOP_IDENT") \/ Stop(RecStop)
    BY DEF Exhausted
  <2>. QED BY <1>1, <1>2, <2>1
<1>4. ASSUME NEW p, ResendOrExhaust(p) \/ Ignored(p) PROVE why' # "PROTOCOL"
  <2>1. UNCHANGED why \/ Exhausted
    BY <1>4 DEF ResendOrExhaust, Ignored
  <2>. QED BY <1>3, <2>1
<1>5. CASE BoardRecvAck
  <2>1. stage \in TxStages /\ Acknowledged(Head(h2b), Tail(h2b))
    BY <1>5 DEF BoardRecvAck, Receiving
  <2>2. UNCHANGED why \/ Stop("IDENT_REFUSED") \/ Stop(outcome)
    BY <2>1 DEF Acknowledged, TxStages
  <2>. QED BY <1>1, <1>2, <2>2
<1>6. CASE BoardRecvGet \/ BoardRecvForeign
  BY <1>4, <1>6 DEF BoardRecvGet, BoardRecvForeign
<1>7. CASE BoardRecvRecAckInSign
  <2>1. Ignored(prevAcks + 1)
    BY <1>7, LateAckIsBorne DEF BoardRecvRecAckInSign
  <2>. QED BY <1>4, <2>1
<1>8. CASE BoardBound
  BY <1>4, <1>8 DEF BoardBound
<1>9. CASE BoardSend \/ BoardReset
  BY <1>9 DEF BoardSend, BoardReset
<1>10. CASE BoardWork
  <2>1. UNCHANGED why \/ Stop("STOP_DEVICE")
    BY <1>10 DEF BoardWork
  <2>. QED BY <1>1, <2>1
<1>11. CASE BoardClose
  <2>1. Stop("COMPLETED") \/ Stop("STOP_DEVICE")
    BY <1>11 DEF BoardClose
  <2>. QED BY <1>1, <2>1
<1>. QED BY <1>5, <1>6, <1>7, <1>8, <1>9, <1>10, <1>11 DEF BoardNext

OrderInv == LineOrder /\ EndFits /\ LedgersFit /\ ReplyOrder /\ CountFits

\* Nothing is on the link and nothing is charged before the first step.
LEMMA InitOrder == SessionAssumption /\ Init => OrderInv /\ why # "PROTOCOL"
<1>. SUFFICES ASSUME SessionAssumption, Init PROVE OrderInv /\ why # "PROTOCOL"
  OBVIOUS
<1>1. b2h = << >> /\ h2b = << >> /\ DOMAIN b2h = {} /\ DOMAIN h2b = {}
  BY DEF Init
<1>2. Lines(b2h) = {} /\ Lines(h2b) = {} /\ InSeqOrder(b2h, Numbered) /\ InSeqOrder(h2b, RecReplies)
  BY <1>1 DEF Lines, InSeqOrder
<1>3. seq = 0 /\ stage = "ident" /\ end = "open" /\ faults = 0 /\ why = "-"
  BY DEF Init
<1>4. LineOrder /\ EndFits /\ ReplyOrder
  BY <1>2, <1>3 DEF LineOrder, EndFits, ReplyOrder, OrderCauses
<1>5. \A k \in Cands : <<"REC", k>> \in Ledgers
  BY DEF SessionAssumption, Cands, Ledgers, Seqs
<1>6. \A k \in Cands : gets[<<"REC", k>>] = 0 /\ acks[<<"REC", k>>] = 0
  BY <1>5 DEF Init
<1>7. LedgersFit
  <2>1. gets \in [Ledgers -> Nat] /\ acks \in [Ledgers -> Nat]
    BY DEF Init
  <2>2. HostGets \in Nat /\ MaxFaults \in Nat
    BY DEF SessionAssumption
  <2>. QED BY <1>3, <1>6, <2>1, <2>2 DEF LedgersFit
<1>8. \A k : Count(h2b, k) = 0
  <2>1. \A k : Tally(h2b, k) = {}
    BY <1>1 DEF Tally
  <2>. QED BY <2>1, FS_EmptySet DEF Count
<1>9. CountFits
  BY <1>3, <1>6, <1>8 DEF CountFits, Calls
<1>. QED BY <1>3, <1>4, <1>7, <1>9 DEF OrderInv

\* Every step keeps the order and the count.
LEMMA NextOrder == SessionAssumption /\ IInv /\ OrderInv /\ [Next]_vars => OrderInv'
<1>. SUFFICES ASSUME SessionAssumption, IInv, OrderInv, [Next]_vars PROVE OrderInv'
  OBVIOUS
<1>1. LineOrder /\ EndFits /\ LedgersFit /\ ReplyOrder /\ CountFits
  BY DEF OrderInv
<1>2. CASE BoardNext \/ BoardReset
  BY <1>1, <1>2, BoardOrder, BoardEnd, BoardReplies, BoardCount DEF OrderInv
<1>3. CASE HostNext
  BY <1>1, <1>3, HostOrder, HostEnd, HostAnswers, HostReplies, HostCount DEF OrderInv
<1>4. CASE UNCHANGED vars
  <2>1. UNCHANGED <<stage, prevAcks, seq, outcome, b2h, h2b, faults, ident, notary, records, gets, acks, end>>
    BY <1>4 DEF vars, board, host
  <2>2. LineOrder' /\ EndFits' /\ ReplyOrder'
    BY <1>1, <2>1 DEF LineOrder, EndFits, ReplyOrder, signed, Lines, InSeqOrder
  <2>3. LedgersFit' /\ CountFits'
    BY <1>1, <2>1 DEF LedgersFit, CountFits, Count, Tally, Calls, recorded
  <2>. QED BY <2>2, <2>3 DEF OrderInv
<1>. QED BY <1>2, <1>3, <1>4 DEF Next, Over

\* The host ends a session over the order of its frames in one case only, the
\* record of a stop whose SIGNREQ never reached it, whatever the bounds are
\* (l6_console.py _on_rec and _on_signreq).
THEOREM OrderEndsOnce == Spec => []EndFits
<1>1. Init => OrderInv
  BY InitOrder, SessionAssumption
<1>2. IInv /\ OrderInv /\ [Next]_vars => OrderInv'
  BY NextOrder, SessionAssumption
<1>3. OrderInv => EndFits
  BY DEF OrderInv
<1>. QED BY <1>1, <1>2, <1>3, Inductive, PTL DEF Spec

\* The strict acknowledgement rule of the sign wait never stops a session whose
\* link loses, breaks, repeats and delays lines, as long as its faults and the
\* host's bounds leave the room the limit was made for.
THEOREM ProtocolHolds == ReplyRoom => (Spec => []ProtocolOnlyForUnsignedStop)
<1>. SUFFICES ASSUME ReplyRoom PROVE Spec => []ProtocolOnlyForUnsignedStop
  OBVIOUS
<1>. DEFINE PInv == OrderInv /\ why # "PROTOCOL"
<1>1. Init => PInv
  BY InitOrder, SessionAssumption
<1>2. IInv /\ PInv /\ [Next]_vars => PInv'
  <2>. SUFFICES ASSUME IInv, PInv, [Next]_vars PROVE PInv'
    OBVIOUS
  <2>1. OrderInv'
    BY NextOrder, SessionAssumption
  <2>2. CASE BoardNext \/ BoardReset
    BY <2>1, <2>2, NoProtocol, SessionAssumption DEF OrderInv
  <2>3. CASE HostNext \/ UNCHANGED vars
    <3>1. UNCHANGED board
      BY <2>3, HostMoves DEF vars
    <3>. QED BY <2>1, <3>1 DEF board
  <2>. QED BY <2>2, <2>3 DEF Next, Over
<1>3. PInv => ProtocolOnlyForUnsignedStop
  BY DEF OrderInv, EndFits, OrderCauses, ProtocolOnlyForUnsignedStop
<1>. QED BY <1>1, <1>2, <1>3, Inductive, PTL DEF Spec

=============================================================================
