-------------------------- MODULE ProbePlan_proofs --------------------------
(***************************************************************************)
(* Proofs about the plans a probe carries out (modules ProbePlan and       *)
(* MCProbePlan): the guards accept what the planners build, and what they  *)
(* accept, after any number of edits and for any size of the destination   *)
(* buffer, does to the engine what the probe needs.                        *)
(***************************************************************************)
EXTENDS MCProbePlan, FiniteSetTheorems, SequenceTheorems, TLAPS

-----------------------------------------------------------------------------
(* The walks.  A guard or the engine reads a script from its beginning to   *)
(* its end: u is the walk over its prefixes, u[i] what is held after the    *)
(* first i commands.                                                        *)

\* Induction over the prefixes of a script.
LEMMA UpTo ==
  ASSUME NEW n \in Nat, NEW P, 0 \in P, \A i \in 1 .. n : i - 1 \in P => i \in P
  PROVE  0 .. n \subseteq P
<1> DEFINE B == {i \in 0 .. n : i \notin P}
<1> SUFFICES ASSUME B # {} PROVE FALSE
  OBVIOUS
<1>1. PICK m \in B : \A y \in B : ~(<<y, m>> \in OpToRel(<, Nat))
  <2>1. B \subseteq Nat
    OBVIOUS
  <2> HIDE DEF B
  <2> QED
    BY <2>1, WFMin, NatLessThanWellFounded
<1>2. m \in 1 .. n /\ m - 1 \in 0 .. n
  OBVIOUS
<1>3. m - 1 \in B
  BY <1>2
<1>4. <<m - 1, m>> \in OpToRel(<, Nat)
  BY <1>2 DEF OpToRel
<1> QED
  BY <1>1, <1>3, <1>4

\* Induction over the prefixes of a script, from its end to its beginning.
LEMMA DownTo ==
  ASSUME NEW n \in Nat, NEW P, n \in P, \A i \in 1 .. n : i \in P => i - 1 \in P
  PROVE  0 .. n \subseteq P
<1> DEFINE Q == {n - i : i \in P \cap (0 .. n)}
<1>1. 0 \in Q
  OBVIOUS
<1>2. ASSUME NEW i \in 1 .. n, i - 1 \in Q PROVE i \in Q
  <2>1. PICK j \in P \cap (0 .. n) : i - 1 = n - j
    BY <1>2
  <2>2. j \in 1 .. n /\ j - 1 \in P \cap (0 .. n) /\ i = n - (j - 1)
    BY <2>1
  <2> QED
    BY <2>2
<1>3. 0 .. n \subseteq Q
  <2> HIDE DEF Q
  <2> QED
    BY <1>1, <1>2, UpTo
<1>4. ASSUME NEW i \in 0 .. n PROVE i \in P
  <2>1. n - i \in Q
    BY <1>3
  <2>2. PICK j \in P \cap (0 .. n) : n - i = n - j
    BY <2>1
  <2> QED
    BY <2>2
<1> QED
  BY <1>4

DmaStart == [pending |-> <<>>, txs |-> <<>>, ordered |-> TRUE]

DmaWalk(u, s) == u[0] = DmaStart /\ \A i \in 1 .. Len(s) : u[i] = DmaStep(u[i - 1], s[i])

PhaseStart == [phases |-> <<>>, current |-> <<>>]

PhaseWalk(u, s) == u[0] = PhaseStart /\ \A i \in 1 .. Len(s) : u[i] = PhaseStep(u[i - 1], s[i])

NoToken == << >>

TokenWalk(u, s) == u[0] = NoToken /\ \A i \in 1 .. Len(s) : u[i] = TokenStep(u[i - 1], s[i])

WriteTokenWalk(u, s) == u[0] = NoToken /\ \A i \in 1 .. Len(s) : u[i] = WriteTokenStep(u[i - 1], s[i])

StreamStart == [skip |-> 0, data |-> <<>>, cmds |-> <<>>, far |-> FALSE, bursts |-> 0, legal |-> TRUE]

StreamWalk(u, s) == u[0] = StreamStart /\ \A i \in 1 .. Len(s) : u[i] = StreamStep(u[i - 1], s[i])

ConfigWalk(u, s) == u[0] = ConfigInit /\ \A i \in 1 .. Len(s) : u[i] = ConfigStep(u[i - 1], s[i])

RegisterWalk(u, s) == u[0] = NoToken /\ \A i \in 1 .. Len(s) : u[i] = RegisterStep(u[i - 1], s[i])

EngineWalk(u, s) == u[0] = EngineInit /\ \A i \in 1 .. Len(s) : u[i] = Exec(u[i - 1], s[i])

\* The DMA transactions of a script are what a walk over its prefixes ends with.
LEMMA DmaUnfolds ==
  ASSUME NEW s, Len(s) \in Nat
  PROVE  \E u : DmaWalk(u, s) /\ DmaTransactions(s) = u[Len(s)]
<1> DEFINE Upto(u, k) == u = [i \in 0 .. k |-> IF i = 0 THEN DmaStart ELSE DmaStep(u[i - 1], s[i])]
<1> DEFINE P == {k \in 0 .. Len(s) : \E u : Upto(u, k)}
<1>1. 0 \in P
  <2> DEFINE z == [i \in 0 .. 0 |-> DmaStart]
  <2>1. Upto(z, 0)
    OBVIOUS
  <2> HIDE DEF z
  <2> QED
    BY <2>1
<1>2. ASSUME NEW k \in 1 .. Len(s), k - 1 \in P PROVE k \in P
  <2>1. PICK u : Upto(u, k - 1)
    BY <1>2
  <2> DEFINE v == [i \in 0 .. k |-> IF i = k THEN DmaStep(u[k - 1], s[k]) ELSE u[i]]
  <2>2. \A i \in 0 .. k : v[i] = IF i = 0 THEN DmaStart ELSE DmaStep(v[i - 1], s[i])
    BY <2>1
  <2>3. Upto(v, k)
    BY <2>2
  <2> HIDE DEF v
  <2> QED
    BY <2>3
<1>3. PICK u : Upto(u, Len(s))
  <2> HIDE DEF P
  <2>1. 0 .. Len(s) \subseteq P
    BY <1>1, <1>2, UpTo
  <2>2. Len(s) \in P
    BY <2>1
  <2> QED
    BY <2>2 DEF P
<1> DEFINE w == CHOOSE x : Upto(x, Len(s))
<1>4. Upto(w, Len(s))
  BY <1>3
<1>5. DmaTransactions(s) = w[Len(s)]
  BY DEF Walk, DmaTransactions, DmaStart
<1> HIDE DEF w
<1>6. DmaWalk(w, s)
  BY <1>4 DEF DmaWalk
<1> QED
  BY <1>5, <1>6

\* The streams of a script are what a walk over its prefixes ends with.
LEMMA PhaseUnfolds ==
  ASSUME NEW s, Len(s) \in Nat
  PROVE  \E u : PhaseWalk(u, s) /\ Walk(PhaseStep, PhaseStart, s) = u[Len(s)]
<1> DEFINE Upto(u, k) == u = [i \in 0 .. k |-> IF i = 0 THEN PhaseStart ELSE PhaseStep(u[i - 1], s[i])]
<1> DEFINE P == {k \in 0 .. Len(s) : \E u : Upto(u, k)}
<1>1. 0 \in P
  <2> DEFINE z == [i \in 0 .. 0 |-> PhaseStart]
  <2>1. Upto(z, 0)
    OBVIOUS
  <2> HIDE DEF z
  <2> QED
    BY <2>1
<1>2. ASSUME NEW k \in 1 .. Len(s), k - 1 \in P PROVE k \in P
  <2>1. PICK u : Upto(u, k - 1)
    BY <1>2
  <2> DEFINE v == [i \in 0 .. k |-> IF i = k THEN PhaseStep(u[k - 1], s[k]) ELSE u[i]]
  <2>2. \A i \in 0 .. k : v[i] = IF i = 0 THEN PhaseStart ELSE PhaseStep(v[i - 1], s[i])
    BY <2>1
  <2>3. Upto(v, k)
    BY <2>2
  <2> HIDE DEF v
  <2> QED
    BY <2>3
<1>3. PICK u : Upto(u, Len(s))
  <2> HIDE DEF P
  <2>1. 0 .. Len(s) \subseteq P
    BY <1>1, <1>2, UpTo
  <2>2. Len(s) \in P
    BY <2>1
  <2> QED
    BY <2>2 DEF P
<1> DEFINE w == CHOOSE x : Upto(x, Len(s))
<1>4. Upto(w, Len(s))
  BY <1>3
<1>5. Walk(PhaseStep, PhaseStart, s) = w[Len(s)]
  BY DEF Walk
<1> HIDE DEF w
<1>6. PhaseWalk(w, s)
  BY <1>4 DEF PhaseWalk
<1> QED
  BY <1>5, <1>6

\* The tokens of a script are what a walk over its prefixes ends with.
LEMMA TokenUnfolds ==
  ASSUME NEW s, Len(s) \in Nat
  PROVE  \E u : TokenWalk(u, s) /\ Tokens(s) = u[Len(s)]
<1> DEFINE Upto(u, k) == u = [i \in 0 .. k |-> IF i = 0 THEN NoToken ELSE TokenStep(u[i - 1], s[i])]
<1> DEFINE P == {k \in 0 .. Len(s) : \E u : Upto(u, k)}
<1>1. 0 \in P
  <2> DEFINE z == [i \in 0 .. 0 |-> NoToken]
  <2>1. Upto(z, 0)
    OBVIOUS
  <2> HIDE DEF z
  <2> QED
    BY <2>1
<1>2. ASSUME NEW k \in 1 .. Len(s), k - 1 \in P PROVE k \in P
  <2>1. PICK u : Upto(u, k - 1)
    BY <1>2
  <2> DEFINE v == [i \in 0 .. k |-> IF i = k THEN TokenStep(u[k - 1], s[k]) ELSE u[i]]
  <2>2. \A i \in 0 .. k : v[i] = IF i = 0 THEN NoToken ELSE TokenStep(v[i - 1], s[i])
    BY <2>1
  <2>3. Upto(v, k)
    BY <2>2
  <2> HIDE DEF v
  <2> QED
    BY <2>3
<1>3. PICK u : Upto(u, Len(s))
  <2> HIDE DEF P
  <2>1. 0 .. Len(s) \subseteq P
    BY <1>1, <1>2, UpTo
  <2>2. Len(s) \in P
    BY <2>1
  <2> QED
    BY <2>2 DEF P
<1> DEFINE w == CHOOSE x : Upto(x, Len(s))
<1>4. Upto(w, Len(s))
  BY <1>3
<1>5. Tokens(s) = w[Len(s)]
  BY DEF Walk, Tokens, NoToken
<1> HIDE DEF w
<1>6. TokenWalk(w, s)
  BY <1>4 DEF TokenWalk
<1> QED
  BY <1>5, <1>6

\* The tokens of a write script are what a walk over its prefixes ends with.
LEMMA WriteTokenUnfolds ==
  ASSUME NEW s, Len(s) \in Nat
  PROVE  \E u : WriteTokenWalk(u, s) /\ WriteTokens(s) = u[Len(s)]
<1> DEFINE Upto(u, k) == u = [i \in 0 .. k |-> IF i = 0 THEN NoToken ELSE WriteTokenStep(u[i - 1], s[i])]
<1> DEFINE P == {k \in 0 .. Len(s) : \E u : Upto(u, k)}
<1>1. 0 \in P
  <2> DEFINE z == [i \in 0 .. 0 |-> NoToken]
  <2>1. Upto(z, 0)
    OBVIOUS
  <2> HIDE DEF z
  <2> QED
    BY <2>1
<1>2. ASSUME NEW k \in 1 .. Len(s), k - 1 \in P PROVE k \in P
  <2>1. PICK u : Upto(u, k - 1)
    BY <1>2
  <2> DEFINE v == [i \in 0 .. k |-> IF i = k THEN WriteTokenStep(u[k - 1], s[k]) ELSE u[i]]
  <2>2. \A i \in 0 .. k : v[i] = IF i = 0 THEN NoToken ELSE WriteTokenStep(v[i - 1], s[i])
    BY <2>1
  <2>3. Upto(v, k)
    BY <2>2
  <2> HIDE DEF v
  <2> QED
    BY <2>3
<1>3. PICK u : Upto(u, Len(s))
  <2> HIDE DEF P
  <2>1. 0 .. Len(s) \subseteq P
    BY <1>1, <1>2, UpTo
  <2>2. Len(s) \in P
    BY <2>1
  <2> QED
    BY <2>2 DEF P
<1> DEFINE w == CHOOSE x : Upto(x, Len(s))
<1>4. Upto(w, Len(s))
  BY <1>3
<1>5. WriteTokens(s) = w[Len(s)]
  BY DEF Walk, WriteTokens, NoToken
<1> HIDE DEF w
<1>6. WriteTokenWalk(w, s)
  BY <1>4 DEF WriteTokenWalk
<1> QED
  BY <1>5, <1>6

\* The reading of a write stream is what a walk over its prefixes ends with.
LEMMA StreamUnfolds ==
  ASSUME NEW s, Len(s) \in Nat
  PROVE  \E u : StreamWalk(u, s) /\ Walk(StreamStep, StreamStart, s) = u[Len(s)]
<1> DEFINE Upto(u, k) == u = [i \in 0 .. k |-> IF i = 0 THEN StreamStart ELSE StreamStep(u[i - 1], s[i])]
<1> DEFINE P == {k \in 0 .. Len(s) : \E u : Upto(u, k)}
<1>1. 0 \in P
  <2> DEFINE z == [i \in 0 .. 0 |-> StreamStart]
  <2>1. Upto(z, 0)
    OBVIOUS
  <2> HIDE DEF z
  <2> QED
    BY <2>1
<1>2. ASSUME NEW k \in 1 .. Len(s), k - 1 \in P PROVE k \in P
  <2>1. PICK u : Upto(u, k - 1)
    BY <1>2
  <2> DEFINE v == [i \in 0 .. k |-> IF i = k THEN StreamStep(u[k - 1], s[k]) ELSE u[i]]
  <2>2. \A i \in 0 .. k : v[i] = IF i = 0 THEN StreamStart ELSE StreamStep(v[i - 1], s[i])
    BY <2>1
  <2>3. Upto(v, k)
    BY <2>2
  <2> HIDE DEF v
  <2> QED
    BY <2>3
<1>3. PICK u : Upto(u, Len(s))
  <2> HIDE DEF P
  <2>1. 0 .. Len(s) \subseteq P
    BY <1>1, <1>2, UpTo
  <2>2. Len(s) \in P
    BY <2>1
  <2> QED
    BY <2>2 DEF P
<1> DEFINE w == CHOOSE x : Upto(x, Len(s))
<1>4. Upto(w, Len(s))
  BY <1>3
<1>5. Walk(StreamStep, StreamStart, s) = w[Len(s)]
  BY DEF Walk
<1> HIDE DEF w
<1>6. StreamWalk(w, s)
  BY <1>4 DEF StreamWalk
<1> QED
  BY <1>5, <1>6

\* What a stream does to the configuration logic is what a walk over its prefixes ends with.
LEMMA ConfigUnfolds ==
  ASSUME NEW s, Len(s) \in Nat
  PROVE  \E u : ConfigWalk(u, s) /\ Walk(ConfigStep, ConfigInit, s) = u[Len(s)]
<1> DEFINE Upto(u, k) == u = [i \in 0 .. k |-> IF i = 0 THEN ConfigInit ELSE ConfigStep(u[i - 1], s[i])]
<1> DEFINE P == {k \in 0 .. Len(s) : \E u : Upto(u, k)}
<1>1. 0 \in P
  <2> DEFINE z == [i \in 0 .. 0 |-> ConfigInit]
  <2>1. Upto(z, 0)
    OBVIOUS
  <2> HIDE DEF z
  <2> QED
    BY <2>1
<1>2. ASSUME NEW k \in 1 .. Len(s), k - 1 \in P PROVE k \in P
  <2>1. PICK u : Upto(u, k - 1)
    BY <1>2
  <2> DEFINE v == [i \in 0 .. k |-> IF i = k THEN ConfigStep(u[k - 1], s[k]) ELSE u[i]]
  <2>2. \A i \in 0 .. k : v[i] = IF i = 0 THEN ConfigInit ELSE ConfigStep(v[i - 1], s[i])
    BY <2>1
  <2>3. Upto(v, k)
    BY <2>2
  <2> HIDE DEF v
  <2> QED
    BY <2>3
<1>3. PICK u : Upto(u, Len(s))
  <2> HIDE DEF P
  <2>1. 0 .. Len(s) \subseteq P
    BY <1>1, <1>2, UpTo
  <2>2. Len(s) \in P
    BY <2>1
  <2> QED
    BY <2>2 DEF P
<1> DEFINE w == CHOOSE x : Upto(x, Len(s))
<1>4. Upto(w, Len(s))
  BY <1>3
<1>5. Walk(ConfigStep, ConfigInit, s) = w[Len(s)]
  BY DEF Walk
<1> HIDE DEF w
<1>6. ConfigWalk(w, s)
  BY <1>4 DEF ConfigWalk
<1> QED
  BY <1>5, <1>6

\* The register writes of a script are what a walk over its prefixes ends with.
LEMMA RegisterUnfolds ==
  ASSUME NEW s, Len(s) \in Nat
  PROVE  \E u : RegisterWalk(u, s) /\ Walk(RegisterStep, NoToken, s) = u[Len(s)]
<1> DEFINE Upto(u, k) == u = [i \in 0 .. k |-> IF i = 0 THEN NoToken ELSE RegisterStep(u[i - 1], s[i])]
<1> DEFINE P == {k \in 0 .. Len(s) : \E u : Upto(u, k)}
<1>1. 0 \in P
  <2> DEFINE z == [i \in 0 .. 0 |-> NoToken]
  <2>1. Upto(z, 0)
    OBVIOUS
  <2> HIDE DEF z
  <2> QED
    BY <2>1
<1>2. ASSUME NEW k \in 1 .. Len(s), k - 1 \in P PROVE k \in P
  <2>1. PICK u : Upto(u, k - 1)
    BY <1>2
  <2> DEFINE v == [i \in 0 .. k |-> IF i = k THEN RegisterStep(u[k - 1], s[k]) ELSE u[i]]
  <2>2. \A i \in 0 .. k : v[i] = IF i = 0 THEN NoToken ELSE RegisterStep(v[i - 1], s[i])
    BY <2>1
  <2>3. Upto(v, k)
    BY <2>2
  <2> HIDE DEF v
  <2> QED
    BY <2>3
<1>3. PICK u : Upto(u, Len(s))
  <2> HIDE DEF P
  <2>1. 0 .. Len(s) \subseteq P
    BY <1>1, <1>2, UpTo
  <2>2. Len(s) \in P
    BY <2>1
  <2> QED
    BY <2>2 DEF P
<1> DEFINE w == CHOOSE x : Upto(x, Len(s))
<1>4. Upto(w, Len(s))
  BY <1>3
<1>5. Walk(RegisterStep, NoToken, s) = w[Len(s)]
  BY DEF Walk
<1> HIDE DEF w
<1>6. RegisterWalk(w, s)
  BY <1>4 DEF RegisterWalk
<1> QED
  BY <1>5, <1>6

\* What a script leaves the engine in is what a walk over its prefixes ends with.
LEMMA EngineUnfolds ==
  ASSUME NEW s, Len(s) \in Nat
  PROVE  \E u : EngineWalk(u, s) /\ Run(s) = u[Len(s)]
<1> DEFINE Upto(u, k) == u = [i \in 0 .. k |-> IF i = 0 THEN EngineInit ELSE Exec(u[i - 1], s[i])]
<1> DEFINE P == {k \in 0 .. Len(s) : \E u : Upto(u, k)}
<1>1. 0 \in P
  <2> DEFINE z == [i \in 0 .. 0 |-> EngineInit]
  <2>1. Upto(z, 0)
    OBVIOUS
  <2> HIDE DEF z
  <2> QED
    BY <2>1
<1>2. ASSUME NEW k \in 1 .. Len(s), k - 1 \in P PROVE k \in P
  <2>1. PICK u : Upto(u, k - 1)
    BY <1>2
  <2> DEFINE v == [i \in 0 .. k |-> IF i = k THEN Exec(u[k - 1], s[k]) ELSE u[i]]
  <2>2. \A i \in 0 .. k : v[i] = IF i = 0 THEN EngineInit ELSE Exec(v[i - 1], s[i])
    BY <2>1
  <2>3. Upto(v, k)
    BY <2>2
  <2> HIDE DEF v
  <2> QED
    BY <2>3
<1>3. PICK u : Upto(u, Len(s))
  <2> HIDE DEF P
  <2>1. 0 .. Len(s) \subseteq P
    BY <1>1, <1>2, UpTo
  <2>2. Len(s) \in P
    BY <2>1
  <2> QED
    BY <2>2 DEF P
<1> DEFINE w == CHOOSE x : Upto(x, Len(s))
<1>4. Upto(w, Len(s))
  BY <1>3
<1>5. Run(s) = w[Len(s)]
  BY DEF Walk, Run
<1> HIDE DEF w
<1>6. EngineWalk(w, s)
  BY <1>4 DEF EngineWalk
<1> QED
  BY <1>5, <1>6

-----------------------------------------------------------------------------
(* The expected schedule of a read plan, place by place; what walks keep.   *)

\* The commands of a script: what a read plan's may be for its judgement to
\* rest on the words they write (any count but a stream's; the only fill
\* with 0 is that of the whole destination).
Forms == {"md.l", "mw.l", "mw.b", "dcache-off"}
Regs == {"DMA_SRC_ADDR", "DMA_DEST_ADDR", "DMA_SRC_LEN", "DMA_DEST_LEN", "CTRL", "STATUS", "MCTRL", "INT_STS",
         "CMD", "DST", "WR", "none"}
Names == {"NOOP", "clear", "fill", "FAR", "len", "CMD", "DST", "PCAP", "WR", "SYNC", "RCFG", "FDRO", "DESYNC", "RCRC",
          "IDCODE", "WCFG", "FDRI", "GRESTORE", "init", "ecc", "rest", "pad"}
Word == Names \X Nat
Command == [form : Forms, reg : Regs, at : Nat, value : Word, count : Nat]
StreamWrite(c) == c.form = "mw.l" /\ c.reg = "CMD"
ZeroFill(c) == c.form = "mw.l" /\ c.reg = "DST" /\ c.value[2] = 0
ReadCommand == {c \in Command : StreamWrite(c) => c.count = 1}

Orders == {"two-unidirectional", "one-bidirectional"}

\* Where the tokens of a schedule are: the first of each transfer's block, the
\* cleanup stream, the readout, the end.
Starts(o) == IF o = "two-unidirectional" THEN {8, 15, 24} ELSE {8, 17}
Second(o) == IF o = "two-unidirectional" THEN 23 ELSE 16
ReadoutPlace(o) == IF o = "two-unidirectional" THEN 22 ELSE 15
EndOf(o) == IF o = "two-unidirectional" THEN 31 ELSE 24

\* The tokens of a schedule.
CacheTok == <<"CACHE">>
StreamTok(n) == <<"CMD_STREAM", n>>
FillTok(v, n) == <<"FILL_DST", v, n>>
Tok(f, r, n) == <<f, r, n>>
ReadTok(r, n) == Tok("md.l", r, n)
WriteTok(r) == Tok("mw.l", r, 1)
Token == {CacheTok} \cup {StreamTok(n) : n \in Nat} \cup {FillTok(v, n) : v \in Nat, n \in Nat}
         \cup {Tok(f, r, n) : f \in Forms, r \in Regs, n \in Nat}

\* A schedule, token by token.
PlacedAt(X, o, v, k) ==
    \/ k = 1 /\ X[k] = CacheTok
    \/ k = 2 /\ X[k] = ReadTok("CTRL", 1)
    \/ k = 3 /\ X[k] = ReadTok("MCTRL", 1)
    \/ k \in {4, EndOf(o)} /\ X[k] = ReadTok("INT_STS", 1)
    \/ k = 5 /\ X[k] = FillTok(v, ReadWords)
    \/ k \in {6, ReadoutPlace(o)} /\ X[k] = ReadTok("DST", ReadWords)
    \/ k = 7 /\ X[k] = StreamTok(5)
    \/ k = Second(o) /\ X[k] = StreamTok(2)
    \/ k \in Starts(o) /\ X[k] = WriteTok("INT_STS")
    \/ \E b \in Starts(o) : k \in {b + 1, b + 6} /\ X[k] = ReadTok("INT_STS", 1)
    \/ \E b \in Starts(o), j \in 1 .. 4 : k = b + 1 + j /\ X[k] = WriteTok(DmaOrder[j])
Placed(X, o, v) ==
    /\ X \in Seq(Token) /\ Len(X) = EndOf(o)
    /\ \A k \in 1 .. EndOf(o) : PlacedAt(X, o, v, k)

\* c is a followed by b.
Joined(c, a, b) ==
    /\ Len(c) = Len(a) + Len(b)
    /\ \A i \in 1 .. Len(a) : c[i] = a[i]
    /\ \A i \in 1 .. Len(b) : c[Len(a) + i] = b[i]

\* c begins with the first n of a.
Agrees(c, a, n) == \A i \in 1 .. n : c[i] = a[i]

\* Sequences that agree so far with one that agrees so far with a third do too.
LEMMA AgreeOn ==
  ASSUME NEW a, NEW b, NEW c, NEW n \in Nat, NEW m \in Nat, m <= n, Agrees(c, b, n), Agrees(b, a, m)
  PROVE  Agrees(c, a, m)
BY DEF Agrees

\* The elements of a concatenation: those of the first, then those of the second.
LEMMA ConcatAt ==
  ASSUME NEW S, NEW a \in Seq(S), NEW b \in Seq(S)
  PROVE  a \o b \in Seq(S) /\ Joined(a \o b, a, b)
BY DEF Joined

Block == <<WriteTok("INT_STS"), ReadTok("INT_STS", 1)>> \o [i \in 1..4 |-> WriteTok(DmaOrder[i])] \o <<ReadTok("INT_STS", 1)>>
Before(v) == << CacheTok, ReadTok("CTRL", 1), ReadTok("MCTRL", 1), ReadTok("INT_STS", 1),
                FillTok(v, ReadWords), ReadTok("DST", ReadWords) >>

\* The expected schedule in the named tokens.
LEMMA ScheduleIs ==
  ASSUME NEW o, NEW v
  PROVE  ExpectedSchedule(o, v) =
           Before(v) \o <<StreamTok(5)>> \o (IF o = "two-unidirectional" THEN Block \o Block ELSE Block)
             \o <<ReadTok("DST", ReadWords)>> \o <<StreamTok(2)>> \o Block \o <<ReadTok("INT_STS", 1)>>
BY DEF ExpectedSchedule, Before, Block, StreamWords, CleanupWords, ReadTok, WriteTok, CacheTok, FillTok, StreamTok, Tok

\* The tokens of the schedules are tokens.
LEMMA TokenKinds ==
  ASSUME NEW v \in Nat
  PROVE  /\ CacheTok \in Token /\ FillTok(v, ReadWords) \in Token /\ StreamTok(v) \in Token
         /\ \A r \in Regs, n \in Nat : ReadTok(r, n) \in Token /\ WriteTok(r) \in Token
         /\ \A j \in 1 .. 4 : WriteTok(DmaOrder[j]) \in Token
<1>1. CacheTok \in Token /\ FillTok(v, ReadWords) \in Token /\ StreamTok(v) \in Token
  BY PlanAssumption DEF Token
<1>2. \A r \in Regs, n \in Nat : ReadTok(r, n) \in Token /\ WriteTok(r) \in Token
  <2>1. "md.l" \in Forms /\ "mw.l" \in Forms
    BY DEF Forms
  <2> QED
    BY <2>1 DEF ReadTok, WriteTok, Token
<1>3. \A j \in 1 .. 4 : DmaOrder[j] \in Regs
  BY DEF DmaOrder, Regs
<1> QED
  BY <1>1, <1>2, <1>3

\* The seven tokens of a transfer.
LEMMA BlockAt ==
  /\ Block \in Seq(Token) /\ Len(Block) = 7
  /\ Block[1] = WriteTok("INT_STS") /\ Block[2] = ReadTok("INT_STS", 1)
  /\ Block[3] = WriteTok("DMA_SRC_ADDR") /\ Block[4] = WriteTok("DMA_DEST_ADDR")
  /\ Block[5] = WriteTok("DMA_SRC_LEN") /\ Block[6] = WriteTok("DMA_DEST_LEN")
  /\ Block[7] = ReadTok("INT_STS", 1)
<1> DEFINE a == <<WriteTok("INT_STS"), ReadTok("INT_STS", 1)>>
<1> DEFINE b == [i \in 1..4 |-> WriteTok(DmaOrder[i])]
<1> DEFINE c == <<ReadTok("INT_STS", 1)>>
<1>1. "INT_STS" \in Regs
  BY DEF Regs
<1>2. a \in Seq(Token) /\ Len(a) = 2 /\ a[1] = WriteTok("INT_STS") /\ a[2] = ReadTok("INT_STS", 1)
  BY <1>1, TokenKinds
<1>3. b \in Seq(Token) /\ Len(b) = 4
  BY TokenKinds
<1>4. /\ b[1] = WriteTok("DMA_SRC_ADDR") /\ b[2] = WriteTok("DMA_DEST_ADDR")
      /\ b[3] = WriteTok("DMA_SRC_LEN") /\ b[4] = WriteTok("DMA_DEST_LEN")
  BY DEF DmaOrder
<1>5. c \in Seq(Token) /\ Len(c) = 1 /\ c[1] = ReadTok("INT_STS", 1)
  BY <1>1, TokenKinds
<1> HIDE DEF a, b, c
<1> DEFINE d == a \o b
<1>6. d \in Seq(Token) /\ Joined(d, a, b)
  BY <1>2, <1>3, ConcatAt
<1>7. Len(d) = 6 /\ d[1] = a[1] /\ d[2] = a[2] /\ d[3] = b[1] /\ d[4] = b[2] /\ d[5] = b[3] /\ d[6] = b[4]
  <2> HIDE DEF d
  <2> QED
    BY <1>2, <1>3, <1>6 DEF Joined
<1>8. Block = d \o c
  BY DEF Block, a, b, c, d
<1> HIDE DEF d
<1>9. Block \in Seq(Token) /\ Joined(Block, d, c)
  BY <1>5, <1>6, <1>8, ConcatAt
<1>c. d \in Seq(Token) /\ Len(d) = 6 /\ c \in Seq(Token) /\ Len(c) = 1
  BY <1>5, <1>6, <1>7
<1>10. Len(Block) = 7 /\ Block[1] = d[1] /\ Block[2] = d[2] /\ Block[3] = d[3] /\ Block[4] = d[4]
       /\ Block[5] = d[5] /\ Block[6] = d[6] /\ Block[7] = c[1]
  BY <1>c, <1>9 DEF Joined
<1> QED
  BY <1>2, <1>4, <1>5, <1>7, <1>9, <1>10

\* The six tokens before the first stream.
LEMMA BeforeAt ==
  ASSUME NEW v \in Nat
  PROVE  /\ Before(v) \in Seq(Token) /\ Len(Before(v)) = 6
         /\ Before(v)[1] = CacheTok /\ Before(v)[2] = ReadTok("CTRL", 1)
         /\ Before(v)[3] = ReadTok("MCTRL", 1) /\ Before(v)[4] = ReadTok("INT_STS", 1)
         /\ Before(v)[5] = FillTok(v, ReadWords) /\ Before(v)[6] = ReadTok("DST", ReadWords)
<1>1. "INT_STS" \in Regs /\ "CTRL" \in Regs /\ "MCTRL" \in Regs /\ "DST" \in Regs
  BY DEF Regs
<1>2. ReadWords \in Nat
  BY PlanAssumption
<1>3. Before(v) \in Seq(Token) /\ Len(Before(v)) = 6
  BY <1>1, <1>2, TokenKinds DEF Before
<1> QED
  BY <1>3 DEF Before

\* The 31 places of the schedule with two transfers before the readout.
LEMMA TwoPlaced ==
  ASSUME NEW v \in Nat
  PROVE  Placed(ExpectedSchedule("two-unidirectional", v), "two-unidirectional", v)
<1> DEFINE X == ExpectedSchedule("two-unidirectional", v)
<1>0. /\ <<StreamTok(5)>> \in Seq(Token) /\ <<StreamTok(2)>> \in Seq(Token)
      /\ <<ReadTok("DST", ReadWords)>> \in Seq(Token) /\ <<ReadTok("INT_STS", 1)>> \in Seq(Token)
  <2>1. "INT_STS" \in Regs /\ "DST" \in Regs /\ ReadWords \in Nat
    BY PlanAssumption DEF Regs
  <2> QED
    BY <2>1, TokenKinds
<1> DEFINE A1 == Before(v)
<1> DEFINE BB == Block \o Block
<1>bj. BB \in Seq(Token) /\ Joined(BB, Block, Block)
  BY BlockAt, ConcatAt
<1> HIDE DEF BB
<1>bb. /\ BB \in Seq(Token) /\ Len(BB) = 14
       /\ \A i \in 1 .. 7 : BB[i] = Block[i]
       /\ \A i \in 8 .. 14 : BB[i] = Block[i - 7]
  BY BlockAt, <1>bj DEF Joined
<1>a1. A1 \in Seq(Token) /\ Len(A1) = 6
  BY BeforeAt
<1> DEFINE A2 == A1 \o <<StreamTok(5)>>
<1> HIDE DEF A1
<1>j2. A2 \in Seq(Token) /\ Joined(A2, A1, <<StreamTok(5)>>)
  BY <1>a1, <1>0, ConcatAt
<1>a2. /\ A2 \in Seq(Token) /\ Len(A2) = 7
      /\ Agrees(A2, A1, 6)
      /\ \A i \in 7 .. 7 : A2[i] = <<StreamTok(5)>>[i - 6]
  <2> HIDE DEF A2
  <2> QED
    BY <1>a1, <1>0, <1>j2 DEF Joined, Agrees
<1> DEFINE A3 == A2 \o BB
<1> HIDE DEF A2
<1>j3. A3 \in Seq(Token) /\ Joined(A3, A2, BB)
  BY <1>a2, <1>bb, ConcatAt
<1>a3. /\ A3 \in Seq(Token) /\ Len(A3) = 21
      /\ Agrees(A3, A2, 7)
      /\ \A i \in 8 .. 21 : A3[i] = BB[i - 7]
  <2> HIDE DEF A3
  <2> QED
    BY <1>a2, <1>bb, <1>j3 DEF Joined, Agrees
<1>b3. \A i \in 8 .. 21 : A3[i] = BB[i - 7]
  BY <1>a3
<1> DEFINE A4 == A3 \o <<ReadTok("DST", ReadWords)>>
<1> HIDE DEF A3
<1>j4. A4 \in Seq(Token) /\ Joined(A4, A3, <<ReadTok("DST", ReadWords)>>)
  BY <1>a3, <1>0, ConcatAt
<1>a4. /\ A4 \in Seq(Token) /\ Len(A4) = 22
      /\ Agrees(A4, A3, 21)
      /\ \A i \in 22 .. 22 : A4[i] = <<ReadTok("DST", ReadWords)>>[i - 21]
  <2> HIDE DEF A4
  <2> QED
    BY <1>a3, <1>0, <1>j4 DEF Joined, Agrees
<1> DEFINE A5 == A4 \o <<StreamTok(2)>>
<1> HIDE DEF A4
<1>j5. A5 \in Seq(Token) /\ Joined(A5, A4, <<StreamTok(2)>>)
  BY <1>a4, <1>0, ConcatAt
<1>a5. /\ A5 \in Seq(Token) /\ Len(A5) = 23
      /\ Agrees(A5, A4, 22)
      /\ \A i \in 23 .. 23 : A5[i] = <<StreamTok(2)>>[i - 22]
  <2> HIDE DEF A5
  <2> QED
    BY <1>a4, <1>0, <1>j5 DEF Joined, Agrees
<1> DEFINE A6 == A5 \o Block
<1> HIDE DEF A5
<1>j6. A6 \in Seq(Token) /\ Joined(A6, A5, Block)
  BY <1>a5, BlockAt, ConcatAt
<1>a6. /\ A6 \in Seq(Token) /\ Len(A6) = 30
      /\ Agrees(A6, A5, 23)
      /\ \A i \in 24 .. 30 : A6[i] = Block[i - 23]
  <2> HIDE DEF A6
  <2> QED
    BY <1>a5, BlockAt, <1>j6 DEF Joined, Agrees
<1> DEFINE A7 == A6 \o <<ReadTok("INT_STS", 1)>>
<1> HIDE DEF A6
<1>j7. A7 \in Seq(Token) /\ Joined(A7, A6, <<ReadTok("INT_STS", 1)>>)
  BY <1>a6, <1>0, ConcatAt
<1>a7. /\ A7 \in Seq(Token) /\ Len(A7) = 31
      /\ Agrees(A7, A6, 30)
      /\ \A i \in 31 .. 31 : A7[i] = <<ReadTok("INT_STS", 1)>>[i - 30]
  <2> HIDE DEF A7
  <2> QED
    BY <1>a6, <1>0, <1>j7 DEF Joined, Agrees
<1>x. X = A7
  BY ScheduleIs DEF A1, A2, A3, A4, A5, A6, BB
<1> HIDE DEF A7, X
<1>c7. Agrees(X, A7, 31)
  BY <1>x DEF Agrees
<1>c6. Agrees(X, A6, 30)
  BY <1>c7, <1>a7, AgreeOn
<1>c5. Agrees(X, A5, 23)
  BY <1>c6, <1>a6, AgreeOn
<1>c4. Agrees(X, A4, 22)
  BY <1>c5, <1>a5, AgreeOn
<1>c3. Agrees(X, A3, 21)
  BY <1>c4, <1>a4, AgreeOn
<1>c2. Agrees(X, A2, 7)
  BY <1>c3, <1>a3, AgreeOn, SMTT(15)
<1>c1. Agrees(X, A1, 6)
  BY <1>c2, <1>a2, AgreeOn
<1>f1. /\ X[1] = A1[1] /\ X[2] = A1[2] /\ X[3] = A1[3] /\ X[4] = A1[4] /\ X[5] = A1[5] /\ X[6] = A1[6]
  BY <1>c1 DEF Agrees
<1>g1. /\ X[1] = CacheTok /\ X[2] = ReadTok("CTRL", 1)
      /\ X[3] = ReadTok("MCTRL", 1) /\ X[4] = ReadTok("INT_STS", 1)
      /\ X[5] = FillTok(v, ReadWords) /\ X[6] = ReadTok("DST", ReadWords)
  BY <1>f1, BeforeAt DEF A1
<1>g2. X[7] = StreamTok(5)
  <2>1. X[7] = A2[7]
    BY <1>c2 DEF Agrees
  <2> QED
    BY <2>1, <1>a2
<1>f3_0. /\ X[8] = BB[1] /\ X[9] = BB[2] /\ X[10] = BB[3] /\ X[11] = BB[4]
      /\ X[12] = BB[5] /\ X[13] = BB[6] /\ X[14] = BB[7]
  <2>1. /\ X[8] = A3[8] /\ X[9] = A3[9] /\ X[10] = A3[10] /\ X[11] = A3[11]
      /\ X[12] = A3[12] /\ X[13] = A3[13] /\ X[14] = A3[14]
    BY <1>c3 DEF Agrees
  <2>2. ASSUME NEW j \in 1 .. 7 PROVE A3[7 + j] = BB[j]
    <3>1. PICK i : i = 7 + j
      OBVIOUS
    <3>2. i \in 8 .. 21 /\ i - 7 = j
      BY <3>1
    <3>3. A3[i] = BB[i - 7]
      BY <1>b3, <3>2
    <3> QED
      BY <3>1, <3>2, <3>3, Zenon
  <2> QED
    BY <2>1, <2>2
<1>g3_0. /\ X[8] = WriteTok("INT_STS") /\ X[9] = ReadTok("INT_STS", 1)
      /\ X[10] = WriteTok("DMA_SRC_ADDR") /\ X[11] = WriteTok("DMA_DEST_ADDR")
      /\ X[12] = WriteTok("DMA_SRC_LEN") /\ X[13] = WriteTok("DMA_DEST_LEN")
      /\ X[14] = ReadTok("INT_STS", 1)
  BY <1>f3_0, BlockAt, <1>bb
<1>f3_1. /\ X[15] = BB[8] /\ X[16] = BB[9] /\ X[17] = BB[10] /\ X[18] = BB[11]
      /\ X[19] = BB[12] /\ X[20] = BB[13] /\ X[21] = BB[14]
  <2>1. /\ X[15] = A3[15] /\ X[16] = A3[16] /\ X[17] = A3[17] /\ X[18] = A3[18]
      /\ X[19] = A3[19] /\ X[20] = A3[20] /\ X[21] = A3[21]
    BY <1>c3 DEF Agrees
  <2>2. ASSUME NEW j \in 8 .. 14 PROVE A3[7 + j] = BB[j]
    <3>1. PICK i : i = 7 + j
      OBVIOUS
    <3>2. i \in 8 .. 21 /\ i - 7 = j
      BY <3>1
    <3>3. A3[i] = BB[i - 7]
      BY <1>b3, <3>2
    <3> QED
      BY <3>1, <3>2, <3>3, Zenon
  <2> QED
    BY <2>1, <2>2
<1>g3_1. /\ X[15] = WriteTok("INT_STS") /\ X[16] = ReadTok("INT_STS", 1)
      /\ X[17] = WriteTok("DMA_SRC_ADDR") /\ X[18] = WriteTok("DMA_DEST_ADDR")
      /\ X[19] = WriteTok("DMA_SRC_LEN") /\ X[20] = WriteTok("DMA_DEST_LEN")
      /\ X[21] = ReadTok("INT_STS", 1)
  BY <1>f3_1, BlockAt, <1>bb
<1>g4. X[22] = ReadTok("DST", ReadWords)
  <2>1. X[22] = A4[22]
    BY <1>c4 DEF Agrees
  <2> QED
    BY <2>1, <1>a4
<1>g5. X[23] = StreamTok(2)
  <2>1. X[23] = A5[23]
    BY <1>c5 DEF Agrees
  <2> QED
    BY <2>1, <1>a5
<1>f6_0. /\ X[24] = Block[1] /\ X[25] = Block[2] /\ X[26] = Block[3] /\ X[27] = Block[4]
      /\ X[28] = Block[5] /\ X[29] = Block[6] /\ X[30] = Block[7]
  <2>1. /\ X[24] = A6[24] /\ X[25] = A6[25] /\ X[26] = A6[26] /\ X[27] = A6[27]
      /\ X[28] = A6[28] /\ X[29] = A6[29] /\ X[30] = A6[30]
    BY <1>c6 DEF Agrees
  <2>2. \A j \in 1 .. 7 : A6[23 + j] = Block[j]
    BY <1>a6
  <2> QED
    BY <2>1, <2>2
<1>g6_0. /\ X[24] = WriteTok("INT_STS") /\ X[25] = ReadTok("INT_STS", 1)
      /\ X[26] = WriteTok("DMA_SRC_ADDR") /\ X[27] = WriteTok("DMA_DEST_ADDR")
      /\ X[28] = WriteTok("DMA_SRC_LEN") /\ X[29] = WriteTok("DMA_DEST_LEN")
      /\ X[30] = ReadTok("INT_STS", 1)
  BY <1>f6_0, BlockAt
<1>g7. X[31] = ReadTok("INT_STS", 1)
  <2>1. X[31] = A7[31]
    BY <1>c7 DEF Agrees
  <2> QED
    BY <2>1, <1>a7
<1>l. X \in Seq(Token) /\ Len(X) = 31
  BY <1>x, <1>a7
<1>d. DmaOrder[1] = "DMA_SRC_ADDR" /\ DmaOrder[2] = "DMA_DEST_ADDR" /\ DmaOrder[3] = "DMA_SRC_LEN" /\ DmaOrder[4] = "DMA_DEST_LEN"
  BY DEF DmaOrder
<1> HIDE DEF X
<1>p0. \A k \in 1 .. 6 : PlacedAt(X, "two-unidirectional", v, k)
  BY <1>g1, <1>d DEF PlacedAt, EndOf, ReadoutPlace, Second, Starts
<1>p1. \A k \in 7 .. 7 : PlacedAt(X, "two-unidirectional", v, k)
  BY <1>g2, <1>d DEF PlacedAt, EndOf, ReadoutPlace, Second, Starts
<1>p2. \A k \in 8 .. 14 : PlacedAt(X, "two-unidirectional", v, k)
  BY <1>g3_0, <1>d DEF PlacedAt, EndOf, ReadoutPlace, Second, Starts
<1>p3. \A k \in 15 .. 21 : PlacedAt(X, "two-unidirectional", v, k)
  BY <1>g3_1, <1>d DEF PlacedAt, EndOf, ReadoutPlace, Second, Starts
<1>p4. \A k \in 22 .. 22 : PlacedAt(X, "two-unidirectional", v, k)
  BY <1>g4, <1>d DEF PlacedAt, EndOf, ReadoutPlace, Second, Starts
<1>p5. \A k \in 23 .. 23 : PlacedAt(X, "two-unidirectional", v, k)
  BY <1>g5, <1>d DEF PlacedAt, EndOf, ReadoutPlace, Second, Starts
<1>p6. \A k \in 24 .. 30 : PlacedAt(X, "two-unidirectional", v, k)
  BY <1>g6_0, <1>d DEF PlacedAt, EndOf, ReadoutPlace, Second, Starts
<1>p7. \A k \in 31 .. 31 : PlacedAt(X, "two-unidirectional", v, k)
  BY <1>g7, <1>d DEF PlacedAt, EndOf, ReadoutPlace, Second, Starts
<1>e. EndOf("two-unidirectional") = 31
  BY DEF EndOf
<1>q. ASSUME NEW k \in 1 .. EndOf("two-unidirectional") PROVE PlacedAt(X, "two-unidirectional", v, k)
  <2>1. k \in 1 .. 6 \/ k \in 7 .. 7 \/ k \in 8 .. 14 \/ k \in 15 .. 21 \/ k \in 22 .. 22 \/ k \in 23 .. 23 \/ k \in 24 .. 30 \/ k \in 31 .. 31
    BY <1>e
  <2> QED
    BY <2>1, <1>p0, <1>p1, <1>p2, <1>p3, <1>p4, <1>p5, <1>p6, <1>p7
<1> QED
  BY <1>q, <1>l, <1>e DEF Placed, X

\* The 24 places of the schedule with one transfer before the readout.
LEMMA OnePlaced ==
  ASSUME NEW v \in Nat
  PROVE  Placed(ExpectedSchedule("one-bidirectional", v), "one-bidirectional", v)
<1> DEFINE X == ExpectedSchedule("one-bidirectional", v)
<1>0. /\ <<StreamTok(5)>> \in Seq(Token) /\ <<StreamTok(2)>> \in Seq(Token)
      /\ <<ReadTok("DST", ReadWords)>> \in Seq(Token) /\ <<ReadTok("INT_STS", 1)>> \in Seq(Token)
  <2>1. "INT_STS" \in Regs /\ "DST" \in Regs /\ ReadWords \in Nat
    BY PlanAssumption DEF Regs
  <2> QED
    BY <2>1, TokenKinds
<1> DEFINE A1 == Before(v)
<1>a1. A1 \in Seq(Token) /\ Len(A1) = 6
  BY BeforeAt
<1> DEFINE A2 == A1 \o <<StreamTok(5)>>
<1> HIDE DEF A1
<1>j2. A2 \in Seq(Token) /\ Joined(A2, A1, <<StreamTok(5)>>)
  BY <1>a1, <1>0, ConcatAt
<1>a2. /\ A2 \in Seq(Token) /\ Len(A2) = 7
      /\ Agrees(A2, A1, 6)
      /\ \A i \in 7 .. 7 : A2[i] = <<StreamTok(5)>>[i - 6]
  <2> HIDE DEF A2
  <2> QED
    BY <1>a1, <1>0, <1>j2 DEF Joined, Agrees
<1> DEFINE A3 == A2 \o Block
<1> HIDE DEF A2
<1>j3. A3 \in Seq(Token) /\ Joined(A3, A2, Block)
  BY <1>a2, BlockAt, ConcatAt
<1>a3. /\ A3 \in Seq(Token) /\ Len(A3) = 14
      /\ Agrees(A3, A2, 7)
      /\ \A i \in 8 .. 14 : A3[i] = Block[i - 7]
  <2> HIDE DEF A3
  <2> QED
    BY <1>a2, BlockAt, <1>j3 DEF Joined, Agrees
<1> DEFINE A4 == A3 \o <<ReadTok("DST", ReadWords)>>
<1> HIDE DEF A3
<1>j4. A4 \in Seq(Token) /\ Joined(A4, A3, <<ReadTok("DST", ReadWords)>>)
  BY <1>a3, <1>0, ConcatAt
<1>a4. /\ A4 \in Seq(Token) /\ Len(A4) = 15
      /\ Agrees(A4, A3, 14)
      /\ \A i \in 15 .. 15 : A4[i] = <<ReadTok("DST", ReadWords)>>[i - 14]
  <2> HIDE DEF A4
  <2> QED
    BY <1>a3, <1>0, <1>j4 DEF Joined, Agrees
<1> DEFINE A5 == A4 \o <<StreamTok(2)>>
<1> HIDE DEF A4
<1>j5. A5 \in Seq(Token) /\ Joined(A5, A4, <<StreamTok(2)>>)
  BY <1>a4, <1>0, ConcatAt
<1>a5. /\ A5 \in Seq(Token) /\ Len(A5) = 16
      /\ Agrees(A5, A4, 15)
      /\ \A i \in 16 .. 16 : A5[i] = <<StreamTok(2)>>[i - 15]
  <2> HIDE DEF A5
  <2> QED
    BY <1>a4, <1>0, <1>j5 DEF Joined, Agrees
<1> DEFINE A6 == A5 \o Block
<1> HIDE DEF A5
<1>j6. A6 \in Seq(Token) /\ Joined(A6, A5, Block)
  BY <1>a5, BlockAt, ConcatAt
<1>a6. /\ A6 \in Seq(Token) /\ Len(A6) = 23
      /\ Agrees(A6, A5, 16)
      /\ \A i \in 17 .. 23 : A6[i] = Block[i - 16]
  <2> HIDE DEF A6
  <2> QED
    BY <1>a5, BlockAt, <1>j6 DEF Joined, Agrees
<1> DEFINE A7 == A6 \o <<ReadTok("INT_STS", 1)>>
<1> HIDE DEF A6
<1>j7. A7 \in Seq(Token) /\ Joined(A7, A6, <<ReadTok("INT_STS", 1)>>)
  BY <1>a6, <1>0, ConcatAt
<1>a7. /\ A7 \in Seq(Token) /\ Len(A7) = 24
      /\ Agrees(A7, A6, 23)
      /\ \A i \in 24 .. 24 : A7[i] = <<ReadTok("INT_STS", 1)>>[i - 23]
  <2> HIDE DEF A7
  <2> QED
    BY <1>a6, <1>0, <1>j7 DEF Joined, Agrees
<1>x. X = A7
  BY ScheduleIs DEF A1, A2, A3, A4, A5, A6
<1> HIDE DEF A7, X
<1>c7. Agrees(X, A7, 24)
  BY <1>x DEF Agrees
<1>c6. Agrees(X, A6, 23)
  BY <1>c7, <1>a7, AgreeOn
<1>c5. Agrees(X, A5, 16)
  BY <1>c6, <1>a6, AgreeOn
<1>c4. Agrees(X, A4, 15)
  BY <1>c5, <1>a5, AgreeOn
<1>c3. Agrees(X, A3, 14)
  BY <1>c4, <1>a4, AgreeOn
<1>c2. Agrees(X, A2, 7)
  BY <1>c3, <1>a3, AgreeOn
<1>c1. Agrees(X, A1, 6)
  BY <1>c2, <1>a2, AgreeOn
<1>f1. /\ X[1] = A1[1] /\ X[2] = A1[2] /\ X[3] = A1[3] /\ X[4] = A1[4] /\ X[5] = A1[5] /\ X[6] = A1[6]
  BY <1>c1 DEF Agrees
<1>g1. /\ X[1] = CacheTok /\ X[2] = ReadTok("CTRL", 1)
      /\ X[3] = ReadTok("MCTRL", 1) /\ X[4] = ReadTok("INT_STS", 1)
      /\ X[5] = FillTok(v, ReadWords) /\ X[6] = ReadTok("DST", ReadWords)
  BY <1>f1, BeforeAt DEF A1
<1>g2. X[7] = StreamTok(5)
  <2>1. X[7] = A2[7]
    BY <1>c2 DEF Agrees
  <2> QED
    BY <2>1, <1>a2
<1>f3_0. /\ X[8] = Block[1] /\ X[9] = Block[2] /\ X[10] = Block[3] /\ X[11] = Block[4]
      /\ X[12] = Block[5] /\ X[13] = Block[6] /\ X[14] = Block[7]
  <2>1. /\ X[8] = A3[8] /\ X[9] = A3[9] /\ X[10] = A3[10] /\ X[11] = A3[11]
      /\ X[12] = A3[12] /\ X[13] = A3[13] /\ X[14] = A3[14]
    BY <1>c3 DEF Agrees
  <2>2. \A j \in 1 .. 7 : A3[7 + j] = Block[j]
    BY <1>a3
  <2> QED
    BY <2>1, <2>2
<1>g3_0. /\ X[8] = WriteTok("INT_STS") /\ X[9] = ReadTok("INT_STS", 1)
      /\ X[10] = WriteTok("DMA_SRC_ADDR") /\ X[11] = WriteTok("DMA_DEST_ADDR")
      /\ X[12] = WriteTok("DMA_SRC_LEN") /\ X[13] = WriteTok("DMA_DEST_LEN")
      /\ X[14] = ReadTok("INT_STS", 1)
  BY <1>f3_0, BlockAt
<1>g4. X[15] = ReadTok("DST", ReadWords)
  <2>1. X[15] = A4[15]
    BY <1>c4 DEF Agrees
  <2> QED
    BY <2>1, <1>a4
<1>g5. X[16] = StreamTok(2)
  <2>1. X[16] = A5[16]
    BY <1>c5 DEF Agrees
  <2> QED
    BY <2>1, <1>a5
<1>f6_0. /\ X[17] = Block[1] /\ X[18] = Block[2] /\ X[19] = Block[3] /\ X[20] = Block[4]
      /\ X[21] = Block[5] /\ X[22] = Block[6] /\ X[23] = Block[7]
  <2>1. /\ X[17] = A6[17] /\ X[18] = A6[18] /\ X[19] = A6[19] /\ X[20] = A6[20]
      /\ X[21] = A6[21] /\ X[22] = A6[22] /\ X[23] = A6[23]
    BY <1>c6 DEF Agrees
  <2>2. \A j \in 1 .. 7 : A6[16 + j] = Block[j]
    BY <1>a6
  <2> QED
    BY <2>1, <2>2
<1>g6_0. /\ X[17] = WriteTok("INT_STS") /\ X[18] = ReadTok("INT_STS", 1)
      /\ X[19] = WriteTok("DMA_SRC_ADDR") /\ X[20] = WriteTok("DMA_DEST_ADDR")
      /\ X[21] = WriteTok("DMA_SRC_LEN") /\ X[22] = WriteTok("DMA_DEST_LEN")
      /\ X[23] = ReadTok("INT_STS", 1)
  BY <1>f6_0, BlockAt
<1>g7. X[24] = ReadTok("INT_STS", 1)
  <2>1. X[24] = A7[24]
    BY <1>c7 DEF Agrees
  <2> QED
    BY <2>1, <1>a7
<1>l. X \in Seq(Token) /\ Len(X) = 24
  BY <1>x, <1>a7
<1>d. DmaOrder[1] = "DMA_SRC_ADDR" /\ DmaOrder[2] = "DMA_DEST_ADDR" /\ DmaOrder[3] = "DMA_SRC_LEN" /\ DmaOrder[4] = "DMA_DEST_LEN"
  BY DEF DmaOrder
<1> HIDE DEF X
<1>p0. \A k \in 1 .. 6 : PlacedAt(X, "one-bidirectional", v, k)
  BY <1>g1, <1>d DEF PlacedAt, EndOf, ReadoutPlace, Second, Starts
<1>p1. \A k \in 7 .. 7 : PlacedAt(X, "one-bidirectional", v, k)
  BY <1>g2, <1>d DEF PlacedAt, EndOf, ReadoutPlace, Second, Starts
<1>p2. \A k \in 8 .. 14 : PlacedAt(X, "one-bidirectional", v, k)
  BY <1>g3_0, <1>d DEF PlacedAt, EndOf, ReadoutPlace, Second, Starts
<1>p3. \A k \in 15 .. 15 : PlacedAt(X, "one-bidirectional", v, k)
  BY <1>g4, <1>d DEF PlacedAt, EndOf, ReadoutPlace, Second, Starts
<1>p4. \A k \in 16 .. 16 : PlacedAt(X, "one-bidirectional", v, k)
  BY <1>g5, <1>d DEF PlacedAt, EndOf, ReadoutPlace, Second, Starts
<1>p5. \A k \in 17 .. 23 : PlacedAt(X, "one-bidirectional", v, k)
  BY <1>g6_0, <1>d DEF PlacedAt, EndOf, ReadoutPlace, Second, Starts
<1>p6. \A k \in 24 .. 24 : PlacedAt(X, "one-bidirectional", v, k)
  BY <1>g7, <1>d DEF PlacedAt, EndOf, ReadoutPlace, Second, Starts
<1>e. EndOf("one-bidirectional") = 24
  BY DEF EndOf
<1>q. ASSUME NEW k \in 1 .. EndOf("one-bidirectional") PROVE PlacedAt(X, "one-bidirectional", v, k)
  <2>1. k \in 1 .. 6 \/ k \in 7 .. 7 \/ k \in 8 .. 14 \/ k \in 15 .. 15 \/ k \in 16 .. 16 \/ k \in 17 .. 23 \/ k \in 24 .. 24
    BY <1>e
  <2> QED
    BY <2>1, <1>p0, <1>p1, <1>p2, <1>p3, <1>p4, <1>p5, <1>p6
<1> QED
  BY <1>q, <1>l, <1>e DEF Placed, X

\* The token of a command that does not write to the command buffer.
TokenOf(c) == IF c.form = "dcache-off" THEN CacheTok
              ELSE IF c.form = "mw.l" /\ c.reg = "DST" /\ c.count = ReadWords THEN FillTok(c.value[2], c.count)
              ELSE Tok(c.form, c.reg, c.count)

\* b is a with x appended, or with x in the place of its last element.
Grown(a, b, x) ==
    /\ Len(b) = Len(a) + 1 /\ b[Len(a) + 1] = x
    /\ \A j \in 1 .. Len(a) : b[j] = a[j]
Replaced(a, b, x) ==
    /\ Len(a) > 0 /\ Len(b) = Len(a) /\ b[Len(a)] = x
    /\ \A j \in 1 .. Len(a) : j # Len(a) => b[j] = a[j]

\* Whether a word of a stream is counted with the token before it.
Merges(a) == a # << >> /\ a[Len(a)][1] \in {"CMD_STREAM", "FILL_DST"}

\* A sequence with one element appended has grown by that element.
LEMMA GrownIs ==
  ASSUME NEW S, NEW a \in Seq(S), NEW x \in S
  PROVE  Append(a, x) \in Seq(S) /\ Grown(a, Append(a, x), x)
BY DEF Grown

\* A sequence with its last element changed differs from it there alone.
LEMMA ReplacedIs ==
  ASSUME NEW S, NEW a \in Seq(S), NEW x \in S, a # << >>
  PROVE  Append(Front(a), x) \in Seq(S) /\ Replaced(a, Append(Front(a), x), x)
<1>1. PICK n \in Nat : Len(a) = n + 1
  <2>1. Len(a) \in Nat /\ Len(a) # 0
    OBVIOUS
  <2> QED
    BY <2>1
<1> DEFINE f == SubSeq(a, 1, n)
<1>2. f \in Seq(S) /\ Len(f) = n
  BY <1>1
<1>3. \A j \in 1 .. n : f[j] = a[j]
  BY <1>1
<1>4. Front(a) = f
  <2>1. Len(a) - 1 = n
    BY <1>1
  <2> QED
    BY <2>1 DEF Front
<1> HIDE DEF f
<1>5. Append(f, x) \in Seq(S) /\ Grown(f, Append(f, x), x)
  BY <1>2, GrownIs
<1> DEFINE b == Append(f, x)
<1> HIDE DEF b
<1>6. Replaced(a, b, x)
  BY <1>1, <1>2, <1>3, <1>5 DEF Replaced, Grown, b
<1> QED
  BY <1>4, <1>5, <1>6 DEF b

\* The elements of the tokens.
LEMMA TokenParts ==
  /\ CacheTok[1] = "CACHE"
  /\ \A n : StreamTok(n)[1] = "CMD_STREAM" /\ StreamTok(n)[2] = n
  /\ \A v, n : FillTok(v, n)[1] = "FILL_DST" /\ FillTok(v, n)[2] = v /\ FillTok(v, n)[3] = n
  /\ \A f, r, n : Tok(f, r, n)[1] = f /\ Tok(f, r, n)[2] = r /\ Tok(f, r, n)[3] = n
BY DEF CacheTok, StreamTok, FillTok, Tok

\* What a token of a stream or of a fill counts is a number.
LEMMA CountedToken ==
  ASSUME NEW x \in Token, x[1] \in {"CMD_STREAM", "FILL_DST"}
  PROVE  x[2] \in Nat
<1>1. CASE x = CacheTok
  BY <1>1, TokenParts
<1>2. CASE \E n \in Nat : x = StreamTok(n)
  BY <1>2, TokenParts
<1>3. CASE \E v \in Nat, n \in Nat : x = FillTok(v, n)
  BY <1>3, TokenParts
<1>4. CASE \E f \in Forms, r \in Regs, n \in Nat : x = Tok(f, r, n)
  <2>1. x[1] \in Forms
    BY <1>4, TokenParts
  <2> QED
    BY <2>1 DEF Forms
<1> QED
  BY <1>1, <1>2, <1>3, <1>4 DEF Token

\* The fields of a command.
LEMMA CommandTyped ==
  ASSUME NEW c \in Command
  PROVE  c.form \in Forms /\ c.reg \in Regs /\ c.at \in Nat /\ c.count \in Nat
         /\ c.value \in Word /\ c.value[1] \in Names /\ c.value[2] \in Nat
BY DEF Command, Word

\* The token of a command that writes no stream is no stream's.
LEMMA TokenOfTyped ==
  ASSUME NEW c \in Command
  PROVE  TokenOf(c) \in Token /\ TokenOf(c)[1] # "CMD_STREAM"
         /\ (TokenOf(c)[1] = "FILL_DST" => c.form = "mw.l" /\ c.reg = "DST" /\ c.count = ReadWords)
<1>1. c.form \in Forms /\ c.reg \in Regs /\ c.count \in Nat /\ c.value[2] \in Nat
  BY CommandTyped
<1>2. CacheTok \in Token /\ FillTok(c.value[2], c.count) \in Token /\ Tok(c.form, c.reg, c.count) \in Token
  BY <1>1 DEF Token
<1> QED
  BY <1>1, <1>2, TokenParts DEF TokenOf, Forms

\* What one command does to the tokens: one more, or the last counts one more.
LEMMA TokenGrows ==
  ASSUME NEW acc \in Seq(Token), NEW c \in ReadCommand
  PROVE  /\ TokenStep(acc, c) \in Seq(Token)
         /\ ~StreamWrite(c) => Grown(acc, TokenStep(acc, c), TokenOf(c))
         /\ StreamWrite(c) /\ ~Merges(acc) => Grown(acc, TokenStep(acc, c), StreamTok(1))
         /\ StreamWrite(c) /\ Merges(acc) => Replaced(acc, TokenStep(acc, c), StreamTok(acc[Len(acc)][2] + 1))
<1>1. c \in Command /\ (StreamWrite(c) => c.count = 1)
  BY DEF ReadCommand
<1>2. CASE ~StreamWrite(c)
  <2>1. TokenStep(acc, c) = Append(acc, TokenOf(c))
    BY <1>2 DEF TokenStep, TokenOf, StreamWrite, CacheTok, FillTok, Tok
  <2> QED
    BY <1>1, <1>2, <2>1, TokenOfTyped, GrownIs
<1>3. CASE StreamWrite(c) /\ ~Merges(acc)
  <2>1. TokenStep(acc, c) = Append(acc, StreamTok(1))
    BY <1>1, <1>3 DEF TokenStep, StreamWrite, Merges, StreamTok, Last
  <2>2. StreamTok(1) \in Token
    BY DEF Token
  <2> QED
    BY <1>3, <2>1, <2>2, GrownIs
<1>4. CASE StreamWrite(c) /\ Merges(acc)
  <2> DEFINE n == acc[Len(acc)][2]
  <2>1. acc # << >> /\ acc[Len(acc)] \in Token /\ acc[Len(acc)][1] \in {"CMD_STREAM", "FILL_DST"}
    BY <1>4 DEF Merges
  <2>2. n \in Nat
    BY <2>1, CountedToken
  <2>3. TokenStep(acc, c) = Append(Front(acc), StreamTok(n + 1))
    BY <1>1, <1>4, <2>1 DEF TokenStep, StreamWrite, StreamTok, Last
  <2>4. StreamTok(n + 1) \in Token
    BY <2>2 DEF Token
  <2> QED
    BY <1>4, <2>1, <2>3, <2>4, ReplacedIs
<1> QED
  BY <1>2, <1>3, <1>4

\* The destination filled with 0 right before a word of a stream.
ZeroFilled(s) == \E i \in 1 .. Len(s) - 1 : ZeroFill(s[i]) /\ s[i + 1].reg = "CMD"

\* A read plan that the guards accept, and their walks over it: t its tokens,
\* d its DMA commands, h its streams.
Judged(p, t, d, h) ==
    /\ p.order \in Orders /\ p.far \in Nat /\ p.sentinel \in Nat /\ p.sentinel > 0 /\ p.sentinel < WordLimit
    /\ p.script \in Seq(ReadCommand)
    /\ CheckAllowlist(p.script, ReadRegions) /\ CheckRegisterWrites(p.script)
    /\ TokenWalk(t, p.script) /\ t[Len(p.script)] = ExpectedSchedule(p.order, p.sentinel)
    /\ DmaWalk(d, p.script)
    /\ d[Len(p.script)].ordered /\ d[Len(p.script)].pending = << >>
    /\ d[Len(p.script)].txs = [i \in DOMAIN ExpectedTransactions(p.order) |-> Transaction[ExpectedTransactions(p.order)[i]]]
    /\ PhaseWalk(h, p.script)
    /\ LET end == h[Len(p.script)]
           phases == IF end.current = << >> THEN end.phases ELSE Append(end.phases, end.current)
       IN  Len(phases) = 2 /\ IsStream(phases[1], ReadbackStream(p.far)) /\ IsStream(phases[2], CleanupStream)
    /\ ~ZeroFilled(p.script)

\* The walks of a judged plan, step by step.
LEMMA ScriptAt ==
  ASSUME NEW p, NEW t, NEW d, NEW h, Judged(p, t, d, h)
  PROVE  /\ Len(p.script) \in Nat
         /\ \A i \in 1 .. Len(p.script) :
              /\ p.script[i] \in ReadCommand
              /\ t[i] = TokenStep(t[i - 1], p.script[i])
              /\ d[i] = DmaStep(d[i - 1], p.script[i])
              /\ h[i] = PhaseStep(h[i - 1], p.script[i])
<1>1. p.script \in Seq(ReadCommand)
  BY DEF Judged
<1> QED
  BY <1>1 DEF Judged, TokenWalk, DmaWalk, PhaseWalk

\* What the schedule says of the tokens of a prefix: all but the last are
\* those of the schedule, and so is the last unless it is being counted.
Frozen(a, X) ==
    /\ a \in Seq(Token) /\ Len(a) <= Len(X)
    /\ \A j \in 1 .. Len(a) :
         \/ a[j] = X[j]
         \/ j = Len(a) /\ X[j][1] = "CMD_STREAM" /\ a[j][1] \in {"CMD_STREAM", "FILL_DST"}

\* Tokens that fit the schedule fitted it one command earlier.
LEMMA FrozenBefore ==
  ASSUME NEW X \in Seq(Token), NEW a \in Seq(Token), NEW c \in ReadCommand, Frozen(TokenStep(a, c), X)
  PROVE  Frozen(a, X)
<1> DEFINE b == TokenStep(a, c)
<1>1. Len(a) \in Nat /\ Len(X) \in Nat
  OBVIOUS
<1>2. CASE \E x \in Token : Grown(a, b, x)
  <2> HIDE DEF b
  <2>1. Frozen(b, X)
    BY DEF b
  <2>2. Len(b) = Len(a) + 1 /\ \A j \in 1 .. Len(a) : b[j] = a[j]
    BY <1>2 DEF Grown
  <2>3. \A j \in 1 .. Len(a) : a[j] = X[j]
    BY <1>1, <2>1, <2>2 DEF Frozen
  <2> QED
    BY <1>1, <2>1, <2>2, <2>3 DEF Frozen
<1>3. CASE Merges(a) /\ \E n : Replaced(a, b, StreamTok(n))
  <2> HIDE DEF b
  <2>1. Frozen(b, X)
    BY DEF b
  <2>2. PICK n : Replaced(a, b, StreamTok(n))
    BY <1>3
  <2>3. Len(b) = Len(a) /\ Len(a) > 0 /\ b[Len(a)] = StreamTok(n) /\ \A j \in 1 .. Len(a) : j # Len(a) => b[j] = a[j]
    BY <2>2 DEF Replaced
  <2>4. \A j \in 1 .. Len(a) : j # Len(a) => a[j] = X[j]
    BY <1>1, <2>1, <2>3 DEF Frozen
  <2>5. X[Len(a)][1] = "CMD_STREAM"
    BY <1>1, <2>1, <2>3, TokenParts DEF Frozen
  <2>6. a[Len(a)][1] \in {"CMD_STREAM", "FILL_DST"}
    BY <1>3 DEF Merges
  <2> QED
    BY <1>1, <2>1, <2>3, <2>4, <2>5, <2>6 DEF Frozen
<1>4. c \in Command /\ StreamTok(1) \in Token
  BY DEF ReadCommand, Token
<1> QED
  BY <1>2, <1>3, <1>4, TokenGrows, TokenOfTyped

\* The tokens of every prefix.
LEMMA TokensFrozen ==
  ASSUME NEW p, NEW t, NEW d, NEW h, Judged(p, t, d, h)
  PROVE  \A i \in 0 .. Len(p.script) : Frozen(t[i], ExpectedSchedule(p.order, p.sentinel))
<1> DEFINE s == p.script
<1> DEFINE n == Len(s)
<1> DEFINE X == ExpectedSchedule(p.order, p.sentinel)
<1>1. n \in Nat /\ \A i \in 1 .. n : s[i] \in ReadCommand /\ t[i] = TokenStep(t[i - 1], s[i])
  BY ScriptAt
<1>2. t[0] = << >> /\ t[n] = X /\ p.order \in Orders /\ p.sentinel \in Nat
  BY DEF Judged, TokenWalk, NoToken
<1>3. X \in Seq(Token)
  BY <1>2, TwoPlaced, OnePlaced DEF Placed, Orders
<1> HIDE DEF s, n, X
<1> DEFINE P == {i \in 0 .. n : t[i] \in Seq(Token)}
<1>4. 0 .. n \subseteq P
  <2>1. 0 \in P
    <3>1. << >> \in Seq(Token)
      OBVIOUS
    <3>2. t[0] \in Seq(Token)
      BY <1>2, <3>1
    <3> QED
      BY <1>1, <3>2
  <2>2. ASSUME NEW i \in 1 .. n, i - 1 \in P PROVE i \in P
    BY <1>1, <2>2, TokenGrows
  <2> HIDE DEF P
  <2> QED
    BY <1>1, <2>1, <2>2, UpTo
<1> DEFINE Q == {i \in 0 .. n : Frozen(t[i], X)}
<1>5. 0 .. n \subseteq Q
  <2>1. n \in Q
    BY <1>1, <1>2, <1>3 DEF Frozen
  <2>2. ASSUME NEW i \in 1 .. n, i \in Q PROVE i - 1 \in Q
    <3>1. i - 1 \in 0 .. n /\ t[i - 1] \in Seq(Token)
      BY <1>1, <1>4
    <3>2. Frozen(TokenStep(t[i - 1], s[i]), X)
      BY <1>1, <2>2
    <3>3. Frozen(t[i - 1], X)
      BY <1>1, <1>3, <3>1, <3>2, FrozenBefore
    <3> QED
      BY <3>1, <3>3
  <2> HIDE DEF Q
  <2> QED
    BY <1>1, <2>1, <2>2, DownTo
<1> QED
  BY <1>5 DEF X, n, s

-----------------------------------------------------------------------------
(* What the guards count: the words of a stream, each written once.         *)

\* f with v at x.
Extended(f, x, v) == [k \in DOMAIN f \cup {x} |-> IF k = x THEN v ELSE f[k]]

\* A command that writes one word of the buffer puts one word.
LEMMA OneWord ==
  ASSUME NEW acc, NEW f, Len(f) = 1
  PROVE  Walk(PutWord, acc, f) = PutWord(acc, f[1])
<1> DEFINE Upto(u) == u = [i \in 0 .. 1 |-> IF i = 0 THEN acc ELSE PutWord(u[i - 1], f[i])]
<1>1. \E u : Upto(u)
  <2> DEFINE z == [i \in 0 .. 1 |-> IF i = 0 THEN acc ELSE PutWord(acc, f[1])]
  <2>1. \A i \in 0 .. 1 : z[i] = IF i = 0 THEN acc ELSE PutWord(z[i - 1], f[i])
    <3>1. z[0] = acc /\ z[1] = PutWord(acc, f[1])
      OBVIOUS
    <3> QED
      BY <3>1
  <2>2. Upto(z)
    BY <2>1
  <2> HIDE DEF z
  <2> QED
    BY <2>2
<1> DEFINE w == CHOOSE x : Upto(x)
<1>2. Upto(w)
  BY <1>1
<1>3. Walk(PutWord, acc, f) = w[1]
  BY DEF Walk
<1> HIDE DEF w
<1> QED
  BY <1>2, <1>3

\* What a command does to the streams that are being collected.
Collected(b) == b = [phases |-> b.phases, current |-> b.current]
PhaseKept(a, b) == b.phases = a.phases /\ b.current = a.current
PhaseOpened(a, b, c) ==
    /\ c.at \in DOMAIN a.current /\ b.phases = Append(a.phases, a.current)
    /\ b.current = [k \in {c.at} |-> c.value]
PhaseGrown(a, b, c) ==
    /\ c.at \notin DOMAIN a.current /\ b.phases = a.phases
    /\ b.current = Extended(a.current, c.at, c.value)

\* What one command does to the streams: nothing, a new stream or one more word.
LEMMA PhaseSteps ==
  ASSUME NEW S, NEW S2, NEW a \in [phases : S, current : S2], NEW c \in ReadCommand
  PROVE  /\ Collected(PhaseStep(a, c))
         /\ ~StreamWrite(c) => PhaseKept(a, PhaseStep(a, c))
         /\ StreamWrite(c) => PhaseOpened(a, PhaseStep(a, c), c) \/ PhaseGrown(a, PhaseStep(a, c), c)
<1>1. CASE ~StreamWrite(c)
  <2>1. PhaseStep(a, c) = a
    BY <1>1 DEF PhaseStep, StreamWrite
  <2>2. a = [phases |-> a.phases, current |-> a.current]
    OBVIOUS
  <2> QED
    BY <1>1, <2>1, <2>2 DEF PhaseKept, Collected
<1>2. CASE StreamWrite(c)
  <2> DEFINE f == [k \in 1..c.count |-> <<c.at + k - 1, c.value>>]
  <2>1. c.count = 1 /\ c.at \in Nat
    BY <1>2, CommandTyped DEF ReadCommand
  <2>2. Len(f) = 1 /\ f[1] = <<c.at, c.value>>
    <3>1. Len(f) = 1
      BY <2>1
    <3>2. f[1] = <<c.at + 1 - 1, c.value>>
      BY <2>1
    <3> QED
      BY <2>1, <3>1, <3>2
  <2>3. PhaseStep(a, c) = Walk(PutWord, a, f)
    BY <1>2 DEF PhaseStep, StreamWrite
  <2> HIDE DEF f
  <2>4. PhaseStep(a, c) = PutWord(a, <<c.at, c.value>>)
    BY <2>2, <2>3, OneWord
  <2>5. CASE c.at \in DOMAIN a.current
    <3>1. PhaseStep(a, c) = [phases |-> Append(a.phases, a.current), current |-> [k \in {c.at} |-> c.value]]
      BY <2>4, <2>5 DEF PutWord
    <3> QED
      BY <1>2, <2>5, <3>1 DEF PhaseOpened, Collected
  <2>6. CASE c.at \notin DOMAIN a.current
    <3>1. PhaseStep(a, c) = [a EXCEPT !.current = Extended(a.current, c.at, c.value)]
      BY <2>4, <2>6 DEF PutWord, Extended
    <3>2. PhaseStep(a, c) = [phases |-> a.phases, current |-> Extended(a.current, c.at, c.value)]
      BY <3>1
    <3> QED
      BY <1>2, <2>6, <3>2 DEF PhaseGrown, Collected
  <2> QED
    BY <2>5, <2>6
<1> QED
  BY <1>1, <1>2

\* A command of an accepted script.
LEMMA CommandAt ==
  ASSUME NEW p, NEW t, NEW d, NEW h, Judged(p, t, d, h), NEW i \in 1 .. Len(p.script)
  PROVE  LET c == p.script[i] IN
         /\ c \in Command /\ c.form \in {"dcache-off", "md.l", "mw.l"}
         /\ c.form # "dcache-off" => c.reg \in ReadRegions /\ c.count >= 1 /\ c.at + c.count <= RegionSize(c.reg)
         /\ c.form = "mw.l" => c.reg \notin ReadOnlyRegs /\ (c.reg = "INT_STS" => c.value = ClearMask)
         /\ StreamWrite(c) => c.at \in 0 .. 4
<1> DEFINE c == p.script[i]
<1>1. p.script \in Seq(ReadCommand) /\ i \in DOMAIN p.script /\ c \in Command
  <2>1. p.script \in Seq(ReadCommand)
    BY DEF Judged
  <2> QED
    BY <2>1 DEF ReadCommand
<1>2. /\ c.form \in {"dcache-off", "md.l", "mw.l"}
      /\ c.form # "dcache-off" => c.reg \in ReadRegions /\ c.count >= 1 /\ c.at + c.count <= RegionSize(c.reg)
  BY <1>1 DEF Judged, CheckAllowlist
<1>3. c.form = "mw.l" => c.reg \notin ReadOnlyRegs /\ (c.reg = "INT_STS" => c.value = ClearMask)
  BY <1>1 DEF Judged, CheckRegisterWrites
<1>4. ASSUME StreamWrite(c) PROVE c.at \in 0 .. 4
  <2>1. c.at \in Nat /\ c.count \in Nat /\ c.count >= 1 /\ c.at + c.count <= RegionSize("CMD")
    BY <1>1, <1>2, <1>4, CommandTyped DEF StreamWrite
  <2>2. RegionSize("CMD") = 5
    BY DEF RegionSize, StreamWords
  <2> QED
    BY <2>1, <2>2
<1> QED
  BY <1>1, <1>2, <1>3, <1>4

Contents(p, h) == {h[i].current : i \in 0 .. Len(p.script)}

\* The streams of every prefix.
LEMMA PhasesTyped ==
  ASSUME NEW p, NEW t, NEW d, NEW h, Judged(p, t, d, h)
  PROVE  \A i \in 0 .. Len(p.script) :
           /\ h[i] \in [phases : Seq(Contents(p, h)), current : Contents(p, h)]
           /\ DOMAIN h[i].current \subseteq 0 .. 4
           /\ h[i].phases # << >> => DOMAIN h[i].current # {}
<1> DEFINE s == p.script
<1> DEFINE n == Len(s)
<1> DEFINE C == Contents(p, h)
<1>1. n \in Nat /\ \A i \in 1 .. n : s[i] \in ReadCommand /\ h[i] = PhaseStep(h[i - 1], s[i])
  BY ScriptAt
<1>2. h[0] = [phases |-> << >>, current |-> << >>]
  BY DEF Judged, PhaseWalk, PhaseStart
<1>3. \A i \in 1 .. n : StreamWrite(s[i]) => s[i].at \in 0 .. 4
  BY CommandAt
<1>4. \A i \in 0 .. n : h[i].current \in C
  BY DEF Contents
<1> HIDE DEF s, n, C
<1> DEFINE P == {i \in 0 .. n : /\ h[i] \in [phases : Seq(C), current : C]
                                /\ DOMAIN h[i].current \subseteq 0 .. 4
                                /\ h[i].phases # << >> => DOMAIN h[i].current # {}}
<1>5. 0 \in P
  <2>1. << >> \in Seq(C) /\ 0 \in 0 .. n
    BY <1>1
  <2>2. h[0].phases = << >> /\ DOMAIN h[0].current = {} /\ DOMAIN h[0] = {"phases", "current"}
    BY <1>2
  <2>3. h[0] \in [phases : Seq(C), current : C]
    <3>1. h[0].current \in C
      BY <1>4, <2>1
    <3>2. h[0].current = << >>
      BY <1>2
    <3> QED
      BY <1>2, <2>1, <3>1, <3>2
  <2> QED
    BY <2>1, <2>2, <2>3
<1>6. ASSUME NEW i \in 1 .. n, i - 1 \in P PROVE i \in P
  <2> DEFINE a == h[i - 1]
  <2> DEFINE b == h[i]
  <2> DEFINE c == s[i]
  <2>1. /\ a \in [phases : Seq(C), current : C] /\ DOMAIN a.current \subseteq 0 .. 4
        /\ a.phases # << >> => DOMAIN a.current # {}
    BY <1>6
  <2>2. b = PhaseStep(a, c) /\ c \in ReadCommand /\ i \in 0 .. n /\ b.current \in C
    BY <1>1, <1>4
  <2>3. (StreamWrite(c) => c.at \in 0 .. 4) /\ a.phases \in Seq(C) /\ a.current \in C
    BY <1>3, <2>1
  <2> HIDE DEF a, b, c
  <2>4. /\ Collected(b)
        /\ PhaseKept(a, b) \/ (StreamWrite(c) /\ (PhaseOpened(a, b, c) \/ PhaseGrown(a, b, c)))
    BY <2>1, <2>2, PhaseSteps
  <2>5. b.phases \in Seq(C)
    <3>1. b.phases = a.phases \/ b.phases = Append(a.phases, a.current)
      BY <2>4 DEF PhaseKept, PhaseOpened, PhaseGrown
    <3>2. Append(a.phases, a.current) \in Seq(C)
      BY <2>3
    <3> QED
      BY <2>3, <3>1, <3>2
  <2>6. DOMAIN b.current \subseteq 0 .. 4
    BY <2>1, <2>3, <2>4 DEF PhaseKept, PhaseOpened, PhaseGrown, Extended
  <2>7. b.phases # << >> => DOMAIN b.current # {}
    BY <2>1, <2>4 DEF PhaseKept, PhaseOpened, PhaseGrown, Extended
  <2>8. b \in [phases : Seq(C), current : C]
    BY <2>2, <2>4, <2>5 DEF Collected
  <2> QED
    BY <2>2, <2>6, <2>7, <2>8 DEF b
<1>7. 0 .. n \subseteq P
  <2> HIDE DEF P
  <2> QED
    BY <1>1, <1>5, <1>6, UpTo
<1> QED
  BY <1>7 DEF C, n, s

\* The places of the schedule that hold streams are two.
LEMMA StreamPlaces ==
  ASSUME NEW o \in Orders, NEW v \in Nat, NEW X, Placed(X, o, v)
  PROVE  /\ X \in Seq(Token) /\ Len(X) = EndOf(o) /\ Second(o) \in 8 .. EndOf(o) - 8 /\ EndOf(o) \in Nat
         /\ X[7] = StreamTok(5) /\ X[Second(o)] = StreamTok(2)
         /\ \A k \in 1 .. Len(X) : X[k][1] = "CMD_STREAM" => k \in {7, Second(o)}
<1>1. X \in Seq(Token) /\ Len(X) = EndOf(o) /\ Second(o) \in 8 .. EndOf(o) - 8 /\ EndOf(o) \in Nat
  BY DEF Placed, Orders, EndOf, Second
<1>2. \A k \in 1 .. Len(X) : PlacedAt(X, o, v, k)
  BY <1>1 DEF Placed
<1>3. /\ CacheTok[1] # "CMD_STREAM" /\ FillTok(v, ReadWords)[1] # "CMD_STREAM"
      /\ \A r, n : ReadTok(r, n)[1] # "CMD_STREAM" /\ WriteTok(r)[1] # "CMD_STREAM"
  BY TokenParts DEF ReadTok, WriteTok
<1>4. ASSUME NEW k \in 1 .. Len(X), X[k][1] = "CMD_STREAM" PROVE k \in {7, Second(o)}
  <2>1. PlacedAt(X, o, v, k)
    BY <1>2
  <2>2. \/ k \in {7, Second(o)} \/ X[k] = CacheTok \/ X[k] = FillTok(v, ReadWords)
        \/ (\E r, n : X[k] = ReadTok(r, n)) \/ (\E r : X[k] = WriteTok(r))
    BY <2>1 DEF PlacedAt
  <2> QED
    BY <1>3, <1>4, <2>2
<1>5. X[7] = StreamTok(5)
  <2>1. PlacedAt(X, o, v, 7)
    BY <1>1, <1>2
  <2> QED
    BY <2>1 DEF PlacedAt, Orders, Second, Starts, EndOf, ReadoutPlace
<1>6. X[Second(o)] = StreamTok(2)
  <2>1. PlacedAt(X, o, v, Second(o))
    BY <1>1, <1>2
  <2> QED
    BY <2>1 DEF PlacedAt, Orders, Second, Starts, EndOf, ReadoutPlace
<1> QED
  BY <1>1, <1>4, <1>5, <1>6

\* Both schedules, place by place.
LEMMA SchedulePlaced ==
  ASSUME NEW o \in Orders, NEW v \in Nat
  PROVE  Placed(ExpectedSchedule(o, v), o, v)
BY TwoPlaced, OnePlaced DEF Orders

\* How many words the token at place k counts, and the tokens of a prefix.
Counted(a, k) == IF k <= Len(a) /\ a[k][1] = "CMD_STREAM" THEN a[k][2] ELSE 0
Sum(a, o) == Counted(a, 7) + Counted(a, Second(o))
Swallows(a) == a # << >> /\ a[Len(a)][1] = "FILL_DST"

\* The words counted for the two streams are numbers.
LEMMA SumTyped ==
  ASSUME NEW a \in Seq(Token), NEW o \in Orders
  PROVE  Counted(a, 7) \in Nat /\ Counted(a, Second(o)) \in Nat /\ Sum(a, o) \in Nat
<1>1. 7 \in Nat /\ Second(o) \in Nat /\ 7 >= 1 /\ Second(o) >= 1
  BY DEF Second
<1>2. ASSUME NEW k \in Nat, k >= 1 PROVE Counted(a, k) \in Nat
  <2>1. CASE k <= Len(a) /\ a[k][1] = "CMD_STREAM"
    <3>1. a[k] \in Token
      BY <1>2, <2>1
    <3>2. a[k][2] \in Nat
      BY <2>1, <3>1, CountedToken
    <3> QED
      BY <2>1, <3>2 DEF Counted
  <2> QED
    BY <2>1 DEF Counted
<1> QED
  BY <1>1, <1>2 DEF Sum

\* A command adds to the words counted for the streams what it writes of them, and
\* the claimed value of a fill that it follows directly.
LEMMA SumSteps ==
  ASSUME NEW o \in Orders, NEW v \in Nat, NEW X, Placed(X, o, v), NEW a, NEW c \in ReadCommand,
         Frozen(a, X), Frozen(TokenStep(a, c), X)
  PROVE  Sum(TokenStep(a, c), o) = Sum(a, o) + (IF ~StreamWrite(c) THEN 0
                                                ELSE IF Swallows(a) THEN a[Len(a)][2] + 1 ELSE 1)
<1> DEFINE b == TokenStep(a, c)
<1> DEFINE two == Second(o)
<1>1. a \in Seq(Token) /\ b \in Seq(Token) /\ Len(a) \in Nat
  BY DEF Frozen
<1>2. two \in Nat /\ two > 7
  BY DEF Second
<1>3. Counted(a, 7) \in Nat /\ Counted(a, two) \in Nat
  BY <1>1, SumTyped
<1>4. \A k \in 1 .. Len(X) : X[k][1] = "CMD_STREAM" => k \in {7, two}
  BY StreamPlaces
<1>5. c \in Command /\ TokenOf(c)[1] # "CMD_STREAM"
  BY TokenOfTyped DEF ReadCommand
<1>6. /\ ~StreamWrite(c) => Grown(a, b, TokenOf(c))
      /\ StreamWrite(c) /\ ~Merges(a) => Grown(a, b, StreamTok(1))
      /\ StreamWrite(c) /\ Merges(a) => Replaced(a, b, StreamTok(a[Len(a)][2] + 1))
  BY <1>1, TokenGrows
<1>7. Frozen(a, X) /\ Frozen(b, X)
  OBVIOUS
<1> HIDE DEF b, two
<1>8. CASE ~StreamWrite(c)
  <2>1. Len(b) = Len(a) + 1 /\ b[Len(a) + 1][1] # "CMD_STREAM" /\ \A j \in 1 .. Len(a) : b[j] = a[j]
    BY <1>5, <1>6, <1>8 DEF Grown
  <2>2. Counted(b, 7) = Counted(a, 7) /\ Counted(b, two) = Counted(a, two)
    BY <1>1, <1>2, <2>1 DEF Counted
  <2> QED
    BY <1>3, <1>8, <2>2 DEF Sum, b, two
<1>9. CASE StreamWrite(c) /\ ~Merges(a)
  <2>1. Len(b) = Len(a) + 1 /\ b[Len(a) + 1] = StreamTok(1) /\ \A j \in 1 .. Len(a) : b[j] = a[j]
    BY <1>6, <1>9 DEF Grown
  <2>2. Len(a) + 1 \in 1 .. Len(X) /\ X[Len(a) + 1][1] = "CMD_STREAM"
    BY <1>1, <1>7, <2>1, TokenParts DEF Frozen
  <2>3. Len(a) + 1 \in {7, two}
    BY <1>4, <2>2
  <2>4. StreamTok(1)[1] = "CMD_STREAM" /\ StreamTok(1)[2] = 1
    BY TokenParts
  <2>5. CASE Len(a) + 1 = 7
    <3>1. Counted(a, 7) = 0 /\ Counted(b, 7) = 1 /\ Counted(a, two) = 0 /\ Counted(b, two) = 0
      BY <1>1, <1>2, <2>1, <2>4, <2>5 DEF Counted
    <3> QED
      BY <1>9, <3>1 DEF Sum, b, two, Swallows, Merges
  <2>6. CASE Len(a) + 1 = two
    <3>1. Counted(b, 7) = Counted(a, 7)
      BY <1>1, <1>2, <2>1, <2>6 DEF Counted
    <3>2. Counted(a, two) = 0 /\ Counted(b, two) = 1
      BY <1>1, <1>2, <2>1, <2>4, <2>6 DEF Counted
    <3> QED
      BY <1>3, <1>9, <3>1, <3>2 DEF Sum, b, two, Swallows, Merges
  <2> QED
    BY <2>3, <2>5, <2>6
<1>10. CASE StreamWrite(c) /\ Merges(a)
  <2> DEFINE k == Len(a)
  <2> DEFINE m == a[Len(a)][2]
  <2>1. k > 0 /\ Len(b) = k /\ b[k] = StreamTok(m + 1) /\ \A j \in 1 .. k : j # k => b[j] = a[j]
    BY <1>6, <1>10 DEF Replaced
  <2>2. k \in 1 .. Len(X) /\ X[k][1] = "CMD_STREAM"
    BY <1>1, <1>7, <2>1, TokenParts DEF Frozen
  <2>3. k \in {7, two}
    BY <1>4, <2>2
  <2>4. b[k][1] = "CMD_STREAM" /\ b[k][2] = m + 1
    BY <2>1, TokenParts
  <2>5. a[k] \in Token /\ a[k][1] \in {"CMD_STREAM", "FILL_DST"} /\ a # << >>
    BY <1>1, <1>10, <2>1 DEF Merges
  <2>6. m \in Nat
    BY <2>5, CountedToken
  <2>7. /\ a[k][1] = "CMD_STREAM" => ~Swallows(a)
        /\ a[k][1] = "FILL_DST" => Swallows(a)
    BY <2>5 DEF Swallows
  <2>8. /\ a[k][1] = "CMD_STREAM" => Counted(a, k) = m
        /\ a[k][1] = "FILL_DST" => Counted(a, k) = 0
        /\ Counted(b, k) = m + 1
    BY <2>1, <2>4 DEF Counted
  <2> HIDE DEF m
  <2>9. Counted(b, k) = Counted(a, k) + (IF Swallows(a) THEN m + 1 ELSE 1)
    BY <2>5, <2>6, <2>7, <2>8
  <2>10. CASE k = 7
    <3>1. Counted(b, two) = Counted(a, two)
      BY <1>1, <1>2, <2>1, <2>10 DEF Counted
    <3> QED
      BY <1>3, <1>10, <2>6, <2>9, <2>10, <3>1 DEF Sum, b, two, m
  <2>11. CASE k = two
    <3>1. Counted(b, 7) = Counted(a, 7)
      BY <1>1, <1>2, <2>1, <2>11 DEF Counted
    <3> QED
      BY <1>3, <1>10, <2>6, <2>9, <2>11, <3>1 DEF Sum, b, two, m
  <2> QED
    BY <2>3, <2>10, <2>11
<1> QED
  BY <1>8, <1>9, <1>10

\* How far f agrees with g.
Within(f, g) == DOMAIN f \subseteq DOMAIN g /\ \A x \in DOMAIN f : f[x] = g[x]

\* The streams of a prefix are the beginning of the two of the plan.
PhaseAt(a, f, g) ==
    \/ a.phases = << >> /\ Within(a.current, f)
    \/ a.phases = <<f>> /\ Within(a.current, g)

\* The streams of a judged plan are the two expected ones.
LEMMA PhaseEnd ==
  ASSUME NEW p, NEW t, NEW d, NEW h, Judged(p, t, d, h)
  PROVE  LET end == h[Len(p.script)] IN
         /\ end.phases = <<end.phases[1]>>
         /\ IsStream(end.phases[1], ReadbackStream(p.far)) /\ IsStream(end.current, CleanupStream)
<1> DEFINE end == h[Len(p.script)]
<1> DEFINE C == Contents(p, h)
<1>1. end.phases \in Seq(C) /\ end.current \in C /\ (end.phases # << >> => DOMAIN end.current # {})
  <2>1. Len(p.script) \in 0 .. Len(p.script)
    BY ScriptAt
  <2> QED
    BY <2>1, PhasesTyped
<1> DEFINE phases == IF end.current = << >> THEN end.phases ELSE Append(end.phases, end.current)
<1>2. Len(phases) = 2 /\ IsStream(phases[1], ReadbackStream(p.far)) /\ IsStream(phases[2], CleanupStream)
  BY DEF Judged
<1> HIDE DEF end, C
<1>3. end.current # << >>
  <2>1. SUFFICES ASSUME end.current = << >> PROVE FALSE
    OBVIOUS
  <2>2. DOMAIN end.current = {}
    BY <2>1
  <2>3. end.phases = << >>
    BY <1>1, <2>2
  <2> QED
    BY <1>2, <2>1, <2>3
<1>4. phases = Append(end.phases, end.current)
  BY <1>3
<1>5. Grown(end.phases, phases, end.current)
  BY <1>1, <1>4, GrownIs
<1> HIDE DEF phases
<1>6. Len(end.phases) = 1 /\ phases[1] = end.phases[1] /\ phases[2] = end.current
  <2>1. PICK m \in Nat : Len(end.phases) = m
    BY <1>1
  <2>2. Len(phases) = m + 1 /\ phases[m + 1] = end.current /\ \A j \in 1 .. m : phases[j] = end.phases[j]
    BY <1>5, <2>1 DEF Grown
  <2>3. m + 1 = 2
    BY <1>2, <2>2
  <2>4. m = 1
    BY <2>3
  <2> QED
    BY <2>1, <2>2, <2>4
<1>7. end.phases = <<end.phases[1]>>
  BY <1>1, <1>6
<1> QED
  BY <1>2, <1>6, <1>7 DEF end

\* What held of the streams after a command, seen from before it.
LEMMA PhaseBack ==
  ASSUME NEW C, NEW a, a.phases \in Seq(C), a.current \in C, NEW b, NEW c, NEW f, NEW g,
         PhaseKept(a, b) \/ PhaseOpened(a, b, c) \/ PhaseGrown(a, b, c), PhaseAt(b, f, g)
  PROVE  /\ PhaseAt(a, f, g)
         /\ PhaseOpened(a, b, c) => a.phases = << >> /\ a.current = f
<1>1. CASE PhaseKept(a, b)
  <2>1. PhaseAt(a, f, g)
    BY <1>1 DEF PhaseKept, PhaseAt
  <2>2. ~PhaseOpened(a, b, c)
    <3>1. SUFFICES ASSUME PhaseOpened(a, b, c) PROVE FALSE
      OBVIOUS
    <3>2. a.phases = Append(a.phases, a.current)
      BY <1>1, <3>1 DEF PhaseKept, PhaseOpened
    <3>3. Len(Append(a.phases, a.current)) = Len(a.phases) + 1 /\ Len(a.phases) \in Nat
      OBVIOUS
    <3> QED
      BY <3>2, <3>3
  <2> QED
    BY <2>1, <2>2
<1>2. CASE PhaseOpened(a, b, c)
  <2>1. b.phases = Append(a.phases, a.current)
    BY <1>2 DEF PhaseOpened
  <2>2. Grown(a.phases, b.phases, a.current) /\ Len(a.phases) \in Nat
    BY <2>1, GrownIs
  <2>3. b.phases = <<f>>
    <3>1. Len(b.phases) # 0
      BY <2>2 DEF Grown
    <3> QED
      BY <3>1 DEF PhaseAt
  <2>4. Len(b.phases) = 1 /\ b.phases[1] = f
    BY <2>3
  <2>5. Len(a.phases) = 0 /\ a.current = f
    BY <2>2, <2>4 DEF Grown
  <2>6. a.phases = << >>
    BY <2>5
  <2> QED
    BY <2>5, <2>6 DEF PhaseAt, Within
<1>3. CASE PhaseGrown(a, b, c)
  <2>1. b.phases = a.phases /\ b.current = Extended(a.current, c.at, c.value) /\ c.at \notin DOMAIN a.current
    BY <1>3 DEF PhaseGrown
  <2>2. DOMAIN a.current \subseteq DOMAIN b.current /\ \A x \in DOMAIN a.current : b.current[x] = a.current[x]
    BY <2>1 DEF Extended
  <2>3. PhaseAt(a, f, g)
    <3>1. \A k : Within(b.current, k) => Within(a.current, k)
      BY <2>2 DEF Within
    <3> QED
      BY <2>1, <3>1 DEF PhaseAt
  <2>4. ~PhaseOpened(a, b, c)
    BY <2>1 DEF PhaseOpened
  <2> QED
    BY <2>3, <2>4
<1> QED
  BY <1>1, <1>2, <1>3

\* At every place of a judged plan the streams so far are parts of its two.
LEMMA PhasesAt ==
  ASSUME NEW p, NEW t, NEW d, NEW h, Judged(p, t, d, h)
  PROVE  LET end == h[Len(p.script)] IN
         \A i \in 0 .. Len(p.script) : PhaseAt(h[i], end.phases[1], end.current)
<1> DEFINE n == Len(p.script)
<1> DEFINE f == h[n].phases[1]
<1> DEFINE g == h[n].current
<1> DEFINE C == Contents(p, h)
<1>1. n \in Nat /\ \A i \in 1 .. n : p.script[i] \in ReadCommand /\ h[i] = PhaseStep(h[i - 1], p.script[i])
  BY ScriptAt
<1>2. \A i \in 0 .. n : h[i] \in [phases : Seq(C), current : C]
  BY PhasesTyped
<1>3. h[n].phases = <<f>>
  BY PhaseEnd
<1> HIDE DEF C
<1> DEFINE P == {i \in 0 .. n : PhaseAt(h[i], f, g)}
<1>4. n \in P
  BY <1>1, <1>3 DEF PhaseAt, Within
<1>5. ASSUME NEW i \in 1 .. n, i \in P PROVE i - 1 \in P
  <2> DEFINE a == h[i - 1]
  <2> DEFINE b == h[i]
  <2> DEFINE c == p.script[i]
  <2>1. i - 1 \in 0 .. n /\ a \in [phases : Seq(C), current : C] /\ a.phases \in Seq(C) /\ a.current \in C
    BY <1>1, <1>2
  <2>2. PhaseAt(b, f, g)
    BY <1>5
  <2>3. b = PhaseStep(a, c) /\ c \in ReadCommand
    BY <1>1
  <2> HIDE DEF a, b, c, f, g, n
  <2>4. PhaseKept(a, b) \/ PhaseOpened(a, b, c) \/ PhaseGrown(a, b, c)
    BY <2>1, <2>3, PhaseSteps
  <2>5. PhaseAt(a, f, g)
    BY <2>1, <2>2, <2>4, PhaseBack
  <2> QED
    BY <2>1, <2>5 DEF a
<1> HIDE DEF P, f, g, n
<1>6. 0 .. n \subseteq P
  BY <1>1, <1>4, <1>5, DownTo
<1> QED
  BY <1>6 DEF P, f, g, n

\* The places of a buffer are finitely many.
LEMMA Places ==
  ASSUME NEW n \in Nat
  PROVE  IsFiniteSet(0 .. n) /\ Cardinality(0 .. n) = n + 1
<1>1. 0 \in Int /\ n \in Int /\ ~(0 > n) /\ n - 0 + 1 = n + 1
  OBVIOUS
<1>2. Cardinality(0 .. n) = IF 0 > n THEN 0 ELSE n - 0 + 1
  BY <1>1, FS_Interval
<1>3. IsFiniteSet(0 .. n)
  BY <1>1, FS_Interval
<1> QED
  BY <1>1, <1>2, <1>3

\* How many words of the streams a prefix has written.
WordsWritten(a) == (IF a.phases = << >> THEN 0 ELSE 5) + Cardinality(DOMAIN a.current)

\* A command adds one to the words written, or none.
LEMMA WordsSteps ==
  ASSUME NEW C, NEW a, a.phases \in Seq(C), a.current \in C, DOMAIN a.current \subseteq 0 .. 4,
         NEW b, NEW c, NEW f, NEW g, DOMAIN f = 0 .. 4, PhaseAt(b, f, g)
  PROVE  /\ Cardinality(DOMAIN a.current) \in 0 .. 5 /\ WordsWritten(a) \in Nat
         /\ PhaseKept(a, b) => WordsWritten(b) = WordsWritten(a)
         /\ PhaseOpened(a, b, c) \/ PhaseGrown(a, b, c) => WordsWritten(b) = WordsWritten(a) + 1
<1> DEFINE A == DOMAIN a.current
<1>1. IsFiniteSet(0 .. 4) /\ Cardinality(0 .. 4) = 5
  <2>1. IsFiniteSet(0 .. 4) /\ Cardinality(0 .. 4) = 4 + 1
    BY Places
  <2> QED
    BY <2>1
<1>2. IsFiniteSet(A) /\ Cardinality(A) \in 0 .. 5
  <2>1. IsFiniteSet(A) /\ Cardinality(A) <= Cardinality(0 .. 4)
    BY <1>1, FS_Subset
  <2>2. Cardinality(A) \in Nat
    BY <2>1, FS_CardinalityType
  <2> QED
    BY <1>1, <2>1, <2>2
<1>3. PhaseKept(a, b) => WordsWritten(b) = WordsWritten(a)
  BY DEF PhaseKept, WordsWritten
<1>4. ASSUME PhaseOpened(a, b, c) PROVE WordsWritten(b) = WordsWritten(a) + 1
  <2>1. a.phases = << >> /\ a.current = f
    BY <1>4, PhaseBack
  <2>2. b.phases = Append(a.phases, a.current) /\ DOMAIN b.current = {c.at}
    BY <1>4 DEF PhaseOpened
  <2>3. b.phases # << >>
    BY <2>2
  <2>4. Cardinality(DOMAIN b.current) = 1
    BY <2>2, FS_Singleton
  <2>5. Cardinality(A) = 5
    BY <1>1, <2>1
  <2> QED
    BY <2>1, <2>3, <2>4, <2>5 DEF WordsWritten
<1>5. ASSUME PhaseGrown(a, b, c) PROVE WordsWritten(b) = WordsWritten(a) + 1
  <2>1. b.phases = a.phases /\ DOMAIN b.current = A \cup {c.at} /\ c.at \notin A
    BY <1>5 DEF PhaseGrown, Extended
  <2>2. Cardinality(A \cup {c.at}) = Cardinality(A) + 1
    BY <1>2, <2>1, FS_AddElement
  <2>3. Cardinality(DOMAIN b.current) = Cardinality(DOMAIN a.current) + 1
    BY <2>1, <2>2
  <2> QED
    BY <1>2, <2>1, <2>3 DEF WordsWritten
<1> QED
  BY <1>2, <1>3, <1>4, <1>5 DEF WordsWritten

\* No fill is counted with a stream, and the tokens count the words.
LEMMA WordsCounted ==
  ASSUME NEW p, NEW t, NEW d, NEW h, Judged(p, t, d, h)
  PROVE  /\ \A i \in 0 .. Len(p.script) : Sum(t[i], p.order) = WordsWritten(h[i])
         /\ \A i \in 1 .. Len(p.script) : ~(StreamWrite(p.script[i]) /\ Swallows(t[i - 1]))
<1> DEFINE n == Len(p.script)
<1> DEFINE s == p.script
<1> DEFINE o == p.order
<1> DEFINE X == ExpectedSchedule(o, p.sentinel)
<1> DEFINE f == h[n].phases[1]
<1> DEFINE g == h[n].current
<1> DEFINE C == Contents(p, h)
<1>1. o \in Orders /\ p.sentinel \in Nat /\ t[n] = X /\ t[0] = << >> /\ h[0] = [phases |-> << >>, current |-> << >>]
  BY DEF Judged, TokenWalk, NoToken, PhaseWalk, PhaseStart
<1>2. Placed(X, o, p.sentinel)
  BY <1>1, SchedulePlaced
<1>3. n \in Nat /\ \A i \in 1 .. n : s[i] \in ReadCommand /\ t[i] = TokenStep(t[i - 1], s[i]) /\ h[i] = PhaseStep(h[i - 1], s[i])
  BY ScriptAt
<1>4. \A i \in 0 .. n : h[i] \in [phases : Seq(C), current : C] /\ DOMAIN h[i].current \subseteq 0 .. 4
  BY PhasesTyped
<1>5. \A i \in 0 .. n : Frozen(t[i], X) /\ PhaseAt(h[i], f, g)
  BY TokensFrozen, PhasesAt
<1>6. h[n].phases = <<f>> /\ IsStream(f, ReadbackStream(p.far)) /\ IsStream(g, CleanupStream)
  BY PhaseEnd
<1>7. DOMAIN f = 0 .. 4 /\ DOMAIN g = 0 .. 1
  <2>1. Len(ReadbackStream(p.far)) = 5 /\ Len(CleanupStream) = 2
    BY DEF ReadbackStream, CleanupStream
  <2> QED
    BY <1>6, <2>1 DEF IsStream
<1> HIDE DEF n, s, o, X, f, g, C
<1>8. \A i \in 0 .. n : Sum(t[i], o) \in Nat /\ WordsWritten(h[i]) \in Nat
  <2> TAKE i \in 0 .. n
  <2>1. Sum(t[i], o) \in Nat
    BY <1>1, <1>5, SumTyped DEF Frozen
  <2>2. h[i].phases \in Seq(C) /\ h[i].current \in C /\ DOMAIN h[i].current \subseteq 0 .. 4 /\ PhaseAt(h[i], f, g)
    BY <1>4, <1>5
  <2>3. WordsWritten(h[i]) \in Nat
    BY <1>7, <2>2, WordsSteps
  <2> QED
    BY <2>1, <2>3
<1>9. ASSUME NEW i \in 1 .. n
      PROVE  /\ ~StreamWrite(s[i]) => Sum(t[i], o) = Sum(t[i - 1], o) /\ WordsWritten(h[i]) = WordsWritten(h[i - 1])
             /\ StreamWrite(s[i]) => /\ WordsWritten(h[i]) = WordsWritten(h[i - 1]) + 1
                                     /\ Sum(t[i], o) = Sum(t[i - 1], o)
                                           + (IF Swallows(t[i - 1]) THEN t[i - 1][Len(t[i - 1])][2] + 1 ELSE 1)
  <2>1. i - 1 \in 0 .. n /\ i \in 0 .. n
    BY <1>3
  <2>2. Frozen(t[i - 1], X) /\ Frozen(TokenStep(t[i - 1], s[i]), X) /\ s[i] \in ReadCommand
    BY <1>3, <1>5, <2>1
  <2>3. Sum(t[i], o) = Sum(t[i - 1], o) + (IF ~StreamWrite(s[i]) THEN 0
              ELSE IF Swallows(t[i - 1]) THEN t[i - 1][Len(t[i - 1])][2] + 1 ELSE 1)
    BY <1>1, <1>2, <1>3, <2>2, SumSteps
  <2>4. /\ h[i - 1] \in [phases : Seq(C), current : C]
        /\ h[i - 1].phases \in Seq(C) /\ h[i - 1].current \in C /\ DOMAIN h[i - 1].current \subseteq 0 .. 4
    BY <1>4, <2>1
  <2>5. /\ ~StreamWrite(s[i]) => PhaseKept(h[i - 1], h[i])
        /\ StreamWrite(s[i]) => PhaseOpened(h[i - 1], h[i], s[i]) \/ PhaseGrown(h[i - 1], h[i], s[i])
    BY <1>3, <2>2, <2>4, PhaseSteps
  <2>6. PhaseAt(h[i], f, g)
    BY <1>5, <2>1
  <2>7. /\ ~StreamWrite(s[i]) => WordsWritten(h[i]) = WordsWritten(h[i - 1])
        /\ StreamWrite(s[i]) => WordsWritten(h[i]) = WordsWritten(h[i - 1]) + 1
    BY <1>7, <2>4, <2>5, <2>6, WordsSteps
  <2>8. Sum(t[i - 1], o) \in Nat
    BY <1>8, <2>1
  <2> QED
    BY <2>3, <2>7, <2>8
<1>10. ASSUME NEW i \in 1 .. n, Swallows(t[i - 1]) PROVE t[i - 1][Len(t[i - 1])][2] \in Nat
  <2>1. i - 1 \in 0 .. n
    BY <1>3
  <2>2. t[i - 1] \in Seq(Token)
    BY <1>5, <2>1 DEF Frozen
  <2>3. t[i - 1][Len(t[i - 1])] \in Token
    BY <1>10, <2>2 DEF Swallows
  <2> QED
    BY <1>10, <2>3, CountedToken DEF Swallows
<1> DEFINE P == {i \in 0 .. n : Sum(t[i], o) >= WordsWritten(h[i])}
<1>11. 0 .. n \subseteq P
  <2>1. 0 \in P
    <3>1. Sum(t[0], o) = 0
      BY <1>1 DEF Sum, Counted, Second
    <3>2. WordsWritten(h[0]) = 0
      <4>1. DOMAIN h[0].current = {} /\ h[0].phases = << >>
        BY <1>1
      <4> QED
        BY <4>1, FS_EmptySet DEF WordsWritten
    <3> QED
      BY <1>3, <3>1, <3>2
  <2>2. ASSUME NEW i \in 1 .. n, i - 1 \in P PROVE i \in P
    <3>1. i - 1 \in 0 .. n /\ i \in 0 .. n
      BY <1>3
    <3>2. Sum(t[i - 1], o) \in Nat /\ Sum(t[i], o) \in Nat /\ WordsWritten(h[i - 1]) \in Nat /\ WordsWritten(h[i]) \in Nat
      BY <1>8, <3>1
    <3>3. Sum(t[i - 1], o) >= WordsWritten(h[i - 1])
      BY <2>2
    <3>4. Sum(t[i], o) >= WordsWritten(h[i])
      <4>1. CASE ~StreamWrite(s[i])
        <5>1. Sum(t[i], o) = Sum(t[i - 1], o) /\ WordsWritten(h[i]) = WordsWritten(h[i - 1])
          BY <1>9, <4>1
        <5> QED
          BY <3>3, <5>1
      <4>2. CASE StreamWrite(s[i]) /\ ~Swallows(t[i - 1])
        <5>1. Sum(t[i], o) = Sum(t[i - 1], o) + 1 /\ WordsWritten(h[i]) = WordsWritten(h[i - 1]) + 1
          BY <1>9, <4>2
        <5> QED
          BY <3>2, <3>3, <5>1
      <4>3. CASE StreamWrite(s[i]) /\ Swallows(t[i - 1])
        <5>1. PICK m \in Nat : t[i - 1][Len(t[i - 1])][2] = m
          BY <1>10, <4>3
        <5>2. Sum(t[i], o) = Sum(t[i - 1], o) + (m + 1) /\ WordsWritten(h[i]) = WordsWritten(h[i - 1]) + 1
          BY <1>9, <4>3, <5>1
        <5> QED
          BY <3>2, <3>3, <5>2
      <4> QED
        BY <4>1, <4>2, <4>3
    <3> QED
      BY <3>1, <3>4
  <2> HIDE DEF P
  <2> QED
    BY <1>3, <2>1, <2>2, UpTo
<1> DEFINE Q == {i \in 0 .. n : Sum(t[i], o) <= WordsWritten(h[i])}
<1>12. 0 .. n \subseteq Q
  <2>1. n \in Q
    <3>1. Sum(t[n], o) = 7
      <4>1. /\ X[7] = StreamTok(5) /\ X[Second(o)] = StreamTok(2) /\ Len(X) = EndOf(o)
            /\ Second(o) \in 8 .. EndOf(o) - 8 /\ EndOf(o) \in Nat
        BY <1>1, <1>2, StreamPlaces
      <4>2. Counted(X, 7) = 5
        BY <4>1, TokenParts DEF Counted
      <4>3. Counted(X, Second(o)) = 2
        BY <4>1, TokenParts DEF Counted
      <4> QED
        BY <1>1, <4>2, <4>3 DEF Sum
    <3>2. WordsWritten(h[n]) = 7
      <4>1. Cardinality(DOMAIN g) = 2
        <5>1. Cardinality(0 .. 1) = 1 + 1
          BY Places
        <5> QED
          BY <1>7, <5>1
      <4>2. h[n].phases # << >>
        BY <1>6
      <4> QED
        BY <4>1, <4>2 DEF WordsWritten, g
    <3> QED
      BY <1>3, <3>1, <3>2
  <2>2. ASSUME NEW i \in 1 .. n, i \in Q PROVE i - 1 \in Q
    <3>1. i - 1 \in 0 .. n /\ i \in 0 .. n
      BY <1>3
    <3>2. Sum(t[i - 1], o) \in Nat /\ Sum(t[i], o) \in Nat /\ WordsWritten(h[i - 1]) \in Nat /\ WordsWritten(h[i]) \in Nat
      BY <1>8, <3>1
    <3>3. Sum(t[i], o) <= WordsWritten(h[i])
      BY <2>2
    <3>4. Sum(t[i - 1], o) <= WordsWritten(h[i - 1])
      <4>1. CASE ~StreamWrite(s[i])
        <5>1. Sum(t[i], o) = Sum(t[i - 1], o) /\ WordsWritten(h[i]) = WordsWritten(h[i - 1])
          BY <1>9, <4>1
        <5> QED
          BY <3>3, <5>1
      <4>2. CASE StreamWrite(s[i]) /\ ~Swallows(t[i - 1])
        <5>1. Sum(t[i], o) = Sum(t[i - 1], o) + 1 /\ WordsWritten(h[i]) = WordsWritten(h[i - 1]) + 1
          BY <1>9, <4>2
        <5> QED
          BY <3>2, <3>3, <5>1
      <4>3. CASE StreamWrite(s[i]) /\ Swallows(t[i - 1])
        <5>1. PICK m \in Nat : t[i - 1][Len(t[i - 1])][2] = m
          BY <1>10, <4>3
        <5>2. Sum(t[i], o) = Sum(t[i - 1], o) + (m + 1) /\ WordsWritten(h[i]) = WordsWritten(h[i - 1]) + 1
          BY <1>9, <4>3, <5>1
        <5> QED
          BY <3>2, <3>3, <5>2
      <4> QED
        BY <4>1, <4>2, <4>3
    <3> QED
      BY <3>1, <3>4
  <2> HIDE DEF Q
  <2> QED
    BY <1>3, <2>1, <2>2, DownTo
<1>13. \A i \in 0 .. n : Sum(t[i], o) = WordsWritten(h[i])
  <2> TAKE i \in 0 .. n
  <2>1. Sum(t[i], o) <= WordsWritten(h[i]) /\ Sum(t[i], o) >= WordsWritten(h[i])
    BY <1>11, <1>12
  <2> QED
    BY <1>8, <2>1
<1>14. ASSUME NEW i \in 1 .. n, StreamWrite(s[i]), Swallows(t[i - 1]) PROVE FALSE
  <2>1. i - 1 \in 0 .. n /\ i \in 0 .. n
    BY <1>3
  <2>2. Sum(t[i - 1], o) = WordsWritten(h[i - 1]) /\ Sum(t[i], o) = WordsWritten(h[i]) /\ WordsWritten(h[i - 1]) \in Nat
    BY <1>8, <1>13, <2>1
  <2> DEFINE a == t[i - 1]
  <2>3. a[Len(a)][2] = 0
    <3>1. PICK m \in Nat : a[Len(a)][2] = m
      BY <1>10, <1>14
    <3>2. Sum(t[i], o) = Sum(t[i - 1], o) + (m + 1) /\ WordsWritten(h[i]) = WordsWritten(h[i - 1]) + 1
      BY <1>9, <1>14, <3>1
    <3>3. PICK w \in Nat : WordsWritten(h[i - 1]) = w
      BY <2>2
    <3>4. w + 1 = w + (m + 1)
      BY <2>2, <3>2, <3>3
    <3>5. m = 0
      BY <3>4
    <3> QED
      BY <3>1, <3>5
  <2>4. i - 1 \in 1 .. n
    <3>1. i - 1 # 0
      BY <1>1, <1>14 DEF Swallows
    <3> QED
      BY <2>1, <3>1
  <2> DEFINE c == s[i - 1]
  <2> DEFINE z == t[i - 2]
  <2>5. i - 2 \in 0 .. n /\ i - 1 - 1 = i - 2
    BY <1>3, <2>4
  <2>6. a = TokenStep(z, c) /\ c \in ReadCommand /\ z \in Seq(Token)
    BY <1>3, <1>5, <2>4, <2>5 DEF Frozen
  <2>7. a[Len(a)][1] = "FILL_DST" /\ a[Len(a)][2] = 0
    BY <1>14, <2>3 DEF Swallows
  <2> HIDE DEF a, c, z
  <2>8. ZeroFill(c)
    <3>1. Len(z) \in Nat /\ StreamTok(1)[1] = "CMD_STREAM" /\ \A m : StreamTok(m)[1] = "CMD_STREAM"
      BY <2>6, TokenParts
    <3>2. ~StreamWrite(c)
      <4>1. SUFFICES ASSUME StreamWrite(c) PROVE FALSE
        OBVIOUS
      <4>2. \E m : Grown(z, a, StreamTok(m)) \/ Replaced(z, a, StreamTok(m))
        BY <2>6, <4>1, TokenGrows
      <4> QED
        BY <2>7, <3>1, <4>2 DEF Grown, Replaced
    <3>3. Grown(z, a, TokenOf(c))
      BY <2>6, <3>2, TokenGrows
    <3>4. a[Len(a)] = TokenOf(c)
      BY <3>1, <3>3 DEF Grown
    <3>5. c \in Command
      BY <2>6 DEF ReadCommand
    <3>6. c.form = "mw.l" /\ c.reg = "DST" /\ c.count = ReadWords
      BY <2>7, <3>4, <3>5, TokenOfTyped
    <3>7. TokenOf(c) = FillTok(c.value[2], c.count)
      BY <3>6 DEF TokenOf
    <3>8. c.value[2] = 0
      BY <2>7, <3>4, <3>7, TokenParts
    <3> QED
      BY <3>6, <3>8 DEF ZeroFill
  <2>9. s[i].reg = "CMD"
    BY <1>14 DEF StreamWrite
  <2>10. i - 1 \in 1 .. Len(s) - 1 /\ ZeroFill(s[i - 1]) /\ s[i - 1 + 1].reg = "CMD"
    BY <1>3, <2>1, <2>4, <2>8, <2>9 DEF c, n, s
  <2>11. ZeroFilled(s)
    BY <2>10 DEF ZeroFilled
  <2> QED
    BY <2>11 DEF Judged, s
<1> QED
  BY <1>13, <1>14 DEF n, s, o

\* Once its token is complete, the stream is whole in the buffer.
Holds(m, stream) == DOMAIN m = 0 .. Len(stream) - 1 /\ \A x \in 1 .. Len(stream) : m[x - 1] = stream[x]

\* Where the schedule has passed a stream, all of it is in the buffer.
LEMMA StreamsAt ==
  ASSUME NEW p, NEW t, NEW d, NEW h, Judged(p, t, d, h), NEW i \in 0 .. Len(p.script)
  PROVE  /\ 8 <= Len(t[i]) /\ Len(t[i]) < Second(p.order) => Holds(h[i].current, ReadbackStream(p.far))
         /\ Len(t[i]) > Second(p.order) => Holds(h[i].current, CleanupStream)
<1> DEFINE n == Len(p.script)
<1> DEFINE o == p.order
<1> DEFINE X == ExpectedSchedule(o, p.sentinel)
<1> DEFINE f == h[n].phases[1]
<1> DEFINE g == h[n].current
<1> DEFINE C == Contents(p, h)
<1> DEFINE a == t[i]
<1> DEFINE m == h[i]
<1>1. o \in Orders /\ p.sentinel \in Nat
  BY DEF Judged
<1>2. /\ X \in Seq(Token) /\ Len(X) = EndOf(o) /\ Second(o) \in 8 .. EndOf(o) - 8 /\ EndOf(o) \in Nat
      /\ X[7] = StreamTok(5) /\ X[Second(o)] = StreamTok(2)
  BY <1>1, SchedulePlaced, StreamPlaces
<1>3. m.phases \in Seq(C) /\ DOMAIN m.current \subseteq 0 .. 4 /\ (m.phases # << >> => DOMAIN m.current # {})
  BY PhasesTyped
<1>4. PhaseAt(m, f, g)
  BY PhasesAt
<1>5. IsStream(f, ReadbackStream(p.far)) /\ IsStream(g, CleanupStream)
  BY PhaseEnd
<1>6. Sum(a, o) = WordsWritten(m)
  BY WordsCounted
<1>7. Frozen(a, X)
  BY TokensFrozen
<1>8. Len(ReadbackStream(p.far)) = 5 /\ Len(CleanupStream) = 2
  BY DEF ReadbackStream, CleanupStream
<1>9. DOMAIN f = 0 .. 4 /\ DOMAIN g = 0 .. 1
  BY <1>5, <1>8 DEF IsStream
<1>10. /\ \A x \in 1 .. 5 : f[x - 1] = ReadbackStream(p.far)[x]
       /\ \A x \in 1 .. 2 : g[x - 1] = CleanupStream[x]
  <2>1. DOMAIN ReadbackStream(p.far) = 1 .. 5 /\ DOMAIN CleanupStream = 1 .. 2
    BY DEF ReadbackStream, CleanupStream
  <2> QED
    BY <1>5, <2>1 DEF IsStream
<1> DEFINE z == Cardinality(DOMAIN m.current)
<1>11. IsFiniteSet(0 .. 4) /\ Cardinality(0 .. 4) = 5 /\ IsFiniteSet(0 .. 1) /\ Cardinality(0 .. 1) = 2
  <2>1. Cardinality(0 .. 4) = 4 + 1 /\ Cardinality(0 .. 1) = 1 + 1 /\ IsFiniteSet(0 .. 4) /\ IsFiniteSet(0 .. 1)
    BY Places
  <2> QED
    BY <2>1
<1>12. /\ IsFiniteSet(DOMAIN m.current) /\ z \in Nat /\ z <= 5 /\ (z = 5 => DOMAIN m.current = 0 .. 4)
       /\ (DOMAIN m.current # {} => z > 0)
  <2>1. IsFiniteSet(DOMAIN m.current) /\ z <= Cardinality(0 .. 4) /\ (z = Cardinality(0 .. 4) => DOMAIN m.current = 0 .. 4)
    BY <1>3, <1>11, FS_Subset
  <2>2. z \in Nat /\ (z = 0 <=> DOMAIN m.current = {})
    BY <2>1, FS_CardinalityType, FS_EmptySet
  <2> QED
    BY <1>11, <2>1, <2>2
<1>13. a \in Seq(Token) /\ Len(a) \in Nat
  BY <1>7 DEF Frozen
<1> HIDE DEF n, o, X, f, g, C, a, m
<1>14. ASSUME Len(a) >= 8 PROVE Counted(a, 7) = 5
  <2>1. a[7] = X[7]
    BY <1>7, <1>13, <1>14 DEF Frozen
  <2> QED
    BY <1>2, <1>13, <1>14, <2>1, TokenParts DEF Counted
<1>15. ASSUME Len(a) < Second(o) PROVE Counted(a, Second(o)) = 0
  BY <1>2, <1>13, <1>15 DEF Counted
<1>16. ASSUME Len(a) > Second(o) PROVE Counted(a, Second(o)) = 2
  <2>0. Second(o) \in 1 .. Len(a) /\ Second(o) # Len(a)
    BY <1>2, <1>13, <1>16
  <2>1. a[Second(o)] = X[Second(o)]
    BY <1>7, <2>0 DEF Frozen
  <2> QED
    BY <1>2, <1>13, <1>16, <2>1, TokenParts DEF Counted
<1>17. WordsWritten(m) = (IF m.phases = << >> THEN 0 ELSE 5) + z
  BY DEF WordsWritten
<1> HIDE DEF z
<1>18. ASSUME 8 <= Len(a), Len(a) < Second(o) PROVE Holds(m.current, ReadbackStream(p.far))
  <2>1. WordsWritten(m) = 5
    BY <1>6, <1>14, <1>15, <1>18 DEF Sum
  <2>2. m.phases = << >>
    BY <1>3, <1>12, <1>17, <2>1
  <2>3. z = 5
    BY <1>12, <1>17, <2>1, <2>2
  <2>4. Within(m.current, f) \/ m.phases = <<f>>
    BY <1>4 DEF PhaseAt
  <2>5. Within(m.current, f)
    BY <2>2, <2>4
  <2>6. DOMAIN m.current = 0 .. 4
    BY <1>12, <2>3
  <2> QED
    BY <1>8, <1>10, <2>5, <2>6 DEF Holds, Within
<1>19. ASSUME Len(a) > Second(o) PROVE Holds(m.current, CleanupStream)
  <2>1. WordsWritten(m) = 7
    <3>1. Len(a) >= 8
      BY <1>2, <1>13, <1>19
    <3> QED
      BY <1>6, <1>14, <1>16, <1>19, <3>1 DEF Sum
  <2>2. m.phases # << >>
    BY <1>12, <1>17, <2>1
  <2>3. z = 2
    BY <1>12, <1>17, <2>1, <2>2
  <2>4. Within(m.current, g)
    BY <1>4, <2>2 DEF PhaseAt
  <2>5. DOMAIN m.current = 0 .. 1
    <3>1. DOMAIN m.current \in SUBSET (0 .. 1)
      BY <1>9, <2>4 DEF Within
    <3>2. Cardinality(DOMAIN m.current) = Cardinality(0 .. 1)
      BY <1>11, <2>3 DEF z
    <3> QED
      BY <1>11, <3>1, <3>2, FS_Subset
  <2> QED
    BY <1>8, <1>10, <2>4, <2>5 DEF Holds, Within
<1> QED
  BY <1>18, <1>19 DEF a, m, o

-----------------------------------------------------------------------------
(* An accepted read plan: where each command stands in the schedule.        *)

\* What a command that writes no stream may be at a place of the schedule.
IsRead(c, r) == c.form = "md.l" /\ c.reg = r
IsWrite(c, r) == c.form = "mw.l" /\ c.reg = r
PlainAt(c, o, v, k) ==
    \/ k = 1 /\ c.form = "dcache-off"
    \/ k = 2 /\ IsRead(c, "CTRL")
    \/ k = 3 /\ IsRead(c, "MCTRL")
    \/ k \in {4, EndOf(o)} /\ IsRead(c, "INT_STS")
    \/ k = 5 /\ IsWrite(c, "DST") /\ c.value[2] = v /\ c.count = ReadWords
    \/ k \in {6, ReadoutPlace(o)} /\ IsRead(c, "DST")
    \/ k \in Starts(o) /\ IsWrite(c, "INT_STS")
    \/ \E b \in Starts(o) : k \in {b + 1, b + 6} /\ IsRead(c, "INT_STS")
    \/ \E b \in Starts(o), j \in 1 .. 4 : k = b + 1 + j /\ IsWrite(c, DmaOrder[j])

\* The token of a command tells its form and its register.
LEMMA PlainToken ==
  ASSUME NEW c \in Command, NEW r, NEW n
  PROVE  /\ TokenOf(c) = CacheTok => c.form = "dcache-off"
         /\ TokenOf(c) = ReadTok(r, n) => IsRead(c, r)
         /\ TokenOf(c) = WriteTok(r) => IsWrite(c, r)
         /\ TokenOf(c) = FillTok(r, n) => IsWrite(c, "DST") /\ c.value[2] = r /\ c.count = n
         /\ TokenOf(c) # StreamTok(n)
<1>0. c.form \in Forms
  BY CommandTyped
<1>1. CASE c.form = "dcache-off"
  <2>1. TokenOf(c) = CacheTok
    BY <1>1 DEF TokenOf
  <2>2. CacheTok[1] = "CACHE" /\ ReadTok(r, n)[1] = "md.l" /\ WriteTok(r)[1] = "mw.l" /\ FillTok(r, n)[1] = "FILL_DST"
        /\ StreamTok(n)[1] = "CMD_STREAM"
    BY TokenParts DEF ReadTok, WriteTok
  <2> QED
    BY <1>1, <2>1, <2>2
<1>2. CASE c.form = "mw.l" /\ c.reg = "DST" /\ c.count = ReadWords
  <2>1. TokenOf(c) = FillTok(c.value[2], c.count)
    BY <1>2 DEF TokenOf
  <2>2. CacheTok[1] = "CACHE" /\ ReadTok(r, n)[1] = "md.l" /\ WriteTok(r)[1] = "mw.l" /\ FillTok(c.value[2], c.count)[1] = "FILL_DST"
        /\ StreamTok(n)[1] = "CMD_STREAM"
    BY TokenParts DEF ReadTok, WriteTok
  <2>3. /\ FillTok(r, n)[2] = r /\ FillTok(r, n)[3] = n
        /\ FillTok(c.value[2], c.count)[2] = c.value[2] /\ FillTok(c.value[2], c.count)[3] = c.count
    BY TokenParts
  <2> QED
    BY <1>2, <2>1, <2>2, <2>3 DEF IsWrite
<1>3. CASE c.form # "dcache-off" /\ ~(c.form = "mw.l" /\ c.reg = "DST" /\ c.count = ReadWords)
  <2>1. TokenOf(c) = Tok(c.form, c.reg, c.count)
    BY <1>3 DEF TokenOf
  <2>2. CacheTok[1] = "CACHE" /\ FillTok(r, n)[1] = "FILL_DST" /\ StreamTok(n)[1] = "CMD_STREAM"
    BY TokenParts
  <2>3. /\ ReadTok(r, n)[1] = "md.l" /\ WriteTok(r)[1] = "mw.l" /\ ReadTok(r, n)[2] = r /\ WriteTok(r)[2] = r
    BY TokenParts DEF ReadTok, WriteTok
  <2>4. TokenOf(c)[1] = c.form /\ TokenOf(c)[2] = c.reg
    BY <2>1, TokenParts
  <2>5. c.form # "CACHE" /\ c.form # "FILL_DST" /\ c.form # "CMD_STREAM"
    BY <1>0 DEF Forms
  <2> QED
    BY <2>2, <2>3, <2>4, <2>5 DEF IsRead, IsWrite
<1> QED
  BY <1>1, <1>2, <1>3

\* A command whose token stands at a place of the schedule is the command of it.
LEMMA PlainPlaced ==
  ASSUME NEW c \in Command, NEW X, NEW o, NEW v, NEW k, PlacedAt(X, o, v, k), TokenOf(c) = X[k]
  PROVE  PlainAt(c, o, v, k)
<1>1. CASE k = 1 /\ X[k] = CacheTok
  BY <1>1, PlainToken DEF PlainAt
<1>2. CASE k = 2 /\ X[k] = ReadTok("CTRL", 1)
  BY <1>2, PlainToken DEF PlainAt
<1>3. CASE k = 3 /\ X[k] = ReadTok("MCTRL", 1)
  BY <1>3, PlainToken DEF PlainAt
<1>4. CASE k \in {4, EndOf(o)} /\ X[k] = ReadTok("INT_STS", 1)
  BY <1>4, PlainToken DEF PlainAt
<1>5. CASE k = 5 /\ X[k] = FillTok(v, ReadWords)
  BY <1>5, PlainToken DEF PlainAt
<1>6. CASE k \in {6, ReadoutPlace(o)} /\ X[k] = ReadTok("DST", ReadWords)
  <2>1. IsRead(c, "DST")
    BY <1>6, PlainToken
  <2> QED
    BY <1>6, <2>1 DEF PlainAt
<1>7. CASE X[k] = StreamTok(5) \/ X[k] = StreamTok(2)
  <2>1. TokenOf(c) # StreamTok(5) /\ TokenOf(c) # StreamTok(2)
    BY PlainToken
  <2> QED
    BY <1>7, <2>1
<1>8. CASE k \in Starts(o) /\ X[k] = WriteTok("INT_STS")
  BY <1>8, PlainToken DEF PlainAt
<1>9. CASE \E b \in Starts(o) : k \in {b + 1, b + 6} /\ X[k] = ReadTok("INT_STS", 1)
  BY <1>9, PlainToken DEF PlainAt
<1>10. CASE \E b \in Starts(o), j \in 1 .. 4 : k = b + 1 + j /\ X[k] = WriteTok(DmaOrder[j])
  <2>1. PICK b \in Starts(o), j \in 1 .. 4 : k = b + 1 + j /\ X[k] = WriteTok(DmaOrder[j])
    BY <1>10
  <2>2. IsWrite(c, DmaOrder[j])
    BY <2>1, PlainToken
  <2> QED
    BY <2>1, <2>2 DEF PlainAt
<1> QED
  BY <1>1, <1>2, <1>3, <1>4, <1>5, <1>6, <1>7, <1>8, <1>9, <1>10 DEF PlacedAt

\* Where a command of an accepted script stands in the schedule.
StandsAt(c, a, o, v, k) ==
    /\ k \in 1 .. EndOf(o)
    /\ \/ StreamWrite(c) /\ k \in {7, Second(o)} /\ a \in {k - 1, k}
       \/ ~StreamWrite(c) /\ a = k - 1 /\ PlainAt(c, o, v, k)

\* Every command of a judged plan stands at its place of the schedule.
LEMMA CommandStands ==
  ASSUME NEW p, NEW t, NEW d, NEW h, Judged(p, t, d, h), NEW i \in 1 .. Len(p.script)
  PROVE  /\ Len(t[i - 1]) \in Nat /\ Len(t[i]) \in Nat
         /\ StandsAt(p.script[i], Len(t[i - 1]), p.order, p.sentinel, Len(t[i]))
<1> DEFINE s == p.script
<1> DEFINE n == Len(s)
<1> DEFINE o == p.order
<1> DEFINE v == p.sentinel
<1> DEFINE X == ExpectedSchedule(o, v)
<1> DEFINE c == s[i]
<1> DEFINE a == t[i - 1]
<1> DEFINE b == t[i]
<1> DEFINE k == Len(b)
<1>1. o \in Orders /\ v \in Nat /\ t[n] = X
  BY DEF Judged
<1>2. /\ X \in Seq(Token) /\ Len(X) = EndOf(o) /\ EndOf(o) \in Nat
      /\ \A j \in 1 .. Len(X) : X[j][1] = "CMD_STREAM" => j \in {7, Second(o)}
  BY <1>1, SchedulePlaced, StreamPlaces
<1>3. \A j \in 1 .. Len(X) : PlacedAt(X, o, v, j)
  BY <1>1, <1>2, SchedulePlaced DEF Placed
<1>4. n \in Nat /\ \A j \in 1 .. n : s[j] \in ReadCommand /\ t[j] = TokenStep(t[j - 1], s[j])
  BY ScriptAt
<1>5. i - 1 \in 0 .. n /\ i \in 0 .. n
  BY <1>4
<1>6. \A j \in 0 .. n : Frozen(t[j], X)
  BY TokensFrozen
<1>7. \A j \in 1 .. n : ~(StreamWrite(s[j]) /\ Swallows(t[j - 1]))
  BY WordsCounted
<1>8. a \in Seq(Token) /\ b \in Seq(Token) /\ c \in ReadCommand /\ c \in Command /\ b = TokenStep(a, c)
  BY <1>4, <1>5, <1>6 DEF Frozen, ReadCommand
<1>9. Frozen(a, X) /\ Frozen(b, X) /\ ~(StreamWrite(c) /\ Swallows(a))
  BY <1>5, <1>6, <1>7
<1>c. Len(a) \in Nat /\ Len(X) \in Nat
  BY <1>2, <1>8
<1>10. CASE ~StreamWrite(c)
  <2> HIDE DEF s, n, o, v, X, c, a, b
  <2>1. Len(b) = Len(a) + 1 /\ b[Len(a) + 1] = TokenOf(c)
    BY <1>8, <1>10, TokenGrows DEF Grown
  <2>2. k \in 1 .. Len(X) /\ b[k] = TokenOf(c)
    BY <1>9, <1>c, <2>1 DEF Frozen
  <2>3. TokenOf(c)[1] # "CMD_STREAM"
    BY <1>8, TokenOfTyped
  <2>4. ASSUME TokenOf(c) # X[k] PROVE FALSE
    <3>1. b[k][1] = "FILL_DST" /\ X[k][1] = "CMD_STREAM"
      BY <1>9, <2>2, <2>3, <2>4 DEF Frozen
    <3>2. i # n
      BY <1>1, <2>2, <2>4 DEF b
    <3>3. i + 1 \in 1 .. n /\ i + 1 - 1 = i
      BY <1>4, <1>5, <3>2
    <3> DEFINE e == s[i + 1]
    <3> DEFINE z == t[i + 1]
    <3>4. z = TokenStep(b, e) /\ e \in ReadCommand /\ Frozen(z, X)
      BY <1>4, <1>6, <3>3 DEF b
    <3>5. Swallows(b)
      <4>1. b # << >>
        BY <1>c, <2>1
      <4> QED
        BY <3>1, <4>1 DEF Swallows
    <3>6. ~StreamWrite(e)
      BY <1>7, <3>3, <3>5 DEF b
    <3> HIDE DEF e, z
    <3>7. Grown(b, z, TokenOf(e))
      BY <1>8, <3>4, <3>6, TokenGrows
    <3>9. k \in Nat /\ k \in 1 .. k
      BY <1>8, <2>2
    <3>10. Len(z) = k + 1 /\ z[k] = b[k]
      BY <3>7, <3>9 DEF Grown
    <3>8. z[k] = X[k]
      <4>1. k \in 1 .. Len(z) /\ k # Len(z)
        BY <3>9, <3>10
      <4> QED
        BY <3>4, <4>1 DEF Frozen
    <3> QED
      BY <2>2, <2>4, <3>10, <3>8
  <2>5. PlacedAt(X, o, v, k) /\ TokenOf(c) = X[k]
    BY <1>3, <2>2, <2>4
  <2>6. PlainAt(c, o, v, k)
    BY <1>8, <2>5, PlainPlaced
  <2>7. k \in 1 .. EndOf(o) /\ Len(a) = k - 1
    BY <1>2, <1>c, <2>1, <2>2
  <2> QED
    BY <1>10, <1>c, <2>1, <2>6, <2>7 DEF StandsAt, s, o, v, c, a, b
<1>11. CASE StreamWrite(c)
  <2> HIDE DEF s, n, o, v, X, c, a, b
  <2>1. (Len(a) = k - 1 \/ Len(a) = k) /\ k > 0 /\ \E m : b[k] = StreamTok(m)
    <3>1. CASE Merges(a)
      <4>1. Replaced(a, b, StreamTok(a[Len(a)][2] + 1))
        BY <1>8, <1>11, <3>1, TokenGrows
      <4>2. Len(b) = Len(a) /\ b[Len(a)] = StreamTok(a[Len(a)][2] + 1) /\ Len(a) > 0
        BY <4>1 DEF Replaced
      <4> QED
        BY <1>c, <4>2
    <3>2. CASE ~Merges(a)
      <4>1. Len(b) = Len(a) + 1 /\ b[Len(a) + 1] = StreamTok(1)
        BY <1>8, <1>11, <3>2, TokenGrows DEF Grown
      <4>2. Len(b) > 0 /\ Len(a) = Len(b) - 1
        BY <1>c, <4>1
      <4> QED
        BY <4>1, <4>2
    <3> QED
      BY <3>1, <3>2
  <2>2. k \in 1 .. Len(X) /\ X[k][1] = "CMD_STREAM"
    <3>1. k \in Nat
      BY <1>8
    <3>2. k \in 1 .. Len(X)
      BY <1>9, <1>c, <2>1, <3>1 DEF Frozen
    <3>3. b[k][1] = "CMD_STREAM"
      BY <2>1, TokenParts
    <3> QED
      BY <1>9, <3>2, <3>3 DEF Frozen
  <2>3. k \in {7, Second(o)} /\ k \in 1 .. EndOf(o) /\ k \in Nat
    <3>1. k \in {7, Second(o)}
      BY <1>2, <2>2
    <3>2. k \in 1 .. EndOf(o) /\ k \in Nat
      BY <1>2, <2>2
    <3> QED
      BY <3>1, <3>2
  <2> QED
    BY <1>11, <1>c, <2>1, <2>3 DEF StandsAt, s, o, v, c, a, b
<1> QED
  BY <1>10, <1>11

\* a is the beginning of b.
Begins(a, b) == Len(a) <= Len(b) /\ \A j \in 1 .. Len(a) : a[j] = b[j]

DmaState == [pending : Seq(Word), txs : Seq(Seq(Word)), ordered : BOOLEAN]
IsDma(c) == c.form = "mw.l" /\ c.reg \in DmaRegs

\* What a command does to the transfers that are being collected.
DmaRefused(a, b) == ~b.ordered
DmaPended(a, b, c) ==
    /\ c.reg = DmaOrder[Len(a.pending) + 1] /\ Len(a.pending) < 3
    /\ b.pending = Append(a.pending, c.value) /\ b.txs = a.txs /\ b.ordered = a.ordered
DmaFired(a, b, c) ==
    /\ c.reg = DmaOrder[Len(a.pending) + 1] /\ Len(a.pending) >= 3
    /\ b.pending = << >> /\ b.txs = Append(a.txs, Append(a.pending, c.value)) /\ b.ordered = a.ordered

\* What one command does to the DMA transactions: nothing, refused, one more register
\* or a transaction.
LEMMA DmaStepIs ==
  ASSUME NEW a \in DmaState, NEW c \in Command
  PROVE  /\ DmaStep(a, c) \in DmaState
         /\ ~IsDma(c) => DmaStep(a, c) = a
         /\ IsDma(c) => DmaRefused(a, DmaStep(a, c)) \/ DmaPended(a, DmaStep(a, c), c) \/ DmaFired(a, DmaStep(a, c), c)
<1> DEFINE b == DmaStep(a, c)
<1>0. c.value \in Word /\ a.pending \in Seq(Word) /\ a.txs \in Seq(Seq(Word)) /\ a.ordered \in BOOLEAN
  BY CommandTyped DEF DmaState
<1>1. CASE ~IsDma(c)
  BY <1>1 DEF DmaStep, IsDma
<1>2. CASE IsDma(c) /\ c.reg # DmaOrder[Len(a.pending) + 1]
  <2>1. b = [a EXCEPT !.ordered = FALSE]
    BY <1>2 DEF DmaStep, IsDma
  <2>2. b \in DmaState /\ ~b.ordered
    BY <2>1 DEF DmaState
  <2> QED
    BY <1>2, <2>2 DEF DmaRefused
<1>3. CASE IsDma(c) /\ c.reg = DmaOrder[Len(a.pending) + 1] /\ Len(a.pending) < 3
  <2> DEFINE q == Append(a.pending, c.value)
  <2>1. b = [a EXCEPT !.pending = q]
    BY <1>3 DEF DmaStep, IsDma
  <2>2. q \in Seq(Word)
    BY <1>0
  <2> HIDE DEF q
  <2>3. b \in DmaState /\ b.pending = q /\ b.txs = a.txs /\ b.ordered = a.ordered
    BY <2>1, <2>2 DEF DmaState
  <2> QED
    BY <1>3, <2>3 DEF DmaPended, q
<1>4. CASE IsDma(c) /\ c.reg = DmaOrder[Len(a.pending) + 1] /\ ~(Len(a.pending) < 3)
  <2> DEFINE q == Append(a.txs, Append(a.pending, c.value))
  <2>1. b = [a EXCEPT !.pending = << >>, !.txs = q]
    BY <1>4 DEF DmaStep, IsDma
  <2>2. q \in Seq(Seq(Word)) /\ << >> \in Seq(Word)
    BY <1>0
  <2> HIDE DEF q
  <2> DEFINE z == [a EXCEPT !.pending = << >>]
  <2>3. z \in DmaState /\ z.pending = << >> /\ z.txs = a.txs /\ z.ordered = a.ordered
    BY <2>2 DEF DmaState
  <2>4. b = [z EXCEPT !.txs = q]
    BY <2>1
  <2> HIDE DEF z
  <2>5. b \in DmaState /\ b.pending = << >> /\ b.txs = q /\ b.ordered = a.ordered
    BY <2>2, <2>3, <2>4 DEF DmaState
  <2>6. Len(a.pending) >= 3
    BY <1>0, <1>4
  <2> QED
    BY <1>4, <2>5, <2>6 DEF DmaFired, q
<1> QED
  BY <1>1, <1>2, <1>3, <1>4

\* The transactions of an order.
Wanted(o) == [x \in DOMAIN ExpectedTransactions(o) |-> Transaction[ExpectedTransactions(o)[x]]]

\* The transactions an order wants.
LEMMA WantedIs ==
  /\ LET T == Wanted("two-unidirectional") IN
     Len(T) = 3 /\ T[1] = Transaction.command /\ T[2] = Transaction.readback /\ T[3] = Transaction.cleanup
  /\ LET T == Wanted("one-bidirectional") IN
     Len(T) = 2 /\ T[1] = Transaction.bidirectional /\ T[2] = Transaction.cleanup
<1>1. /\ ExpectedTransactions("two-unidirectional") = <<"command", "readback", "cleanup">>
      /\ ExpectedTransactions("one-bidirectional") = <<"bidirectional", "cleanup">>
  BY DEF ExpectedTransactions
<1>2. /\ DOMAIN ExpectedTransactions("two-unidirectional") = 1 .. 3
      /\ DOMAIN ExpectedTransactions("one-bidirectional") = 1 .. 2
  BY <1>1
<1>3. /\ Wanted("two-unidirectional") = [x \in 1 .. 3 |-> Transaction[ExpectedTransactions("two-unidirectional")[x]]]
      /\ Wanted("one-bidirectional") = [x \in 1 .. 2 |-> Transaction[ExpectedTransactions("one-bidirectional")[x]]]
  BY <1>2 DEF Wanted
<1>4. Len(Wanted("two-unidirectional")) = 3 /\ Len(Wanted("one-bidirectional")) = 2
  BY <1>3
<1>5. /\ Wanted("two-unidirectional")[1] = Transaction["command"]
      /\ Wanted("two-unidirectional")[2] = Transaction["readback"]
      /\ Wanted("two-unidirectional")[3] = Transaction["cleanup"]
      /\ Wanted("one-bidirectional")[1] = Transaction["bidirectional"]
      /\ Wanted("one-bidirectional")[2] = Transaction["cleanup"]
  BY <1>1, <1>3
<1> QED
  BY <1>4, <1>5

\* The transfers of every prefix.
LEMMA TransfersAt ==
  ASSUME NEW p, NEW t, NEW d, NEW h, Judged(p, t, d, h)
  PROVE  \A i \in 0 .. Len(p.script) :
           d[i] \in DmaState /\ d[i].ordered /\ Begins(d[i].txs, Wanted(p.order))
<1> DEFINE s == p.script
<1> DEFINE n == Len(s)
<1> DEFINE T == Wanted(p.order)
<1>1. n \in Nat /\ \A i \in 1 .. n : s[i] \in Command /\ d[i] = DmaStep(d[i - 1], s[i])
  BY ScriptAt DEF ReadCommand
<1>2. d[0] = DmaStart /\ d[n].ordered /\ d[n].txs = T /\ p.order \in Orders
  BY DEF Judged, DmaWalk, Wanted
<1>3. Len(T) \in Nat
  BY <1>2, WantedIs DEF Orders
<1> HIDE DEF s, n, T
<1> DEFINE P == {i \in 0 .. n : d[i] \in DmaState}
<1>4. 0 .. n \subseteq P
  <2>1. 0 \in P
    <3>1. << >> \in Seq(Word) /\ << >> \in Seq(Seq(Word)) /\ TRUE \in BOOLEAN
      OBVIOUS
    <3>2. DmaStart \in DmaState
      BY <3>1 DEF DmaStart, DmaState
    <3> QED
      BY <1>1, <1>2, <3>2
  <2>2. ASSUME NEW i \in 1 .. n, i - 1 \in P PROVE i \in P
    BY <1>1, <2>2, DmaStepIs
  <2> HIDE DEF P
  <2> QED
    BY <1>1, <2>1, <2>2, UpTo
<1> DEFINE Q == {i \in 0 .. n : d[i].ordered /\ Begins(d[i].txs, T)}
<1>5. 0 .. n \subseteq Q
  <2>1. n \in Q
    BY <1>1, <1>2, <1>3 DEF Begins
  <2>2. ASSUME NEW i \in 1 .. n, i \in Q PROVE i - 1 \in Q
    <3> DEFINE a == d[i - 1]
    <3> DEFINE b == d[i]
    <3> DEFINE c == s[i]
    <3>1. i - 1 \in 0 .. n /\ a \in DmaState /\ c \in Command /\ b = DmaStep(a, c)
      BY <1>1, <1>4
    <3>2. b.ordered /\ Begins(b.txs, T)
      BY <2>2
    <3>3. a.txs \in Seq(Seq(Word)) /\ a.pending \in Seq(Word) /\ c.value \in Word
      BY <3>1, CommandTyped DEF DmaState
    <3> HIDE DEF a, b, c
    <3>4. a = b \/ DmaPended(a, b, c) \/ DmaFired(a, b, c)
      BY <3>1, <3>2, DmaStepIs DEF DmaRefused
    <3>5. CASE a = b
      BY <3>1, <3>2, <3>5 DEF a
    <3>6. CASE DmaPended(a, b, c)
      BY <3>1, <3>2, <3>6 DEF DmaPended, a
    <3>7. CASE DmaFired(a, b, c)
      <4> DEFINE x == Append(a.pending, c.value)
      <4>1. x \in Seq(Word)
        BY <3>3
      <4>2. b.txs = Append(a.txs, x) /\ a.ordered
        BY <3>2, <3>7 DEF DmaFired
      <4> HIDE DEF x
      <4>3. Grown(a.txs, b.txs, x)
        BY <3>3, <4>1, <4>2, GrownIs
      <4>4. PICK m \in Nat : Len(a.txs) = m
        BY <3>3
      <4>5. Len(b.txs) = m + 1 /\ \A j \in 1 .. m : b.txs[j] = a.txs[j]
        BY <4>3, <4>4 DEF Grown
      <4>6. Begins(a.txs, T)
        BY <1>3, <3>2, <4>4, <4>5 DEF Begins
      <4> QED
        BY <3>1, <4>2, <4>6 DEF a
    <3> QED
      BY <3>4, <3>5, <3>6, <3>7
  <2> HIDE DEF Q
  <2> QED
    BY <1>1, <2>1, <2>2, DownTo
<1> QED
  BY <1>4, <1>5 DEF s, n, T

\* What the j-th register write of a transfer does to the transfers collected.
Advances(j, a, b, c, T) ==
    /\ Len(a.pending) = j - 1
    /\ j < 4 => b.pending = Append(a.pending, c.value) /\ b.txs = a.txs
    /\ j = 4 => /\ b.pending = << >> /\ Grown(a.txs, b.txs, Append(a.pending, c.value))
                /\ Len(b.txs) <= Len(T) /\ Append(a.pending, c.value) = T[Len(b.txs)]

\* A register write of an accepted script: the next in the order, and the
\* fourth ends a transfer.
LEMMA TransferStep ==
  ASSUME NEW p, NEW t, NEW d, NEW h, Judged(p, t, d, h), NEW i \in 1 .. Len(p.script)
  PROVE  LET a == d[i - 1]
             b == d[i]
             c == p.script[i]
         IN  /\ ~IsDma(c) => b = a
             /\ \A j \in 1 .. 4 : IsWrite(c, DmaOrder[j]) => Advances(j, a, b, c, Wanted(p.order))
<1> DEFINE a == d[i - 1]
<1> DEFINE b == d[i]
<1> DEFINE c == p.script[i]
<1> DEFINE T == Wanted(p.order)
<1>1. c \in Command /\ b = DmaStep(a, c) /\ Len(p.script) \in Nat
  BY ScriptAt DEF ReadCommand
<1>2. i \in 0 .. Len(p.script) /\ i - 1 \in 0 .. Len(p.script)
  BY <1>1
<1>3. a \in DmaState /\ b \in DmaState /\ b.ordered /\ Begins(b.txs, T)
  BY <1>2, TransfersAt
<1>4. a.txs \in Seq(Seq(Word)) /\ a.pending \in Seq(Word) /\ c.value \in Word
  BY <1>1, <1>3, CommandTyped DEF DmaState
<1>5. \A j \in 1 .. 4 : DmaOrder[j] \in DmaRegs
  <2>1. \A j \in 1 .. 4 : j \in DOMAIN DmaOrder
    BY DEF DmaOrder
  <2> QED
    BY <2>1 DEF DmaRegs, ToSet
<1> HIDE DEF a, b, c, T
<1>6. ASSUME ~IsDma(c) PROVE b = a
  BY <1>1, <1>3, <1>6, DmaStepIs
<1>7. ASSUME NEW j \in 1 .. 4, IsWrite(c, DmaOrder[j])
      PROVE  Advances(j, a, b, c, T)
  <2>1. IsDma(c) /\ c.reg = DmaOrder[j]
    BY <1>5, <1>7 DEF IsDma, IsWrite
  <2>2. DmaPended(a, b, c) \/ DmaFired(a, b, c)
    BY <1>1, <1>3, <2>1, DmaStepIs DEF DmaRefused
  <2>3. DmaOrder[j] = DmaOrder[Len(a.pending) + 1]
    BY <2>1, <2>2 DEF DmaPended, DmaFired
  <2>4. PICK m \in Nat : Len(a.pending) = m
    BY <1>4
  <2>5. m <= 3
    <3>1. CASE m < 3
      BY <3>1
    <3>2. CASE ~(m < 3)
      <4>1. DmaFired(a, b, c)
        BY <2>2, <2>4, <3>2 DEF DmaPended
      <4> DEFINE x == Append(a.pending, c.value)
      <4>2. Grown(a.txs, b.txs, x) /\ x \in Seq(Word) /\ Len(x) = m + 1
        <5>1. x \in Seq(Word) /\ Len(x) = m + 1
          BY <1>4, <2>4
        <5>2. b.txs = Append(a.txs, x)
          BY <4>1 DEF DmaFired
        <5> HIDE DEF x
        <5> QED
          BY <1>4, <5>1, <5>2, GrownIs
      <4> HIDE DEF x
      <4>3. PICK w \in Nat : Len(a.txs) = w
        BY <1>4
      <4>4. Len(b.txs) = w + 1 /\ b.txs[w + 1] = x
        BY <4>2, <4>3 DEF Grown
      <4>5. w + 1 <= Len(T) /\ x = T[w + 1]
        BY <1>3, <4>3, <4>4 DEF Begins
      <4>6. \A y \in 1 .. Len(T) : Len(T[y]) = 4
        <5>1. p.order \in Orders
          BY DEF Judged
        <5>2. /\ Len(Transaction.command) = 4 /\ Len(Transaction.readback) = 4
              /\ Len(Transaction.cleanup) = 4 /\ Len(Transaction.bidirectional) = 4
          BY DEF Transaction
        <5> QED
          BY <5>1, <5>2, WantedIs DEF Orders, T
      <4>7. w + 1 \in 1 .. Len(T)
        <5>1. Len(T) \in Nat
          BY WantedIs DEF Orders, T, Judged
        <5> QED
          BY <4>3, <4>5, <5>1
      <4>8. Len(x) = 4
        BY <4>5, <4>6, <4>7
      <4>9. m + 1 = 4
        BY <4>2, <4>8
      <4> QED
        BY <4>9
    <3> QED
      BY <3>1, <3>2
  <2>6. m + 1 = j
    <3>1. DmaOrder[j] = DmaOrder[m + 1] /\ m + 1 \in 1 .. 4
      BY <2>3, <2>4, <2>5
    <3>2. \A x, y \in 1 .. 4 : DmaOrder[x] = DmaOrder[y] => x = y
      BY DEF DmaOrder
    <3> QED
      BY <3>1, <3>2
  <2>7. Len(a.pending) = j - 1
    BY <2>4, <2>6
  <2>8. ASSUME j < 4 PROVE b.pending = Append(a.pending, c.value) /\ b.txs = a.txs
    <3>1. DmaPended(a, b, c)
      BY <2>2, <2>4, <2>6, <2>8 DEF DmaFired
    <3> QED
      BY <3>1 DEF DmaPended
  <2>9. ASSUME j = 4
        PROVE  /\ b.pending = << >> /\ Grown(a.txs, b.txs, Append(a.pending, c.value))
               /\ Len(b.txs) <= Len(T)
               /\ Append(a.pending, c.value) = T[Len(b.txs)]
    <3>1. DmaFired(a, b, c)
      BY <2>2, <2>4, <2>6, <2>9 DEF DmaPended
    <3> DEFINE x == Append(a.pending, c.value)
    <3>2. b.txs = Append(a.txs, x) /\ b.pending = << >> /\ x \in Seq(Word)
      BY <1>4, <3>1 DEF DmaFired
    <3> HIDE DEF x
    <3>3. Grown(a.txs, b.txs, x)
      BY <1>4, <3>2, GrownIs
    <3>4. PICK w \in Nat : Len(a.txs) = w
      BY <1>4
    <3>5. Len(b.txs) = w + 1 /\ b.txs[w + 1] = x
      BY <3>3, <3>4 DEF Grown
    <3>6. Len(b.txs) <= Len(T) /\ x = T[Len(b.txs)]
      BY <1>3, <3>4, <3>5 DEF Begins
    <3> QED
      BY <3>2, <3>3, <3>6 DEF x
  <2> QED
    BY <2>7, <2>8, <2>9 DEF Advances
<1> QED
  BY <1>6, <1>7 DEF a, b, c, T

-----------------------------------------------------------------------------
(* The engine of an accepted read plan, command by command.                 *)

\* The four registers of a transfer.
LEMMA DmaRegsAre ==
  DmaRegs = {"DMA_SRC_ADDR", "DMA_DEST_ADDR", "DMA_SRC_LEN", "DMA_DEST_LEN"}
<1>1. DOMAIN DmaOrder = 1 .. 4
  BY DEF DmaOrder
<1>2. DmaRegs = {DmaOrder[x] : x \in 1 .. 4}
  BY <1>1 DEF DmaRegs, ToSet
<1> QED
  BY <1>2 DEF DmaOrder

\* What a command does to the engine: what stays, and what becomes of the rest.
Fields == {"buf", "dst", "regs", "running", "done", "cleared", "seen", "history", "readout", "faults"}
Keeps(e, f, F) == DOMAIN f = Fields /\ \A x \in Fields \ F : f[x] = e[x]

\* The fields of the engine that a command does not touch stay.
LEMMA KeepsIs ==
  ASSUME NEW e, NEW f, NEW F, Keeps(e, f, F)
  PROVE  /\ "buf" \in F \/ f.buf = e.buf
         /\ "dst" \in F \/ f.dst = e.dst
         /\ "regs" \in F \/ f.regs = e.regs
         /\ "running" \in F \/ f.running = e.running
         /\ "done" \in F \/ f.done = e.done
         /\ "cleared" \in F \/ f.cleared = e.cleared
         /\ "seen" \in F \/ f.seen = e.seen
         /\ "history" \in F \/ f.history = e.history
         /\ "readout" \in F \/ f.readout = e.readout
         /\ "faults" \in F \/ f.faults = e.faults
BY DEF Keeps, Fields

\* The engine on switching the cache off.
LEMMA ExecCacheOff ==
  ASSUME NEW e, DOMAIN e = Fields, NEW c, c.form = "dcache-off"
  PROVE  Keeps(e, Exec(e, c), {"seen"}) /\ Exec(e, c).seen = e.seen \cup {"CACHE"}
<1>1. Exec(e, c) = [e EXCEPT !.seen = @ \cup {"CACHE"}]
  BY DEF Exec
<1> QED
  BY <1>1 DEF Keeps, Fields

\* The engine on reading a gate register.
LEMMA ExecGate ==
  ASSUME NEW e, DOMAIN e = Fields, NEW c, NEW r \in {"CTRL", "MCTRL"}, IsRead(c, r)
  PROVE  Keeps(e, Exec(e, c), {"seen"}) /\ Exec(e, c).seen = e.seen \cup {r}
<1>1. Exec(e, c) = [e EXCEPT !.seen = @ \cup {c.reg}]
  BY DmaRegsAre DEF Exec, IsRead, StreamBuffers
<1> QED
  BY <1>1 DEF Keeps, Fields, IsRead

\* The engine on reading the status while no transfer runs.
LEMMA ExecStatus ==
  ASSUME NEW e, DOMAIN e = Fields, NEW c, IsRead(c, "INT_STS"), e.running = Idle
  PROVE  /\ Keeps(e, Exec(e, c), {"cleared", "seen"})
         /\ Exec(e, c).cleared = ~e.done /\ Exec(e, c).seen = e.seen \cup {"PCFG_DONE"}
<1>1. Exec(e, c) = [e EXCEPT !.cleared = ~e.done, !.seen = @ \cup {"PCFG_DONE"}]
  BY DmaRegsAre DEF Exec, IsRead, StreamBuffers
<1> QED
  BY <1>1 DEF Keeps, Fields

\* The engine on the read that waits for a running transfer.
LEMMA ExecWait ==
  ASSUME NEW e, DOMAIN e = Fields, NEW c, IsRead(c, "INT_STS"), e.running # Idle
  PROVE  /\ Keeps(e, Exec(e, c), {"running", "done", "dst"})
         /\ Exec(e, c).running = Idle
         /\ Exec(e, c).dst = IF e.running[2] = DstBuf THEN <<"frame", 0>> ELSE e.dst
<1>1. Exec(e, c) = [e EXCEPT !.running = Idle, !.done = TRUE,
                             !.dst = IF e.running[2] = DstBuf THEN <<"frame", 0>> ELSE @]
  BY DmaRegsAre DEF Exec, IsRead, Completed, StreamBuffers
<1> QED
  BY <1>1 DEF Keeps, Fields

\* The engine on clearing the status while no transfer runs.
LEMMA ExecClear ==
  ASSUME NEW e, DOMAIN e = Fields, NEW c, IsWrite(c, "INT_STS"), e.running = Idle
  PROVE  Keeps(e, Exec(e, c), {"done"}) /\ Exec(e, c).done = FALSE
<1>1. Exec(e, c) = [e EXCEPT !.done = FALSE]
  BY DmaRegsAre DEF Exec, IsWrite, StreamBuffers
<1> QED
  BY <1>1 DEF Keeps, Fields

\* The engine on filling the whole destination.
LEMMA ExecFill ==
  ASSUME NEW e, DOMAIN e = Fields, NEW c, IsWrite(c, "DST"), c.count = ReadWords, e.running = Idle
  PROVE  /\ Keeps(e, Exec(e, c), {"seen", "dst"})
         /\ Exec(e, c).seen = e.seen \ {"prefill"} /\ Exec(e, c).dst = <<"fill", c.value[2] % WordLimit>>
<1>1. ~(c.count > ReadWords)
  BY PlanAssumption
<1>2. Exec(e, c) = [e EXCEPT !.seen = @ \ {"prefill"}, !.dst = <<"fill", c.value[2] % WordLimit>>]
  BY <1>1, DmaRegsAre DEF Exec, IsWrite, StreamBuffers
<1> QED
  BY <1>2 DEF Keeps, Fields

\* The engine on reading back a filled destination: the prefill is verified.
LEMMA ExecPrefill ==
  ASSUME NEW e, DOMAIN e = Fields, NEW c, IsRead(c, "DST"), e.dst[1] = "fill", e.dst[2] # 0
  PROVE  Keeps(e, Exec(e, c), {"seen"}) /\ Exec(e, c).seen = e.seen \cup {"prefill"}
<1>1. Exec(e, c) = [e EXCEPT !.seen = @ \cup {"prefill"}]
  BY DmaRegsAre DEF Exec, IsRead, StreamBuffers
<1> QED
  BY <1>1 DEF Keeps, Fields

\* The engine on reading a destination that is no longer a fill: a readout.
LEMMA ExecReadout ==
  ASSUME NEW e, DOMAIN e = Fields, NEW c, IsRead(c, "DST"), e.dst[1] # "fill"
  PROVE  Keeps(e, Exec(e, c), {"readout"}) /\ Exec(e, c).readout = Append(e.readout, e.dst)
<1>1. Exec(e, c) = [e EXCEPT !.readout = Append(@, e.dst)]
  BY DmaRegsAre DEF Exec, IsRead, StreamBuffers
<1> QED
  BY <1>1 DEF Keeps, Fields

\* The engine on one word written to a stream buffer.
LEMMA ExecWord ==
  ASSUME NEW e, DOMAIN e = Fields, NEW c \in Command, NEW r \in StreamBuffers, IsWrite(c, r), c.count = 1, e.running = Idle,
         DOMAIN e.buf = StreamBuffers
  PROVE  /\ Keeps(e, Exec(e, c), {"buf"})
         /\ DOMAIN Exec(e, c).buf = StreamBuffers
         /\ Exec(e, c).buf[r] = [x \in DOMAIN e.buf[r] |-> IF x = c.at THEN c.value ELSE e.buf[r][x]]
<1> DEFINE m == [x \in DOMAIN e.buf[r] |-> IF x = c.at THEN c.value ELSE e.buf[r][x]]
<1>1. {c.at + k - 1 : k \in 1 .. c.count} = {c.at}
  BY CommandTyped
<1>2. Exec(e, c) = [e EXCEPT !.buf[r] = [x \in DOMAIN @ |-> IF x \in {c.at + k - 1 : k \in 1 .. c.count} THEN c.value ELSE @[x]]]
  BY DmaRegsAre DEF Exec, IsWrite, StreamBuffers
<1>3. m = [x \in DOMAIN e.buf[r] |-> IF x \in {c.at} THEN c.value ELSE e.buf[r][x]]
  OBVIOUS
<1>4. Exec(e, c) = [e EXCEPT !.buf = [e.buf EXCEPT ![r] = m]]
  BY <1>1, <1>2, <1>3 DEF Fields
<1> DEFINE g == [e.buf EXCEPT ![r] = m]
<1>5. DOMAIN g = StreamBuffers /\ g[r] = m
  <2> HIDE DEF m
  <2> QED
    OBVIOUS
<1> HIDE DEF g, m
<1>6. Keeps(e, Exec(e, c), {"buf"}) /\ Exec(e, c).buf = g
  BY <1>4 DEF Keeps, Fields, g
<1> QED
  BY <1>5, <1>6 DEF m

\* The engine on a register of a transfer: the fourth fires it.
LEMMA ExecRegister ==
  ASSUME NEW e, DOMAIN e = Fields, NEW c, NEW j \in 1 .. 4, IsWrite(c, DmaOrder[j]),
         Len(Append(e.regs, c.value)) = j
  PROVE  LET next == [e EXCEPT !.regs = Append(e.regs, c.value)] IN
         /\ Keeps(e, next, {"regs"}) /\ next.regs = Append(e.regs, c.value)
         /\ j < 4 => Exec(e, c) = next
         /\ j = 4 => Exec(e, c) = Fire(next)
<1> DEFINE next == [e EXCEPT !.regs = Append(e.regs, c.value)]
<1>1. /\ DmaOrder[1] = "DMA_SRC_ADDR" /\ DmaOrder[2] = "DMA_DEST_ADDR"
      /\ DmaOrder[3] = "DMA_SRC_LEN" /\ DmaOrder[4] = "DMA_DEST_LEN"
  BY DEF DmaOrder
<1>2. c.form = "mw.l" /\ c.reg = DmaOrder[j]
  BY DEF IsWrite
<1>4. Keeps(e, next, {"regs"}) /\ next.regs = Append(e.regs, c.value)
  BY DEF Keeps, Fields
<1>5. c.reg \in DmaRegs /\ c.reg \notin StreamBuffers /\ c.reg # "DST" /\ c.reg # "INT_STS"
  BY <1>1, <1>2, DmaRegsAre DEF StreamBuffers
<1>6. Exec(e, c) = IF c.reg = "DMA_DEST_LEN" /\ Len(next.regs) = 4 THEN Fire(next)
                   ELSE IF c.reg = "DMA_DEST_LEN" THEN Fault(next, "partial command") ELSE next
  <2> HIDE DEF next
  <2>1. next = [e EXCEPT !.regs = Append(@, c.value)]
    BY DEF next
  <2> QED
    BY <1>2, <1>5, <2>1 DEF Exec
<1>7. ASSUME j < 4 PROVE Exec(e, c) = next
  <2>1. c.reg # "DMA_DEST_LEN"
    BY <1>1, <1>2, <1>7
  <2> QED
    BY <1>6, <2>1
<1>8. ASSUME j = 4 PROVE Exec(e, c) = Fire(next)
  <2>1. c.reg = "DMA_DEST_LEN" /\ Len(next.regs) = 4
    BY <1>1, <1>2, <1>4, <1>8
  <2> QED
    BY <1>6, <2>1
<1> QED
  BY <1>4, <1>7, <1>8

\* A transfer that nothing is wrong with.
LEMMA FireIs ==
  ASSUME NEW e, DOMAIN e = Fields, e.running = Idle, e.cleared,
         e.regs[2] = DstBuf => "prefill" \in e.seen
  PROVE  /\ Keeps(e, Fire(e), {"running", "regs", "cleared", "history"})
         /\ Fire(e).running = e.regs /\ Fire(e).regs = << >>
         /\ Fire(e).history = Append(e.history, <<e.regs, Fetched(e, e.regs)>>)
<1> DEFINE hist == Append(e.history, <<e.regs, Fetched(e, e.regs)>>)
<1> DEFINE ok == [e EXCEPT !.running = e.regs, !.regs = << >>, !.cleared = FALSE, !.history = hist]
<1>1. Fire(e) = ok
  BY DEF Fire, Idle
<1> HIDE DEF hist
<1>2. Keeps(e, ok, {"running", "regs", "cleared", "history"}) /\ ok.running = e.regs /\ ok.regs = << >> /\ ok.history = hist
  BY DEF Keeps, Fields
<1> QED
  BY <1>1, <1>2 DEF hist

\* What a transfer fetches: a stream that is whole in its buffer, or nothing.
Stored(e, r, stream) == \A x \in 1 .. Len(stream) : e.buf[r][x - 1] = stream[x]

\* A transfer fetches the stream that its buffer holds.
LEMMA FetchedIs ==
  ASSUME NEW e, NEW tx, NEW stream \in Seq(Word), Len(stream) \in Nat,
         tx[1][1] \in StreamBuffers, tx[3][2] = Len(stream), Len(stream) <= RegionSize(tx[1][1]),
         Stored(e, tx[1][1], stream)
  PROVE  Fetched(e, tx) = stream
<1> DEFINE r == tx[1][1]
<1>1. RegionSize(r) \in Nat
  BY DEF StreamBuffers, RegionSize, StreamWords, WriteWords
<1> DEFINE n == Len(stream)
<1>2. Fetched(e, tx) = [x \in 1 .. n |-> IF x <= RegionSize(r) THEN e.buf[r][x - 1] ELSE Noop]
  BY DEF Fetched
<1>3. stream = [x \in 1 .. n |-> stream[x]]
  OBVIOUS
<1>4. \A x \in 1 .. n : (IF x <= RegionSize(r) THEN e.buf[r][x - 1] ELSE Noop) = stream[x]
  BY <1>1 DEF Stored
<1> HIDE DEF n, r
<1>5. [x \in 1 .. n |-> IF x <= RegionSize(r) THEN e.buf[r][x - 1] ELSE Noop] = [x \in 1 .. n |-> stream[x]]
  BY <1>4
<1> QED
  BY <1>2, <1>3, <1>5

\* A transfer from the port fetches no stream.
LEMMA FetchesNothing ==
  ASSUME NEW e, NEW tx, tx[1][1] \notin StreamBuffers
  PROVE  Fetched(e, tx) = << >>
BY DEF Fetched

\* Where the schedule is at its k-th token: how many transfers have been fired,
\* whether one is running, whether the completion has been cleared, from when
\* on the destination holds the frame.
Fired(o, k) == IF o = "two-unidirectional"
               THEN IF k >= 29 THEN 3 ELSE IF k >= 20 THEN 2 ELSE IF k >= 13 THEN 1 ELSE 0
               ELSE IF k >= 22 THEN 2 ELSE IF k >= 13 THEN 1 ELSE 0
InFlight(o, k) == k \in (IF o = "two-unidirectional" THEN {13, 20, 29} ELSE {13, 22})
Clear(o, k) == k \in (IF o = "two-unidirectional" THEN (9 .. 12) \cup (16 .. 19) \cup (25 .. 28)
                                                  ELSE (9 .. 12) \cup (18 .. 21))
FrameAt(o) == IF o = "two-unidirectional" THEN 21 ELSE 14

\* The transfers of an order with what each fetches.
Taken(n, far) == IF n = "readback" THEN <<>> ELSE IF n = "cleanup" THEN CleanupStream ELSE ReadbackStream(far)
Story(o, far) == [x \in DOMAIN ExpectedTransactions(o) |->
                    LET n == ExpectedTransactions(o)[x] IN <<Transaction[n], Taken(n, far)>>]
Stories(o, far) == {Story(o, far)[x] : x \in 1 .. Len(Story(o, far))}

\* The engine and the walks of the guards, after the k-th token.
Buffered(e, hh) ==
    /\ DOMAIN e = Fields /\ e.faults = {}
    /\ DOMAIN e.buf = StreamBuffers /\ DOMAIN e.buf["CMD"] = 0 .. 4
    /\ DOMAIN hh.current \subseteq 0 .. 4
    /\ \A x \in DOMAIN hh.current : e.buf["CMD"][x] = hh.current[x]
Pending(e, o, k, dd) == e.regs = dd.pending /\ Len(dd.txs) = Fired(o, k)
Flight(e, o, k) == e.running = IF InFlight(o, k) THEN Wanted(o)[Fired(o, k)] ELSE Idle
Flags(e, o, k) == (k \in Starts(o) => ~e.done) /\ (Clear(o, k) => e.cleared)
Told(e, o, far, k) ==
    /\ e.history \in Seq(Stories(o, far)) /\ Len(e.history) = Fired(o, k)
    /\ \A x \in 1 .. Len(e.history) : e.history[x] = Story(o, far)[x]
Target(e, o, v, k) ==
    /\ 5 <= k /\ k < FrameAt(o) => e.dst = <<"fill", v>>
    /\ k >= FrameAt(o) => e.dst = <<"frame", 0>>
GatesSeen(e, k) ==
    /\ k >= 1 => "CACHE" \in e.seen
    /\ k >= 2 => "CTRL" \in e.seen
    /\ k >= 3 => "MCTRL" \in e.seen
    /\ k >= 4 => "PCFG_DONE" \in e.seen
    /\ k >= 6 => "prefill" \in e.seen
Shown(e, o, k) == e.readout = IF k < ReadoutPlace(o) THEN << >> ELSE << <<"frame", 0>> >>
EngineAt(e, o, far, v, k, dd, hh) ==
    /\ Buffered(e, hh) /\ Pending(e, o, k, dd) /\ Flight(e, o, k) /\ Flags(e, o, k)
    /\ Told(e, o, far, k) /\ Target(e, o, v, k) /\ GatesSeen(e, k) /\ Shown(e, o, k)

\* Place 1 of the schedule keeps the engine in step: the cache.
LEMMA CacheOffAt ==
  ASSUME NEW o \in Orders, NEW far, NEW v \in Nat, v > 0, v < WordLimit, NEW k \in 1 .. EndOf(o), NEW c \in Command, NEW e, NEW dd, NEW hh,
         EngineAt(e, o, far, v, k - 1, dd, hh),
         k = 1, c.form = "dcache-off"
  PROVE  EngineAt(Exec(e, c), o, far, v, k, dd, hh)
<1> DEFINE f == Exec(e, c)
<1>c. k \in Nat /\ k \in 1 .. 31 /\ FrameAt(o) \in {14, 21}
  BY DEF Orders, EndOf, FrameAt
<1>1. /\ Fired(o, k) = Fired(o, k - 1) /\ ~InFlight(o, k - 1) /\ ~InFlight(o, k)
      /\ k \notin Starts(o)
      /\ ~Clear(o, k)
      /\ k < 5 /\ FrameAt(o) > 5
      /\ (k < ReadoutPlace(o) <=> k - 1 < ReadoutPlace(o))
  BY <1>c DEF Orders, Starts, EndOf, ReadoutPlace, Second, Fired, InFlight, Clear, FrameAt
<1>2. /\ Buffered(e, hh) /\ Pending(e, o, k - 1, dd) /\ Flight(e, o, k - 1) /\ Flags(e, o, k - 1)
      /\ Told(e, o, far, k - 1) /\ Target(e, o, v, k - 1) /\ GatesSeen(e, k - 1) /\ Shown(e, o, k - 1)
  BY DEF EngineAt
<1>3. DOMAIN e = Fields
  BY <1>2 DEF Buffered
<1>4. Keeps(e, f, {"seen"}) /\ f.seen = e.seen \cup {"CACHE"}
  BY <1>3, ExecCacheOff
<1> HIDE DEF f
<1>5. DOMAIN f = Fields
  BY <1>4 DEF Keeps
<1>6. f.buf = e.buf /\ f.dst = e.dst /\ f.regs = e.regs /\ f.running = e.running /\ f.done = e.done /\ f.cleared = e.cleared /\ f.history = e.history /\ f.readout = e.readout /\ f.faults = e.faults
  BY <1>4, KeepsIs
<1>7. Buffered(f, hh)
  BY <1>c, <1>1, <1>2, <1>5, <1>6 DEF Buffered
<1>8. Pending(f, o, k, dd)
  BY <1>c, <1>1, <1>2, <1>5, <1>6 DEF Pending
<1>9. Flight(f, o, k)
  BY <1>c, <1>1, <1>2, <1>4, <1>5, <1>6 DEF Flight
<1>10. Flags(f, o, k)
  BY <1>c, <1>1, <1>2, <1>4, <1>5, <1>6 DEF Flags
<1>11. Told(f, o, far, k)
  BY <1>c, <1>1, <1>2, <1>5, <1>6 DEF Told
<1>12. Target(f, o, v, k)
  BY <1>c, <1>1, <1>2, <1>4, <1>5, <1>6 DEF Target
<1>13. GatesSeen(f, k)
  BY <1>c, <1>1, <1>2, <1>4, <1>5, <1>6 DEF GatesSeen
<1>14. Shown(f, o, k)
  BY <1>c, <1>1, <1>2, <1>4, <1>5, <1>6 DEF Shown
<1> QED
  BY <1>7, <1>8, <1>9, <1>10, <1>11, <1>12, <1>13, <1>14 DEF EngineAt, f

\* Place 2 of the schedule keeps the engine in step: the control register.
LEMMA GateCtrlAt ==
  ASSUME NEW o \in Orders, NEW far, NEW v \in Nat, v > 0, v < WordLimit, NEW k \in 1 .. EndOf(o), NEW c \in Command, NEW e, NEW dd, NEW hh,
         EngineAt(e, o, far, v, k - 1, dd, hh),
         k = 2, IsRead(c, "CTRL")
  PROVE  EngineAt(Exec(e, c), o, far, v, k, dd, hh)
<1> DEFINE f == Exec(e, c)
<1>c. k \in Nat /\ k \in 1 .. 31 /\ FrameAt(o) \in {14, 21}
  BY DEF Orders, EndOf, FrameAt
<1>1. /\ Fired(o, k) = Fired(o, k - 1) /\ ~InFlight(o, k - 1) /\ ~InFlight(o, k)
      /\ k \notin Starts(o)
      /\ ~Clear(o, k)
      /\ k < 5 /\ FrameAt(o) > 5
      /\ (k < ReadoutPlace(o) <=> k - 1 < ReadoutPlace(o))
  BY <1>c DEF Orders, Starts, EndOf, ReadoutPlace, Second, Fired, InFlight, Clear, FrameAt
<1>2. /\ Buffered(e, hh) /\ Pending(e, o, k - 1, dd) /\ Flight(e, o, k - 1) /\ Flags(e, o, k - 1)
      /\ Told(e, o, far, k - 1) /\ Target(e, o, v, k - 1) /\ GatesSeen(e, k - 1) /\ Shown(e, o, k - 1)
  BY DEF EngineAt
<1>3. DOMAIN e = Fields
  BY <1>2 DEF Buffered
<1>4. Keeps(e, f, {"seen"}) /\ f.seen = e.seen \cup {"CTRL"}
  BY <1>3, ExecGate
<1> HIDE DEF f
<1>5. DOMAIN f = Fields
  BY <1>4 DEF Keeps
<1>6. f.buf = e.buf /\ f.dst = e.dst /\ f.regs = e.regs /\ f.running = e.running /\ f.done = e.done /\ f.cleared = e.cleared /\ f.history = e.history /\ f.readout = e.readout /\ f.faults = e.faults
  BY <1>4, KeepsIs
<1>7. Buffered(f, hh)
  BY <1>c, <1>1, <1>2, <1>5, <1>6 DEF Buffered
<1>8. Pending(f, o, k, dd)
  BY <1>c, <1>1, <1>2, <1>5, <1>6 DEF Pending
<1>9. Flight(f, o, k)
  BY <1>c, <1>1, <1>2, <1>4, <1>5, <1>6 DEF Flight
<1>10. Flags(f, o, k)
  BY <1>c, <1>1, <1>2, <1>4, <1>5, <1>6 DEF Flags
<1>11. Told(f, o, far, k)
  BY <1>c, <1>1, <1>2, <1>5, <1>6 DEF Told
<1>12. Target(f, o, v, k)
  BY <1>c, <1>1, <1>2, <1>4, <1>5, <1>6 DEF Target
<1>13. GatesSeen(f, k)
  BY <1>c, <1>1, <1>2, <1>4, <1>5, <1>6 DEF GatesSeen
<1>14. Shown(f, o, k)
  BY <1>c, <1>1, <1>2, <1>4, <1>5, <1>6 DEF Shown
<1> QED
  BY <1>7, <1>8, <1>9, <1>10, <1>11, <1>12, <1>13, <1>14 DEF EngineAt, f

\* Place 3 of the schedule keeps the engine in step: the PCAP control register.
LEMMA GateMctrlAt ==
  ASSUME NEW o \in Orders, NEW far, NEW v \in Nat, v > 0, v < WordLimit, NEW k \in 1 .. EndOf(o), NEW c \in Command, NEW e, NEW dd, NEW hh,
         EngineAt(e, o, far, v, k - 1, dd, hh),
         k = 3, IsRead(c, "MCTRL")
  PROVE  EngineAt(Exec(e, c), o, far, v, k, dd, hh)
<1> DEFINE f == Exec(e, c)
<1>c. k \in Nat /\ k \in 1 .. 31 /\ FrameAt(o) \in {14, 21}
  BY DEF Orders, EndOf, FrameAt
<1>1. /\ Fired(o, k) = Fired(o, k - 1) /\ ~InFlight(o, k - 1) /\ ~InFlight(o, k)
      /\ k \notin Starts(o)
      /\ ~Clear(o, k)
      /\ k < 5 /\ FrameAt(o) > 5
      /\ (k < ReadoutPlace(o) <=> k - 1 < ReadoutPlace(o))
  BY <1>c DEF Orders, Starts, EndOf, ReadoutPlace, Second, Fired, InFlight, Clear, FrameAt
<1>2. /\ Buffered(e, hh) /\ Pending(e, o, k - 1, dd) /\ Flight(e, o, k - 1) /\ Flags(e, o, k - 1)
      /\ Told(e, o, far, k - 1) /\ Target(e, o, v, k - 1) /\ GatesSeen(e, k - 1) /\ Shown(e, o, k - 1)
  BY DEF EngineAt
<1>3. DOMAIN e = Fields
  BY <1>2 DEF Buffered
<1>4. Keeps(e, f, {"seen"}) /\ f.seen = e.seen \cup {"MCTRL"}
  BY <1>3, ExecGate
<1> HIDE DEF f
<1>5. DOMAIN f = Fields
  BY <1>4 DEF Keeps
<1>6. f.buf = e.buf /\ f.dst = e.dst /\ f.regs = e.regs /\ f.running = e.running /\ f.done = e.done /\ f.cleared = e.cleared /\ f.history = e.history /\ f.readout = e.readout /\ f.faults = e.faults
  BY <1>4, KeepsIs
<1>7. Buffered(f, hh)
  BY <1>c, <1>1, <1>2, <1>5, <1>6 DEF Buffered
<1>8. Pending(f, o, k, dd)
  BY <1>c, <1>1, <1>2, <1>5, <1>6 DEF Pending
<1>9. Flight(f, o, k)
  BY <1>c, <1>1, <1>2, <1>4, <1>5, <1>6 DEF Flight
<1>10. Flags(f, o, k)
  BY <1>c, <1>1, <1>2, <1>4, <1>5, <1>6 DEF Flags
<1>11. Told(f, o, far, k)
  BY <1>c, <1>1, <1>2, <1>5, <1>6 DEF Told
<1>12. Target(f, o, v, k)
  BY <1>c, <1>1, <1>2, <1>4, <1>5, <1>6 DEF Target
<1>13. GatesSeen(f, k)
  BY <1>c, <1>1, <1>2, <1>4, <1>5, <1>6 DEF GatesSeen
<1>14. Shown(f, o, k)
  BY <1>c, <1>1, <1>2, <1>4, <1>5, <1>6 DEF Shown
<1> QED
  BY <1>7, <1>8, <1>9, <1>10, <1>11, <1>12, <1>13, <1>14 DEF EngineAt, f

\* A status read between transfers keeps the engine in step with the schedule.
LEMMA StatusAt ==
  ASSUME NEW o \in Orders, NEW far, NEW v \in Nat, v > 0, v < WordLimit, NEW k \in 1 .. EndOf(o), NEW c \in Command, NEW e, NEW dd, NEW hh,
         EngineAt(e, o, far, v, k - 1, dd, hh),
         k \in {4, EndOf(o)} \/ (\E b \in Starts(o) : k = b + 1), IsRead(c, "INT_STS")
  PROVE  EngineAt(Exec(e, c), o, far, v, k, dd, hh)
<1> DEFINE f == Exec(e, c)
<1>c. k \in Nat /\ k \in 1 .. 31 /\ FrameAt(o) \in {14, 21}
  BY DEF Orders, EndOf, FrameAt
<1>1. /\ Fired(o, k) = Fired(o, k - 1) /\ ~InFlight(o, k - 1) /\ ~InFlight(o, k)
      /\ k \notin Starts(o)
      /\ (Clear(o, k) => k - 1 \in Starts(o))
      /\ (k = 4 \/ k > 7) /\ FrameAt(o) > 7
      /\ (k > 7 => (k < FrameAt(o) <=> k - 1 < FrameAt(o)))
      /\ (k < ReadoutPlace(o) <=> k - 1 < ReadoutPlace(o))
  BY <1>c DEF Orders, Starts, EndOf, ReadoutPlace, Second, Fired, InFlight, Clear, FrameAt
<1>2. /\ Buffered(e, hh) /\ Pending(e, o, k - 1, dd) /\ Flight(e, o, k - 1) /\ Flags(e, o, k - 1)
      /\ Told(e, o, far, k - 1) /\ Target(e, o, v, k - 1) /\ GatesSeen(e, k - 1) /\ Shown(e, o, k - 1)
  BY DEF EngineAt
<1>3. DOMAIN e = Fields
  BY <1>2 DEF Buffered
<1>p. e.running = Idle
  BY <1>1, <1>2 DEF Flight
<1>4. Keeps(e, f, {"cleared", "seen"}) /\ f.cleared = ~e.done /\ f.seen = e.seen \cup {"PCFG_DONE"}
  BY <1>3, <1>p, ExecStatus
<1> HIDE DEF f
<1>5. DOMAIN f = Fields
  BY <1>4 DEF Keeps
<1>6. f.buf = e.buf /\ f.dst = e.dst /\ f.regs = e.regs /\ f.running = e.running /\ f.done = e.done /\ f.history = e.history /\ f.readout = e.readout /\ f.faults = e.faults
  BY <1>4, KeepsIs
<1>7. Buffered(f, hh)
  BY <1>c, <1>1, <1>2, <1>5, <1>6 DEF Buffered
<1>8. Pending(f, o, k, dd)
  BY <1>c, <1>1, <1>2, <1>5, <1>6 DEF Pending
<1>9. Flight(f, o, k)
  BY <1>c, <1>1, <1>2, <1>4, <1>5, <1>6, <1>p DEF Flight
<1>10. Flags(f, o, k)
  BY <1>c, <1>1, <1>2, <1>4, <1>5, <1>6, <1>p DEF Flags
<1>11. Told(f, o, far, k)
  BY <1>c, <1>1, <1>2, <1>5, <1>6 DEF Told
<1>12. Target(f, o, v, k)
  BY <1>c, <1>1, <1>2, <1>4, <1>5, <1>6, <1>p DEF Target
<1>13. GatesSeen(f, k)
  BY <1>c, <1>1, <1>2, <1>4, <1>5, <1>6, <1>p DEF GatesSeen
<1>14. Shown(f, o, k)
  BY <1>c, <1>1, <1>2, <1>4, <1>5, <1>6, <1>p DEF Shown
<1> QED
  BY <1>7, <1>8, <1>9, <1>10, <1>11, <1>12, <1>13, <1>14 DEF EngineAt, f

\* Place 5 of the schedule keeps the engine in step: the prefill.
LEMMA FilledAt ==
  ASSUME NEW o \in Orders, NEW far, NEW v \in Nat, v > 0, v < WordLimit, NEW k \in 1 .. EndOf(o), NEW c \in Command, NEW e, NEW dd, NEW hh,
         EngineAt(e, o, far, v, k - 1, dd, hh),
         k = 5, IsWrite(c, "DST"), c.value[2] = v, c.count = ReadWords
  PROVE  EngineAt(Exec(e, c), o, far, v, k, dd, hh)
<1> DEFINE f == Exec(e, c)
<1>c. k \in Nat /\ k \in 1 .. 31 /\ FrameAt(o) \in {14, 21}
  BY DEF Orders, EndOf, FrameAt
<1>1. /\ Fired(o, k) = Fired(o, k - 1) /\ ~InFlight(o, k - 1) /\ ~InFlight(o, k)
      /\ k \notin Starts(o)
      /\ ~Clear(o, k)
      /\ FrameAt(o) > 5
      /\ (k < ReadoutPlace(o) <=> k - 1 < ReadoutPlace(o))
  BY <1>c DEF Orders, Starts, EndOf, ReadoutPlace, Second, Fired, InFlight, Clear, FrameAt
<1>2. /\ Buffered(e, hh) /\ Pending(e, o, k - 1, dd) /\ Flight(e, o, k - 1) /\ Flags(e, o, k - 1)
      /\ Told(e, o, far, k - 1) /\ Target(e, o, v, k - 1) /\ GatesSeen(e, k - 1) /\ Shown(e, o, k - 1)
  BY DEF EngineAt
<1>3. DOMAIN e = Fields
  BY <1>2 DEF Buffered
<1>p. e.running = Idle
  BY <1>1, <1>2 DEF Flight
<1>4. Keeps(e, f, {"seen", "dst"}) /\ f.seen = e.seen \ {"prefill"} /\ f.dst = <<"fill", v % WordLimit>>
  BY <1>3, <1>p, ExecFill
<1> HIDE DEF f
<1>5. DOMAIN f = Fields
  BY <1>4 DEF Keeps
<1>6. f.buf = e.buf /\ f.regs = e.regs /\ f.running = e.running /\ f.done = e.done /\ f.cleared = e.cleared /\ f.history = e.history /\ f.readout = e.readout /\ f.faults = e.faults
  BY <1>4, KeepsIs
<1>7. Buffered(f, hh)
  BY <1>c, <1>1, <1>2, <1>5, <1>6 DEF Buffered
<1>8. Pending(f, o, k, dd)
  BY <1>c, <1>1, <1>2, <1>5, <1>6 DEF Pending
<1>9. Flight(f, o, k)
  BY <1>c, <1>1, <1>2, <1>4, <1>5, <1>6, <1>p DEF Flight
<1>10. Flags(f, o, k)
  BY <1>c, <1>1, <1>2, <1>4, <1>5, <1>6, <1>p DEF Flags
<1>11. Told(f, o, far, k)
  BY <1>c, <1>1, <1>2, <1>5, <1>6 DEF Told
<1>12. Target(f, o, v, k)
  <2>1. v % WordLimit = v
    BY PlanAssumption
  <2> QED
    BY <1>c, <1>1, <1>4, <2>1 DEF Target
<1>13. GatesSeen(f, k)
  BY <1>c, <1>1, <1>2, <1>4, <1>5, <1>6, <1>p DEF GatesSeen
<1>14. Shown(f, o, k)
  BY <1>c, <1>1, <1>2, <1>4, <1>5, <1>6, <1>p DEF Shown
<1> QED
  BY <1>7, <1>8, <1>9, <1>10, <1>11, <1>12, <1>13, <1>14 DEF EngineAt, f

\* Place 6 of the schedule keeps the engine in step: the prefill read back.
LEMMA PrefilledAt ==
  ASSUME NEW o \in Orders, NEW far, NEW v \in Nat, v > 0, v < WordLimit, NEW k \in 1 .. EndOf(o), NEW c \in Command, NEW e, NEW dd, NEW hh,
         EngineAt(e, o, far, v, k - 1, dd, hh),
         k = 6, IsRead(c, "DST")
  PROVE  EngineAt(Exec(e, c), o, far, v, k, dd, hh)
<1> DEFINE f == Exec(e, c)
<1>c. k \in Nat /\ k \in 1 .. 31 /\ FrameAt(o) \in {14, 21}
  BY DEF Orders, EndOf, FrameAt
<1>1. /\ Fired(o, k) = Fired(o, k - 1) /\ ~InFlight(o, k - 1) /\ ~InFlight(o, k)
      /\ k \notin Starts(o)
      /\ ~Clear(o, k)
      /\ FrameAt(o) > 6
      /\ (k < ReadoutPlace(o) <=> k - 1 < ReadoutPlace(o))
  BY <1>c DEF Orders, Starts, EndOf, ReadoutPlace, Second, Fired, InFlight, Clear, FrameAt
<1>2. /\ Buffered(e, hh) /\ Pending(e, o, k - 1, dd) /\ Flight(e, o, k - 1) /\ Flags(e, o, k - 1)
      /\ Told(e, o, far, k - 1) /\ Target(e, o, v, k - 1) /\ GatesSeen(e, k - 1) /\ Shown(e, o, k - 1)
  BY DEF EngineAt
<1>3. DOMAIN e = Fields
  BY <1>2 DEF Buffered
<1>p. e.dst[1] = "fill" /\ e.dst[2] # 0 /\ e.dst = <<"fill", v>>
  <2>1. e.dst = <<"fill", v>>
    BY <1>c, <1>1, <1>2 DEF Target
  <2> QED
    BY <2>1
<1>4. Keeps(e, f, {"seen"}) /\ f.seen = e.seen \cup {"prefill"}
  BY <1>3, <1>p, ExecPrefill
<1> HIDE DEF f
<1>5. DOMAIN f = Fields
  BY <1>4 DEF Keeps
<1>6. f.buf = e.buf /\ f.dst = e.dst /\ f.regs = e.regs /\ f.running = e.running /\ f.done = e.done /\ f.cleared = e.cleared /\ f.history = e.history /\ f.readout = e.readout /\ f.faults = e.faults
  BY <1>4, KeepsIs
<1>7. Buffered(f, hh)
  BY <1>c, <1>1, <1>2, <1>5, <1>6 DEF Buffered
<1>8. Pending(f, o, k, dd)
  BY <1>c, <1>1, <1>2, <1>5, <1>6 DEF Pending
<1>9. Flight(f, o, k)
  BY <1>c, <1>1, <1>2, <1>4, <1>5, <1>6, <1>p DEF Flight
<1>10. Flags(f, o, k)
  BY <1>c, <1>1, <1>2, <1>4, <1>5, <1>6, <1>p DEF Flags
<1>11. Told(f, o, far, k)
  BY <1>c, <1>1, <1>2, <1>5, <1>6 DEF Told
<1>12. Target(f, o, v, k)
  BY <1>c, <1>1, <1>2, <1>4, <1>5, <1>6, <1>p DEF Target
<1>13. GatesSeen(f, k)
  BY <1>c, <1>1, <1>2, <1>4, <1>5, <1>6, <1>p DEF GatesSeen
<1>14. Shown(f, o, k)
  BY <1>c, <1>1, <1>2, <1>4, <1>5, <1>6, <1>p DEF Shown
<1> QED
  BY <1>7, <1>8, <1>9, <1>10, <1>11, <1>12, <1>13, <1>14 DEF EngineAt, f

\* The readout keeps the engine in step with the schedule, and is of the frame.
LEMMA ReadOutAt ==
  ASSUME NEW o \in Orders, NEW far, NEW v \in Nat, v > 0, v < WordLimit, NEW k \in 1 .. EndOf(o), NEW c \in Command, NEW e, NEW dd, NEW hh,
         EngineAt(e, o, far, v, k - 1, dd, hh),
         k = ReadoutPlace(o), IsRead(c, "DST")
  PROVE  EngineAt(Exec(e, c), o, far, v, k, dd, hh)
<1> DEFINE f == Exec(e, c)
<1>c. k \in Nat /\ k \in 1 .. 31 /\ FrameAt(o) \in {14, 21}
  BY DEF Orders, EndOf, FrameAt
<1>1. /\ Fired(o, k) = Fired(o, k - 1) /\ ~InFlight(o, k - 1) /\ ~InFlight(o, k)
      /\ k \notin Starts(o)
      /\ ~Clear(o, k)
      /\ k > 7 /\ k - 1 = FrameAt(o)
  BY <1>c DEF Orders, Starts, EndOf, ReadoutPlace, Second, Fired, InFlight, Clear, FrameAt
<1>2. /\ Buffered(e, hh) /\ Pending(e, o, k - 1, dd) /\ Flight(e, o, k - 1) /\ Flags(e, o, k - 1)
      /\ Told(e, o, far, k - 1) /\ Target(e, o, v, k - 1) /\ GatesSeen(e, k - 1) /\ Shown(e, o, k - 1)
  BY DEF EngineAt
<1>3. DOMAIN e = Fields
  BY <1>2 DEF Buffered
<1>p. e.dst = <<"frame", 0>> /\ e.dst[1] # "fill"
  <2>1. e.dst = <<"frame", 0>>
    BY <1>c, <1>1, <1>2 DEF Target
  <2> QED
    BY <2>1
<1>4. Keeps(e, f, {"readout"}) /\ f.readout = Append(e.readout, e.dst)
  BY <1>3, <1>p, ExecReadout
<1> HIDE DEF f
<1>5. DOMAIN f = Fields
  BY <1>4 DEF Keeps
<1>6. f.buf = e.buf /\ f.dst = e.dst /\ f.regs = e.regs /\ f.running = e.running /\ f.done = e.done /\ f.cleared = e.cleared /\ f.seen = e.seen /\ f.history = e.history /\ f.faults = e.faults
  BY <1>4, KeepsIs
<1>7. Buffered(f, hh)
  BY <1>c, <1>1, <1>2, <1>5, <1>6 DEF Buffered
<1>8. Pending(f, o, k, dd)
  BY <1>c, <1>1, <1>2, <1>5, <1>6 DEF Pending
<1>9. Flight(f, o, k)
  BY <1>c, <1>1, <1>2, <1>4, <1>5, <1>6, <1>p DEF Flight
<1>10. Flags(f, o, k)
  BY <1>c, <1>1, <1>2, <1>4, <1>5, <1>6, <1>p DEF Flags
<1>11. Told(f, o, far, k)
  BY <1>c, <1>1, <1>2, <1>5, <1>6 DEF Told
<1>12. Target(f, o, v, k)
  BY <1>c, <1>1, <1>2, <1>4, <1>5, <1>6, <1>p DEF Target
<1>13. GatesSeen(f, k)
  BY <1>c, <1>1, <1>2, <1>4, <1>5, <1>6, <1>p DEF GatesSeen
<1>14. Shown(f, o, k)
  <2>1. e.readout = << >>
    BY <1>c, <1>2 DEF Shown, ReadoutPlace
  <2>2. f.readout = Append(<< >>, <<"frame", 0>>)
    BY <1>4, <1>p, <2>1
  <2>3. f.readout = << <<"frame", 0>> >>
    BY <2>2
  <2> QED
    BY <1>c, <2>3 DEF Shown
<1> QED
  BY <1>7, <1>8, <1>9, <1>10, <1>11, <1>12, <1>13, <1>14 DEF EngineAt, f

\* The clear that begins a transfer keeps the engine in step with the schedule.
LEMMA ClearedAt ==
  ASSUME NEW o \in Orders, NEW far, NEW v \in Nat, v > 0, v < WordLimit, NEW k \in 1 .. EndOf(o), NEW c \in Command, NEW e, NEW dd, NEW hh,
         EngineAt(e, o, far, v, k - 1, dd, hh),
         k \in Starts(o), IsWrite(c, "INT_STS")
  PROVE  EngineAt(Exec(e, c), o, far, v, k, dd, hh)
<1> DEFINE f == Exec(e, c)
<1>c. k \in Nat /\ k \in 1 .. 31 /\ FrameAt(o) \in {14, 21}
  BY DEF Orders, EndOf, FrameAt
<1>1. /\ Fired(o, k) = Fired(o, k - 1) /\ ~InFlight(o, k - 1) /\ ~InFlight(o, k)
      /\ ~Clear(o, k)
      /\ k > 7 /\ FrameAt(o) > 7 /\ (k < FrameAt(o) <=> k - 1 < FrameAt(o))
      /\ (k < ReadoutPlace(o) <=> k - 1 < ReadoutPlace(o))
  BY <1>c DEF Orders, Starts, EndOf, ReadoutPlace, Second, Fired, InFlight, Clear, FrameAt
<1>2. /\ Buffered(e, hh) /\ Pending(e, o, k - 1, dd) /\ Flight(e, o, k - 1) /\ Flags(e, o, k - 1)
      /\ Told(e, o, far, k - 1) /\ Target(e, o, v, k - 1) /\ GatesSeen(e, k - 1) /\ Shown(e, o, k - 1)
  BY DEF EngineAt
<1>3. DOMAIN e = Fields
  BY <1>2 DEF Buffered
<1>p. e.running = Idle
  BY <1>1, <1>2 DEF Flight
<1>4. Keeps(e, f, {"done"}) /\ f.done = FALSE
  BY <1>3, <1>p, ExecClear
<1> HIDE DEF f
<1>5. DOMAIN f = Fields
  BY <1>4 DEF Keeps
<1>6. f.buf = e.buf /\ f.dst = e.dst /\ f.regs = e.regs /\ f.running = e.running /\ f.cleared = e.cleared /\ f.seen = e.seen /\ f.history = e.history /\ f.readout = e.readout /\ f.faults = e.faults
  BY <1>4, KeepsIs
<1>7. Buffered(f, hh)
  BY <1>c, <1>1, <1>2, <1>5, <1>6 DEF Buffered
<1>8. Pending(f, o, k, dd)
  BY <1>c, <1>1, <1>2, <1>5, <1>6 DEF Pending
<1>9. Flight(f, o, k)
  BY <1>c, <1>1, <1>2, <1>4, <1>5, <1>6, <1>p DEF Flight
<1>10. Flags(f, o, k)
  BY <1>c, <1>1, <1>2, <1>4, <1>5, <1>6, <1>p DEF Flags
<1>11. Told(f, o, far, k)
  BY <1>c, <1>1, <1>2, <1>5, <1>6 DEF Told
<1>12. Target(f, o, v, k)
  BY <1>c, <1>1, <1>2, <1>4, <1>5, <1>6, <1>p DEF Target
<1>13. GatesSeen(f, k)
  BY <1>c, <1>1, <1>2, <1>4, <1>5, <1>6, <1>p DEF GatesSeen
<1>14. Shown(f, o, k)
  BY <1>c, <1>1, <1>2, <1>4, <1>5, <1>6, <1>p DEF Shown
<1> QED
  BY <1>7, <1>8, <1>9, <1>10, <1>11, <1>12, <1>13, <1>14 DEF EngineAt, f

\* The wait that ends a transfer keeps the engine in step with the schedule.
LEMMA WaitedAt ==
  ASSUME NEW o \in Orders, NEW far, NEW v \in Nat, v > 0, v < WordLimit, NEW k \in 1 .. EndOf(o), NEW c \in Command, NEW e, NEW dd, NEW hh,
         EngineAt(e, o, far, v, k - 1, dd, hh),
         \E b \in Starts(o) : k = b + 6, IsRead(c, "INT_STS")
  PROVE  EngineAt(Exec(e, c), o, far, v, k, dd, hh)
<1> DEFINE f == Exec(e, c)
<1>c. k \in Nat /\ k \in 1 .. 31 /\ FrameAt(o) \in {14, 21}
  BY DEF Orders, EndOf, FrameAt
<1>1. /\ Fired(o, k) = Fired(o, k - 1) /\ InFlight(o, k - 1) /\ ~InFlight(o, k)
      /\ k \notin Starts(o)
      /\ ~Clear(o, k)
      /\ k > 7 /\ FrameAt(o) > 7
      /\ (k < ReadoutPlace(o) <=> k - 1 < ReadoutPlace(o))
  BY <1>c DEF Orders, Starts, EndOf, ReadoutPlace, Second, Fired, InFlight, Clear, FrameAt
<1>2. /\ Buffered(e, hh) /\ Pending(e, o, k - 1, dd) /\ Flight(e, o, k - 1) /\ Flags(e, o, k - 1)
      /\ Told(e, o, far, k - 1) /\ Target(e, o, v, k - 1) /\ GatesSeen(e, k - 1) /\ Shown(e, o, k - 1)
  BY DEF EngineAt
<1>3. DOMAIN e = Fields
  BY <1>2 DEF Buffered
<1>p. e.running = Wanted(o)[Fired(o, k)] /\ e.running # Idle /\ (e.running[2] = DstBuf <=> k = FrameAt(o))
        /\ (k # FrameAt(o) => (k < FrameAt(o) <=> k - 1 < FrameAt(o)))
  <2>1. e.running = Wanted(o)[Fired(o, k)]
    BY <1>1, <1>2 DEF Flight
  <2>2. /\ Transaction.command # Idle /\ Transaction.readback # Idle
        /\ Transaction.cleanup # Idle /\ Transaction.bidirectional # Idle
        /\ Transaction.command[2] # DstBuf /\ Transaction.readback[2] = DstBuf
        /\ Transaction.cleanup[2] # DstBuf /\ Transaction.bidirectional[2] = DstBuf
    BY DEF Transaction, Idle, DstBuf, Pcap
  <2>3. CASE o = "two-unidirectional"
    <3>1. (k = 14 /\ Fired(o, k) = 1) \/ (k = 21 /\ Fired(o, k) = 2) \/ (k = 30 /\ Fired(o, k) = 3)
      BY <1>c, <2>3 DEF Starts, Fired
    <3>2. Wanted(o)[1] = Transaction.command /\ Wanted(o)[2] = Transaction.readback /\ Wanted(o)[3] = Transaction.cleanup
      BY <2>3, WantedIs
    <3>3. FrameAt(o) = 21
      BY <2>3 DEF FrameAt
    <3> QED
      BY <2>1, <2>2, <3>1, <3>2, <3>3
  <2>4. CASE o = "one-bidirectional"
    <3>1. (k = 14 /\ Fired(o, k) = 1) \/ (k = 23 /\ Fired(o, k) = 2)
      BY <1>c, <2>4 DEF Starts, Fired
    <3>2. Wanted(o)[1] = Transaction.bidirectional /\ Wanted(o)[2] = Transaction.cleanup
      BY <2>4, WantedIs
    <3>3. FrameAt(o) = 14
      BY <2>4 DEF FrameAt
    <3> QED
      BY <2>1, <2>2, <3>1, <3>2, <3>3
  <2> QED
    BY <2>3, <2>4 DEF Orders
<1>4. Keeps(e, f, {"running", "done", "dst"}) /\ f.running = Idle /\ f.dst = IF e.running[2] = DstBuf THEN <<"frame", 0>> ELSE e.dst
  BY <1>3, <1>p, ExecWait
<1> HIDE DEF f
<1>5. DOMAIN f = Fields
  BY <1>4 DEF Keeps
<1>6. f.buf = e.buf /\ f.regs = e.regs /\ f.cleared = e.cleared /\ f.seen = e.seen /\ f.history = e.history /\ f.readout = e.readout /\ f.faults = e.faults
  BY <1>4, KeepsIs
<1>7. Buffered(f, hh)
  BY <1>c, <1>1, <1>2, <1>5, <1>6 DEF Buffered
<1>8. Pending(f, o, k, dd)
  BY <1>c, <1>1, <1>2, <1>5, <1>6 DEF Pending
<1>9. Flight(f, o, k)
  BY <1>c, <1>1, <1>2, <1>4, <1>5, <1>6, <1>p DEF Flight
<1>10. Flags(f, o, k)
  BY <1>c, <1>1, <1>2, <1>4, <1>5, <1>6, <1>p DEF Flags
<1>11. Told(f, o, far, k)
  BY <1>c, <1>1, <1>2, <1>5, <1>6 DEF Told
<1>12. Target(f, o, v, k)
  BY <1>c, <1>1, <1>2, <1>4, <1>5, <1>6, <1>p DEF Target
<1>13. GatesSeen(f, k)
  BY <1>c, <1>1, <1>2, <1>4, <1>5, <1>6, <1>p DEF GatesSeen
<1>14. Shown(f, o, k)
  BY <1>c, <1>1, <1>2, <1>4, <1>5, <1>6, <1>p DEF Shown
<1> QED
  BY <1>7, <1>8, <1>9, <1>10, <1>11, <1>12, <1>13, <1>14 DEF EngineAt, f

\* The transfers of an order with the streams they fetch.
LEMMA StoryIs ==
  ASSUME NEW far
  PROVE  /\ LET T == Story("two-unidirectional", far) IN
            /\ Len(T) = 3 /\ T = <<T[1], T[2], T[3]>>
            /\ T[1] = <<Transaction.command, ReadbackStream(far)>>
            /\ T[2] = <<Transaction.readback, << >> >> /\ T[3] = <<Transaction.cleanup, CleanupStream>>
         /\ LET T == Story("one-bidirectional", far) IN
            /\ Len(T) = 2 /\ T = <<T[1], T[2]>>
            /\ T[1] = <<Transaction.bidirectional, ReadbackStream(far)>> /\ T[2] = <<Transaction.cleanup, CleanupStream>>
<1>1. /\ ExpectedTransactions("two-unidirectional") = <<"command", "readback", "cleanup">>
      /\ ExpectedTransactions("one-bidirectional") = <<"bidirectional", "cleanup">>
  BY DEF ExpectedTransactions
<1>2. /\ DOMAIN ExpectedTransactions("two-unidirectional") = 1 .. 3
      /\ DOMAIN ExpectedTransactions("one-bidirectional") = 1 .. 2
  BY <1>1
<1> DEFINE G(n) == <<Transaction[n], Taken(n, far)>>
<1>3. /\ Story("two-unidirectional", far) = [x \in 1 .. 3 |-> G(ExpectedTransactions("two-unidirectional")[x])]
      /\ Story("one-bidirectional", far) = [x \in 1 .. 2 |-> G(ExpectedTransactions("one-bidirectional")[x])]
  BY <1>2 DEF Story
<1>4. /\ G("command") = <<Transaction.command, ReadbackStream(far)>> /\ G("readback") = <<Transaction.readback, << >> >>
      /\ G("cleanup") = <<Transaction.cleanup, CleanupStream>>
      /\ G("bidirectional") = <<Transaction.bidirectional, ReadbackStream(far)>>
  BY DEF Taken
<1> HIDE DEF G
<1>5. LET T == Story("two-unidirectional", far) IN
      Len(T) = 3 /\ T[1] = G("command") /\ T[2] = G("readback") /\ T[3] = G("cleanup") /\ T = <<T[1], T[2], T[3]>>
  BY <1>1, <1>3
<1>6. LET T == Story("one-bidirectional", far) IN
      Len(T) = 2 /\ T[1] = G("bidirectional") /\ T[2] = G("cleanup") /\ T = <<T[1], T[2]>>
  BY <1>1, <1>3
<1> QED
  BY <1>4, <1>5, <1>6

\* What the transfer that is fired at a place fetches.
Whole(hh, o, far, k) ==
    /\ 8 <= k /\ k < Second(o) => Holds(hh.current, ReadbackStream(far))
    /\ k > Second(o) => Holds(hh.current, CleanupStream)

\* The places of the schedule and the transfers fired by them are numbers.
LEMMA ClockTyped ==
  ASSUME NEW o \in Orders, NEW k \in 1 .. EndOf(o)
  PROVE  k \in Nat /\ k \in 1 .. 31 /\ FrameAt(o) \in {14, 21} /\ Fired(o, k) \in Nat /\ Fired(o, k - 1) \in Nat
<1>1. k \in Nat /\ k \in 1 .. 31 /\ FrameAt(o) \in {14, 21}
  BY DEF Orders, EndOf, FrameAt
<1> QED
  BY <1>1 DEF Fired

\* What the schedule says at the registers of a transfer.
LEMMA ClockRegister ==
  ASSUME NEW o \in Orders, NEW b \in Starts(o), NEW j \in 1 .. 4, NEW k, k = b + 1 + j
  PROVE  /\ ~InFlight(o, k - 1) /\ Clear(o, k - 1)
         /\ k \notin Starts(o) /\ k > 7 /\ FrameAt(o) > 7
         /\ (k < FrameAt(o) <=> k - 1 < FrameAt(o)) /\ (k < ReadoutPlace(o) <=> k - 1 < ReadoutPlace(o))
         /\ j < 4 => Fired(o, k) = Fired(o, k - 1) /\ ~InFlight(o, k)
         /\ j = 4 => Fired(o, k) = Fired(o, k - 1) + 1 /\ InFlight(o, k) /\ ~Clear(o, k)
<1>1. CASE o = "two-unidirectional"
  <2>1. b \in {8, 15, 24} /\ j \in {1, 2, 3, 4}
    BY <1>1 DEF Starts
  <2> QED
    BY <1>1, <2>1 DEF Starts, ReadoutPlace, Fired, InFlight, Clear, FrameAt
<1>2. CASE o = "one-bidirectional"
  <2>1. b \in {8, 17} /\ j \in {1, 2, 3, 4}
    BY <1>2 DEF Starts
  <2> QED
    BY <1>2, <2>1 DEF Starts, ReadoutPlace, Fired, InFlight, Clear, FrameAt
<1> QED
  BY <1>1, <1>2 DEF Orders

\* A transfer fired at its place fetches the stream it is meant to.
LEMMA FetchedAt ==
  ASSUME NEW o \in Orders, NEW far \in Nat, NEW k, InFlight(o, k), NEW e, NEW hh, Buffered(e, hh), Whole(hh, o, far, k),
         NEW tx, tx = Wanted(o)[Fired(o, k)]
  PROVE  /\ Fired(o, k) \in 1 .. Len(Story(o, far))
         /\ <<tx, Fetched(e, tx)>> = Story(o, far)[Fired(o, k)]
<1>1. /\ Transaction.command[1][1] = "CMD" /\ Transaction.command[3][2] = 5
      /\ Transaction.bidirectional[1][1] = "CMD" /\ Transaction.bidirectional[3][2] = 5
      /\ Transaction.cleanup[1][1] = "CMD" /\ Transaction.cleanup[3][2] = 2
      /\ Transaction.readback[1][1] = "PCAP"
  BY DEF Transaction, CmdBuf, Pcap, Length, StreamWords, CleanupWords
<1>2. /\ RegionSize("CMD") = 5 /\ "CMD" \in StreamBuffers /\ "PCAP" \notin StreamBuffers
  BY DEF RegionSize, StreamWords, StreamBuffers
<1>3. /\ Len(ReadbackStream(far)) = 5 /\ Len(CleanupStream) = 2
      /\ ReadbackStream(far) \in Seq(Word) /\ CleanupStream \in Seq(Word)
  BY PlanAssumption DEF ReadbackStream, CleanupStream, Word, Names, Noop, FarWord
<1>4. ASSUME NEW stream \in Seq(Word), Len(stream) \in {2, 5}, Holds(hh.current, stream), tx[1][1] = "CMD", tx[3][2] = Len(stream)
      PROVE  Fetched(e, tx) = stream
  <2>1. \A x \in 1 .. Len(stream) : x - 1 \in DOMAIN hh.current /\ hh.current[x - 1] = stream[x]
    BY <1>4 DEF Holds
  <2>2. \A x \in 1 .. Len(stream) : e.buf["CMD"][x - 1] = stream[x]
    BY <2>1 DEF Buffered
  <2> DEFINE r == tx[1][1]
  <2>3. r = "CMD"
    BY <1>4
  <2> HIDE DEF r
  <2>4. r \in StreamBuffers /\ RegionSize(r) = 5
    BY <1>2, <2>3
  <2>5. Len(stream) <= RegionSize(r) /\ Len(stream) \in Nat
    <3> DEFINE n == Len(stream)
    <3>1. n = 2 \/ n = 5
      BY <1>4
    <3> HIDE DEF n
    <3>2. n <= 5 /\ n \in Nat
      BY <3>1
    <3> QED
      BY <2>4, <3>2 DEF n
  <2>6. Stored(e, r, stream)
    BY <2>2, <2>3 DEF Stored
  <2>7. tx[3][2] = Len(stream)
    BY <1>4
  <2> QED
    BY <2>4, <2>5, <2>6, <2>7, FetchedIs DEF r
<1>5. CASE o = "two-unidirectional"
  <2>1. \/ k = 13 /\ Fired(o, k) = 1
        \/ k = 20 /\ Fired(o, k) = 2
        \/ k = 29 /\ Fired(o, k) = 3
    BY <1>5 DEF InFlight, Fired
  <2>2. Wanted(o)[1] = Transaction.command /\ Wanted(o)[2] = Transaction.readback /\ Wanted(o)[3] = Transaction.cleanup
    BY <1>5, WantedIs
  <2>3. /\ Len(Story(o, far)) = 3
        /\ Story(o, far)[1] = <<Transaction.command, ReadbackStream(far)>>
        /\ Story(o, far)[2] = <<Transaction.readback, << >> >> /\ Story(o, far)[3] = <<Transaction.cleanup, CleanupStream>>
    BY <1>5, StoryIs
  <2>4. Second(o) = 23
    BY <1>5 DEF Second
  <2>5. CASE k = 13 /\ Fired(o, k) = 1
    <3>1. tx = Transaction.command /\ Holds(hh.current, ReadbackStream(far))
      BY <2>2, <2>4, <2>5 DEF Whole
    <3>2. Fetched(e, tx) = ReadbackStream(far)
      BY <1>1, <1>3, <1>4, <3>1
    <3> QED
      BY <2>3, <2>5, <3>1, <3>2
  <2>6. CASE k = 20 /\ Fired(o, k) = 2
    <3>1. tx = Transaction.readback
      BY <2>2, <2>6
    <3>2. Fetched(e, tx) = << >>
      BY <1>1, <1>2, <3>1, FetchesNothing
    <3> QED
      BY <2>3, <2>6, <3>1, <3>2
  <2>7. CASE k = 29 /\ Fired(o, k) = 3
    <3>1. tx = Transaction.cleanup /\ Holds(hh.current, CleanupStream)
      BY <2>2, <2>4, <2>7 DEF Whole
    <3>2. Fetched(e, tx) = CleanupStream
      BY <1>1, <1>3, <1>4, <3>1
    <3> QED
      BY <2>3, <2>7, <3>1, <3>2
  <2> QED
    BY <2>1, <2>5, <2>6, <2>7
<1>6. CASE o = "one-bidirectional"
  <2>1. \/ k = 13 /\ Fired(o, k) = 1
        \/ k = 22 /\ Fired(o, k) = 2
    BY <1>6 DEF InFlight, Fired
  <2>2. Wanted(o)[1] = Transaction.bidirectional /\ Wanted(o)[2] = Transaction.cleanup
    BY <1>6, WantedIs
  <2>3. /\ Len(Story(o, far)) = 2
        /\ Story(o, far)[1] = <<Transaction.bidirectional, ReadbackStream(far)>>
        /\ Story(o, far)[2] = <<Transaction.cleanup, CleanupStream>>
    BY <1>6, StoryIs
  <2>4. Second(o) = 16
    BY <1>6 DEF Second
  <2>5. CASE k = 13 /\ Fired(o, k) = 1
    <3>1. tx = Transaction.bidirectional /\ Holds(hh.current, ReadbackStream(far))
      BY <2>2, <2>4, <2>5 DEF Whole
    <3>2. Fetched(e, tx) = ReadbackStream(far)
      BY <1>1, <1>3, <1>4, <3>1
    <3> QED
      BY <2>3, <2>5, <3>1, <3>2
  <2>6. CASE k = 22 /\ Fired(o, k) = 2
    <3>1. tx = Transaction.cleanup /\ Holds(hh.current, CleanupStream)
      BY <2>2, <2>4, <2>6 DEF Whole
    <3>2. Fetched(e, tx) = CleanupStream
      BY <1>1, <1>3, <1>4, <3>1
    <3> QED
      BY <2>3, <2>6, <3>1, <3>2
  <2> QED
    BY <2>1, <2>5, <2>6
<1> QED
  BY <1>5, <1>6 DEF Orders

\* One of the first three registers keeps the engine in step with the schedule.
LEMMA RegisterAt ==
  ASSUME NEW o \in Orders, NEW far \in Nat, NEW v \in Nat, v > 0, v < WordLimit, NEW k \in 1 .. EndOf(o), NEW c \in Command, NEW e,
         NEW dd \in DmaState, NEW dn, NEW hh, EngineAt(e, o, far, v, k - 1, dd, hh),
         NEW b \in Starts(o), NEW j \in 1 .. 3, k = b + 1 + j, IsWrite(c, DmaOrder[j]),
         Len(dd.pending) = j - 1, dn.pending = Append(dd.pending, c.value), dn.txs = dd.txs
  PROVE  EngineAt(Exec(e, c), o, far, v, k, dn, hh)
<1> DEFINE f == Exec(e, c)
<1>c. k \in Nat /\ k \in 1 .. 31 /\ FrameAt(o) \in {14, 21} /\ Fired(o, k) \in Nat /\ Fired(o, k - 1) \in Nat
  BY ClockTyped
<1>1. /\ Fired(o, k) = Fired(o, k - 1) /\ ~InFlight(o, k - 1) /\ ~InFlight(o, k)
      /\ (Clear(o, k) => Clear(o, k - 1))
      /\ k \notin Starts(o) /\ k > 7 /\ FrameAt(o) > 7
      /\ (k < FrameAt(o) <=> k - 1 < FrameAt(o)) /\ (k < ReadoutPlace(o) <=> k - 1 < ReadoutPlace(o))
  <2>1. j \in 1 .. 4 /\ j < 4
    OBVIOUS
  <2> QED
    BY <2>1, ClockRegister
<1>2. /\ Buffered(e, hh) /\ Pending(e, o, k - 1, dd) /\ Flight(e, o, k - 1) /\ Flags(e, o, k - 1)
      /\ Told(e, o, far, k - 1) /\ Target(e, o, v, k - 1) /\ GatesSeen(e, k - 1) /\ Shown(e, o, k - 1)
  BY DEF EngineAt
<1>3. DOMAIN e = Fields
  BY <1>2 DEF Buffered
<1>r. Len(Append(e.regs, c.value)) = j /\ j \in 1 .. 4 /\ j < 4
  <2>1. e.regs = dd.pending /\ dd.pending \in Seq(Word) /\ c.value \in Word
    BY <1>2, CommandTyped DEF Pending, DmaState
  <2>2. Len(Append(e.regs, c.value)) = Len(dd.pending) + 1
    BY <2>1
  <2>3. j - 1 + 1 = j
    OBVIOUS
  <2> QED
    BY <2>2, <2>3
<1>4. Keeps(e, f, {"regs"}) /\ f.regs = Append(e.regs, c.value)
  <2>1. IsWrite(c, DmaOrder[j])
    OBVIOUS
  <2> QED
    BY <1>3, <1>r, <2>1, ExecRegister
<1> HIDE DEF f
<1>5. DOMAIN f = Fields
  BY <1>4 DEF Keeps
<1>6. f.buf = e.buf /\ f.dst = e.dst /\ f.running = e.running /\ f.done = e.done /\ f.cleared = e.cleared
      /\ f.seen = e.seen /\ f.history = e.history /\ f.readout = e.readout /\ f.faults = e.faults
  BY <1>4, KeepsIs
<1>7. Buffered(f, hh)
  BY <1>2, <1>5, <1>6 DEF Buffered
<1>8. Pending(f, o, k, dn)
  BY <1>1, <1>2, <1>4 DEF Pending
<1>9. Flight(f, o, k)
  BY <1>1, <1>2, <1>6 DEF Flight
<1>10. Flags(f, o, k)
  BY <1>1, <1>2, <1>6 DEF Flags
<1>11. Told(f, o, far, k)
  BY <1>1, <1>2, <1>6 DEF Told
<1>12. Target(f, o, v, k)
  BY <1>c, <1>1, <1>2, <1>6 DEF Target
<1>13. GatesSeen(f, k)
  BY <1>c, <1>1, <1>2, <1>6 DEF GatesSeen
<1>14. Shown(f, o, k)
  BY <1>1, <1>2, <1>6 DEF Shown
<1> QED
  BY <1>7, <1>8, <1>9, <1>10, <1>11, <1>12, <1>13, <1>14 DEF EngineAt, f

\* The fourth register keeps the engine in step: the transfer fires without fault.
LEMMA FiredAt ==
  ASSUME NEW o \in Orders, NEW far \in Nat, NEW v \in Nat, v > 0, v < WordLimit, NEW k \in 1 .. EndOf(o), NEW c \in Command, NEW e,
         NEW dd \in DmaState, NEW dn, NEW hh, EngineAt(e, o, far, v, k - 1, dd, hh),
         NEW b \in Starts(o), k = b + 5, IsWrite(c, DmaOrder[4]), Whole(hh, o, far, k),
         Len(dd.pending) = 3, dn.pending = << >>, Grown(dd.txs, dn.txs, Append(dd.pending, c.value)),
         Append(dd.pending, c.value) = Wanted(o)[Len(dn.txs)]
  PROVE  EngineAt(Exec(e, c), o, far, v, k, dn, hh)
<1> DEFINE f == Exec(e, c)
<1> DEFINE g == [e EXCEPT !.regs = Append(e.regs, c.value)]
<1>c. k \in Nat /\ k \in 1 .. 31 /\ FrameAt(o) \in {14, 21} /\ Fired(o, k) \in Nat /\ Fired(o, k - 1) \in Nat
  BY ClockTyped
<1>1. /\ Fired(o, k) = Fired(o, k - 1) + 1 /\ ~InFlight(o, k - 1) /\ InFlight(o, k)
      /\ Clear(o, k - 1) /\ ~Clear(o, k)
      /\ k \notin Starts(o) /\ k > 7 /\ FrameAt(o) > 7
      /\ (k < FrameAt(o) <=> k - 1 < FrameAt(o)) /\ (k < ReadoutPlace(o) <=> k - 1 < ReadoutPlace(o))
  <2>1. 4 \in 1 .. 4 /\ b + 1 + 4 = b + 5
    BY DEF Starts
  <2>2. k = b + 1 + 4
    BY <2>1
  <2> QED
    BY <2>1, <2>2, ClockRegister
<1>2. /\ Buffered(e, hh) /\ Pending(e, o, k - 1, dd) /\ Flight(e, o, k - 1) /\ Flags(e, o, k - 1)
      /\ Told(e, o, far, k - 1) /\ Target(e, o, v, k - 1) /\ GatesSeen(e, k - 1) /\ Shown(e, o, k - 1)
  BY DEF EngineAt
<1>3. DOMAIN e = Fields
  BY <1>2 DEF Buffered
<1>r. /\ Len(Append(e.regs, c.value)) = 4 /\ Append(e.regs, c.value) = Wanted(o)[Fired(o, k)]
  <2>1. e.regs = dd.pending /\ dd.pending \in Seq(Word) /\ c.value \in Word /\ dd.txs \in Seq(Seq(Word))
    BY <1>2, CommandTyped DEF Pending, DmaState
  <2>5. Grown(dd.pending, Append(dd.pending, c.value), c.value)
    BY <2>1, GrownIs
  <2>6. Len(Append(e.regs, c.value)) = Len(dd.pending) + 1
    BY <2>1, <2>5 DEF Grown
  <2>2. Len(Append(e.regs, c.value)) = 4
    BY <2>6
  <2>3. Len(dn.txs) = Len(dd.txs) + 1 /\ Len(dd.txs) = Fired(o, k - 1)
    BY <1>2 DEF Grown, Pending
  <2>4. Len(dn.txs) = Fired(o, k)
    BY <1>1, <2>3
  <2> QED
    BY <2>1, <2>2, <2>4
<1>n. dn.pending = << >> /\ Len(dn.txs) = Fired(o, k)
  BY <1>1, <1>2 DEF Grown, Pending
<1>4. Keeps(e, g, {"regs"}) /\ g.regs = Wanted(o)[Fired(o, k)] /\ f = Fire(g)
  <2>1. IsWrite(c, DmaOrder[4]) /\ 4 \in 1 .. 4
    OBVIOUS
  <2> QED
    BY <1>3, <1>r, <2>1, ExecRegister
<1> HIDE DEF f, g
<1>5. DOMAIN g = Fields
  BY <1>4 DEF Keeps
<1>6. g.buf = e.buf /\ g.dst = e.dst /\ g.running = e.running /\ g.done = e.done /\ g.cleared = e.cleared
      /\ g.seen = e.seen /\ g.history = e.history /\ g.readout = e.readout /\ g.faults = e.faults
  BY <1>4, KeepsIs
<1>7. g.running = Idle /\ g.cleared /\ "prefill" \in g.seen
  BY <1>c, <1>1, <1>2, <1>6 DEF Flight, Flags, GatesSeen
<1>8. /\ Keeps(g, f, {"running", "regs", "cleared", "history"})
      /\ f.running = g.regs /\ f.regs = << >> /\ f.history = Append(g.history, <<g.regs, Fetched(g, g.regs)>>)
  BY <1>4, <1>5, <1>7, FireIs
<1>9. DOMAIN f = Fields
  BY <1>8 DEF Keeps
<1>k. f.buf = g.buf /\ f.dst = g.dst /\ f.done = g.done /\ f.seen = g.seen /\ f.readout = g.readout /\ f.faults = g.faults
  BY <1>8 DEF Keeps, Fields
<1>10. f.buf = e.buf /\ f.dst = e.dst /\ f.done = e.done /\ f.seen = e.seen /\ f.readout = e.readout /\ f.faults = e.faults
  BY <1>6, <1>k
<1>11. Buffered(g, hh)
  BY <1>2, <1>5, <1>6 DEF Buffered
<1>12. Buffered(f, hh)
  BY <1>2, <1>9, <1>10 DEF Buffered
<1>13. Pending(f, o, k, dn)
  BY <1>8, <1>n DEF Pending
<1>14. Flight(f, o, k)
  BY <1>1, <1>4, <1>8 DEF Flight
<1>15. Flags(f, o, k)
  BY <1>1 DEF Flags
<1>16. Told(f, o, far, k)
  <2> DEFINE x == <<g.regs, Fetched(g, g.regs)>>
  <2>1. Fired(o, k) \in 1 .. Len(Story(o, far)) /\ x = Story(o, far)[Fired(o, k)]
    <3>1. PICK tx : tx = g.regs
      OBVIOUS
    <3>2. InFlight(o, k) /\ tx = Wanted(o)[Fired(o, k)] /\ Buffered(g, hh)
      BY <1>1, <1>4, <1>11, <3>1
    <3> HIDE DEF g
    <3>3. Fired(o, k) \in 1 .. Len(Story(o, far)) /\ <<tx, Fetched(g, tx)>> = Story(o, far)[Fired(o, k)]
      BY <3>2, FetchedAt
    <3> QED
      BY <3>1, <3>3
  <2>2. x \in Stories(o, far)
    BY <2>1 DEF Stories
  <2>3. f.history = Append(e.history, x) /\ e.history \in Seq(Stories(o, far)) /\ Len(e.history) = Fired(o, k - 1)
        /\ \A y \in 1 .. Len(e.history) : e.history[y] = Story(o, far)[y]
    BY <1>2, <1>6, <1>8 DEF Told
  <2> HIDE DEF x
  <2>4. f.history \in Seq(Stories(o, far)) /\ Grown(e.history, f.history, x)
    BY <2>2, <2>3, GrownIs
  <2>5. Len(f.history) = Fired(o, k) /\ f.history[Fired(o, k)] = x
        /\ \A y \in 1 .. Fired(o, k - 1) : f.history[y] = Story(o, far)[y]
    BY <1>1, <2>3, <2>4 DEF Grown
  <2>6. \A y \in 1 .. Fired(o, k) : y \in 1 .. Fired(o, k - 1) \/ y = Fired(o, k)
    BY <1>c, <1>1
  <2> QED
    BY <2>1, <2>4, <2>5, <2>6 DEF Told
<1>17. Target(f, o, v, k)
  <2>1. f.dst = e.dst /\ Target(e, o, v, k - 1)
    BY <1>2, <1>10
  <2>2. k \in Nat /\ k > 7 /\ FrameAt(o) \in Nat /\ (k < FrameAt(o) <=> k - 1 < FrameAt(o))
    BY <1>c, <1>1
  <2> HIDE DEF f
  <2> QED
    BY <2>1, <2>2 DEF Target
<1>18. GatesSeen(f, k)
  BY <1>c, <1>1, <1>2, <1>10 DEF GatesSeen
<1>19. Shown(f, o, k)
  BY <1>1, <1>2, <1>10 DEF Shown
<1> QED
  BY <1>12, <1>13, <1>14, <1>15, <1>16, <1>17, <1>18, <1>19 DEF EngineAt, f

\* A word of a stream keeps the engine in step with the schedule.
LEMMA WordAt ==
  ASSUME NEW o \in Orders, NEW far, NEW v \in Nat, NEW k \in {7, Second(o)}, NEW a \in {k - 1, k}, NEW c \in Command, NEW e,
         NEW dd, NEW hh, NEW hn, EngineAt(e, o, far, v, a, dd, hh),
         StreamWrite(c), c.count = 1, c.at \in 0 .. 4, PhaseOpened(hh, hn, c) \/ PhaseGrown(hh, hn, c)
  PROVE  EngineAt(Exec(e, c), o, far, v, k, dd, hn)
<1> DEFINE f == Exec(e, c)
<1>c. k \in Nat /\ a \in Nat /\ k > 6 /\ a > 5 /\ FrameAt(o) \in {14, 21}
  BY DEF Orders, Second, FrameAt
<1>1. /\ Fired(o, k) = Fired(o, a) /\ ~InFlight(o, a) /\ ~InFlight(o, k)
      /\ k \notin Starts(o) /\ ~Clear(o, k) /\ FrameAt(o) > 7
      /\ (k < FrameAt(o) <=> a < FrameAt(o)) /\ (k < ReadoutPlace(o) <=> a < ReadoutPlace(o))
  BY <1>c DEF Orders, Starts, EndOf, ReadoutPlace, Second, Fired, InFlight, Clear, FrameAt
<1>2. /\ Buffered(e, hh) /\ Pending(e, o, a, dd) /\ Flight(e, o, a) /\ Flags(e, o, a)
      /\ Told(e, o, far, a) /\ Target(e, o, v, a) /\ GatesSeen(e, a) /\ Shown(e, o, a)
  BY DEF EngineAt
<1>3. DOMAIN e = Fields /\ DOMAIN e.buf = StreamBuffers /\ e.running = Idle
  BY <1>1, <1>2 DEF Buffered, Flight
<1>4. /\ Keeps(e, f, {"buf"}) /\ DOMAIN f.buf = StreamBuffers
      /\ f.buf["CMD"] = [x \in DOMAIN e.buf["CMD"] |-> IF x = c.at THEN c.value ELSE e.buf["CMD"][x]]
  <2>1. "CMD" \in StreamBuffers /\ IsWrite(c, "CMD")
    BY DEF StreamBuffers, IsWrite, StreamWrite
  <2> QED
    BY <1>3, <2>1, ExecWord
<1> HIDE DEF f
<1>5. DOMAIN f = Fields
  BY <1>4 DEF Keeps
<1>6. f.regs = e.regs /\ f.dst = e.dst /\ f.running = e.running /\ f.done = e.done /\ f.cleared = e.cleared
      /\ f.seen = e.seen /\ f.history = e.history /\ f.readout = e.readout /\ f.faults = e.faults
  BY <1>4, KeepsIs
<1>7. Buffered(f, hn)
  <2>1. DOMAIN e.buf["CMD"] = 0 .. 4 /\ DOMAIN hh.current \subseteq 0 .. 4
        /\ \A x \in DOMAIN hh.current : e.buf["CMD"][x] = hh.current[x]
    BY <1>2 DEF Buffered
  <2>2. DOMAIN f.buf["CMD"] = 0 .. 4 /\ f.buf["CMD"][c.at] = c.value
        /\ \A x \in (0 .. 4) \ {c.at} : f.buf["CMD"][x] = e.buf["CMD"][x]
    BY <1>4, <2>1
  <2>3. CASE PhaseOpened(hh, hn, c)
    <3>1. DOMAIN hn.current = {c.at} /\ hn.current[c.at] = c.value
      BY <2>3 DEF PhaseOpened
    <3> QED
      BY <1>2, <1>4, <1>5, <1>6, <2>2, <3>1 DEF Buffered
  <2>4. CASE PhaseGrown(hh, hn, c)
    <3>1. DOMAIN hn.current = DOMAIN hh.current \cup {c.at}
          /\ \A x \in DOMAIN hn.current : hn.current[x] = IF x = c.at THEN c.value ELSE hh.current[x]
      BY <2>4 DEF PhaseGrown, Extended
    <3>2. \A x \in DOMAIN hn.current : f.buf["CMD"][x] = hn.current[x]
      BY <2>1, <2>2, <3>1
    <3> QED
      BY <1>2, <1>4, <1>5, <1>6, <2>1, <2>2, <3>1, <3>2 DEF Buffered
  <2> QED
    BY <2>3, <2>4
<1>8. Pending(f, o, k, dd)
  BY <1>1, <1>2, <1>6 DEF Pending
<1>9. Flight(f, o, k)
  BY <1>1, <1>2, <1>6 DEF Flight
<1>10. Flags(f, o, k)
  BY <1>1 DEF Flags
<1>11. Told(f, o, far, k)
  BY <1>1, <1>2, <1>6 DEF Told
<1>12. Target(f, o, v, k)
  BY <1>c, <1>1, <1>2, <1>6 DEF Target
<1>13. GatesSeen(f, k)
  BY <1>c, <1>1, <1>2, <1>6 DEF GatesSeen
<1>14. Shown(f, o, k)
  BY <1>1, <1>2, <1>6 DEF Shown
<1> QED
  BY <1>7, <1>8, <1>9, <1>10, <1>11, <1>12, <1>13, <1>14 DEF EngineAt, f

\* The engine begins in step with the schedule.
LEMMA StartsSound ==
  ASSUME NEW o \in Orders, NEW far, NEW v
  PROVE  EngineAt(EngineInit, o, far, v, 0, DmaStart, PhaseStart)
<1> DEFINE e == EngineInit
<1>1. DOMAIN e = Fields /\ e.faults = {} /\ e.regs = << >> /\ e.running = Idle /\ e.history = << >> /\ e.readout = << >>
  BY DEF EngineInit, Fields
<1>2. /\ ~InFlight(o, 0) /\ Fired(o, 0) = 0 /\ 0 \notin Starts(o) /\ ~Clear(o, 0) /\ FrameAt(o) \in {14, 21}
      /\ 0 < ReadoutPlace(o)
  BY DEF Orders, InFlight, Fired, Starts, Clear, FrameAt, ReadoutPlace
<1>3. Buffered(e, PhaseStart)
  <2>1. RegionSize("CMD") = 5 /\ "CMD" \in StreamBuffers
    BY DEF RegionSize, StreamWords, StreamBuffers
  <2>2. e.buf = [r \in StreamBuffers |-> [i \in 0..(RegionSize(r) - 1) |-> Noop]]
    BY DEF EngineInit
  <2>3. DOMAIN e.buf = StreamBuffers /\ DOMAIN e.buf["CMD"] = 0 .. (RegionSize("CMD") - 1)
    BY <2>1, <2>2
  <2>5. RegionSize("CMD") - 1 = 4
    BY <2>1
  <2>6. DOMAIN e.buf["CMD"] = 0 .. 4
    BY <2>3, <2>5
  <2>4. PhaseStart.current = << >> /\ DOMAIN PhaseStart.current = {}
    BY DEF PhaseStart
  <2> QED
    BY <1>1, <2>3, <2>4, <2>6 DEF Buffered
<1> HIDE DEF e
<1>4. Pending(e, o, 0, DmaStart)
  BY <1>1, <1>2 DEF Pending, DmaStart
<1>5. Flight(e, o, 0) /\ Flags(e, o, 0) /\ Target(e, o, v, 0) /\ GatesSeen(e, 0) /\ Shown(e, o, 0)
  BY <1>1, <1>2 DEF Flight, Flags, Target, GatesSeen, Shown
<1>6. Told(e, o, far, 0)
  BY <1>1, <1>2 DEF Told
<1> QED
  BY <1>3, <1>4, <1>5, <1>6 DEF EngineAt, e

\* Every command of a judged plan that writes no stream keeps the engine in step.
LEMMA PlainSteps ==
  ASSUME NEW p, NEW t, NEW d, NEW h, Judged(p, t, d, h), NEW i \in 1 .. Len(p.script), NEW e, NEW k,
         k = Len(t[i]), k \in 1 .. EndOf(p.order), ~StreamWrite(p.script[i]), PlainAt(p.script[i], p.order, p.sentinel, k),
         EngineAt(e, p.order, p.far, p.sentinel, k - 1, d[i - 1], h[i - 1]),
         ~IsDma(p.script[i]) => d[i] = d[i - 1], h[i] = h[i - 1]
  PROVE  EngineAt(Exec(e, p.script[i]), p.order, p.far, p.sentinel, k, d[i], h[i])
<1> DEFINE c == p.script[i]
<1> DEFINE o == p.order
<1> DEFINE v == p.sentinel
<1> DEFINE far == p.far
<1> DEFINE dd == d[i - 1]
<1> DEFINE dn == d[i]
<1> DEFINE hh == h[i - 1]
<1>1. o \in Orders /\ far \in Nat /\ v \in Nat /\ v > 0 /\ v < WordLimit
  BY DEF Judged
<1>2. c \in Command /\ i - 1 \in 0 .. Len(p.script)
  BY ScriptAt DEF ReadCommand
<1>3. dd \in DmaState
  BY <1>2, TransfersAt
<1>4. \A j \in 1 .. 4 : IsWrite(c, DmaOrder[j]) => Advances(j, dd, dn, c, Wanted(o))
  BY TransferStep
<1>5. Whole(h[i], o, far, k)
  <2>1. i \in 0 .. Len(p.script)
    BY <1>2, ScriptAt
  <2> QED
    BY <2>1, StreamsAt DEF Whole
<1>6. Whole(hh, o, far, k) /\ h[i] = hh
  BY <1>5
<1>7. PlainAt(c, o, v, k) /\ EngineAt(e, o, far, v, k - 1, dd, hh) /\ k \in 1 .. EndOf(o)
  OBVIOUS
<1>8. ~IsDma(c) => dn = dd
  OBVIOUS
<1>9. /\ \A r : IsRead(c, r) => ~IsDma(c)
      /\ IsWrite(c, "DST") \/ IsWrite(c, "INT_STS") \/ c.form = "dcache-off" => ~IsDma(c)
  BY DmaRegsAre DEF IsRead, IsWrite, IsDma
<1> SUFFICES EngineAt(Exec(e, c), o, far, v, k, dn, hh)
  BY <1>6
<1> HIDE DEF c, o, v, far, dd, dn, hh
<1>10. CASE k = 1 /\ c.form = "dcache-off"
  BY <1>1, <1>2, <1>7, <1>8, <1>9, <1>10, CacheOffAt
<1>11. CASE k = 2 /\ IsRead(c, "CTRL")
  BY <1>1, <1>2, <1>7, <1>8, <1>9, <1>11, GateCtrlAt
<1>12. CASE k = 3 /\ IsRead(c, "MCTRL")
  BY <1>1, <1>2, <1>7, <1>8, <1>9, <1>12, GateMctrlAt
<1>13. CASE (k \in {4, EndOf(o)} \/ (\E b \in Starts(o) : k = b + 1)) /\ IsRead(c, "INT_STS")
  BY <1>1, <1>2, <1>7, <1>8, <1>9, <1>13, StatusAt
<1>14. CASE k = 5 /\ IsWrite(c, "DST") /\ c.value[2] = v /\ c.count = ReadWords
  BY <1>1, <1>2, <1>7, <1>8, <1>9, <1>14, FilledAt
<1>15. CASE k = 6 /\ IsRead(c, "DST")
  BY <1>1, <1>2, <1>7, <1>8, <1>9, <1>15, PrefilledAt
<1>16. CASE k = ReadoutPlace(o) /\ IsRead(c, "DST")
  BY <1>1, <1>2, <1>7, <1>8, <1>9, <1>16, ReadOutAt
<1>17. CASE k \in Starts(o) /\ IsWrite(c, "INT_STS")
  BY <1>1, <1>2, <1>7, <1>8, <1>9, <1>17, ClearedAt
<1>18. CASE (\E b \in Starts(o) : k = b + 6) /\ IsRead(c, "INT_STS")
  BY <1>1, <1>2, <1>7, <1>8, <1>9, <1>18, WaitedAt
<1>19. CASE \E b \in Starts(o), j \in 1 .. 4 : k = b + 1 + j /\ IsWrite(c, DmaOrder[j])
  <2>1. PICK b \in Starts(o), j \in 1 .. 4 : k = b + 1 + j /\ IsWrite(c, DmaOrder[j])
    BY <1>19
  <2>2. CASE j # 4
    <3>1. j \in 1 .. 3 /\ j < 4
      BY <2>2
    <3>2. Len(dd.pending) = j - 1 /\ dn.pending = Append(dd.pending, c.value) /\ dn.txs = dd.txs
      BY <1>4, <2>1, <3>1 DEF Advances
    <3> QED
      BY <1>1, <1>2, <1>3, <1>7, <2>1, <3>1, <3>2, RegisterAt
  <2>3. CASE j = 4
    <3>1. b \in Nat
      <4>1. Starts(o) \subseteq Nat
        BY DEF Starts
      <4> QED
        BY <4>1
    <3>2. k = b + 5 /\ IsWrite(c, DmaOrder[4])
      BY <2>1, <2>3, <3>1
    <3>a. Advances(4, dd, dn, c, Wanted(o))
      <4>1. 4 \in 1 .. 4
        OBVIOUS
      <4> QED
        BY <1>4, <3>2, <4>1
    <3>3. Len(dd.pending) = 3
      <4>1. PICK m \in Nat : Len(dd.pending) = m
        BY <1>3 DEF DmaState
      <4>2. m = 4 - 1
        BY <3>a, <4>1 DEF Advances
      <4> QED
        BY <4>1, <4>2
    <3>4. dn.pending = << >> /\ Grown(dd.txs, dn.txs, Append(dd.pending, c.value))
          /\ Append(dd.pending, c.value) = Wanted(o)[Len(dn.txs)]
      BY <3>a DEF Advances
    <3> QED
      BY <1>1, <1>2, <1>3, <1>6, <1>7, <3>2, <3>3, <3>4, FiredAt
  <2> QED
    BY <2>2, <2>3
<1>20. ASSUME NEW b \in Starts(o), k \in {b + 1, b + 6}, IsRead(c, "INT_STS")
       PROVE  EngineAt(Exec(e, c), o, far, v, k, dn, hh)
  BY <1>13, <1>18, <1>20
<1> QED
  BY <1>7, <1>10, <1>11, <1>12, <1>13, <1>14, <1>15, <1>16, <1>17, <1>19, <1>20 DEF PlainAt

\* Between two moves a command of a stream stands at one of two places.
WordPlace(o, a, k) == k \in {7, Second(o)} /\ a \in {k - 1, k}

\* Every word of a stream of a judged plan keeps the engine in step.
LEMMA WordSteps ==
  ASSUME NEW p, NEW t, NEW d, NEW h, Judged(p, t, d, h), NEW i \in 1 .. Len(p.script), NEW e, NEW k, NEW a,
         WordPlace(p.order, a, k), StreamWrite(p.script[i]),
         NEW j, j = i - 1, EngineAt(e, p.order, p.far, p.sentinel, a, d[j], h[j])
  PROVE  EngineAt(Exec(e, p.script[i]), p.order, p.far, p.sentinel, k, d[i], h[i])
<1> DEFINE c == p.script[i]
<1>1. p.order \in Orders /\ p.sentinel \in Nat
  BY DEF Judged
<1>2. c \in ReadCommand /\ h[i] = PhaseStep(h[i - 1], c) /\ i - 1 \in 0 .. Len(p.script)
  BY ScriptAt
<1>3. c \in Command /\ c.count = 1 /\ c.at \in 0 .. 4
  BY <1>2, CommandAt DEF ReadCommand
<1>4. d[i] = d[i - 1]
  <2>1. ~IsDma(c)
    BY DmaRegsAre DEF IsDma, StreamWrite
  <2> QED
    BY <2>1, TransferStep
<1>5. PhaseOpened(h[i - 1], h[i], c) \/ PhaseGrown(h[i - 1], h[i], c)
  <2>1. h[i - 1] \in [phases : Seq(Contents(p, h)), current : Contents(p, h)]
    BY <1>2, PhasesTyped
  <2> QED
    BY <1>2, <2>1, PhaseSteps
<1>6. EngineAt(Exec(e, c), p.order, p.far, p.sentinel, k, d[i - 1], h[i])
  BY <1>1, <1>3, <1>5, WordAt DEF WordPlace
<1> QED
  BY <1>4, <1>6

\* A plan that the guards of the read probe accept does what the probe needs.
LEMMA JudgedSound ==
  ASSUME NEW p, NEW t, NEW d, NEW h, Judged(p, t, d, h)
  PROVE  Sound(p)
<1> DEFINE s == p.script
<1> DEFINE n == Len(s)
<1> DEFINE o == p.order
<1>1. n \in Nat /\ \A i \in 1 .. n : s[i] \in ReadCommand /\ h[i] = PhaseStep(h[i - 1], s[i])
  BY ScriptAt
<1>2. o \in Orders /\ t[0] = << >> /\ t[n] = ExpectedSchedule(o, p.sentinel) /\ d[0] = DmaStart /\ h[0] = PhaseStart /\ p.sentinel \in Nat
  BY DEF Judged, TokenWalk, NoToken, DmaWalk, PhaseWalk
<1>3. PICK u : EngineWalk(u, s) /\ Run(s) = u[n]
  BY <1>1, EngineUnfolds
<1>4. u[0] = EngineInit /\ \A i \in 1 .. n : u[i] = Exec(u[i - 1], s[i])
  BY <1>3 DEF EngineWalk
<1> DEFINE At(i) == EngineAt(u[i], o, p.far, p.sentinel, Len(t[i]), d[i], h[i])
<1> DEFINE P == {i \in 0 .. n : At(i)}
<1>5. 0 \in P
  <2>1. EngineAt(EngineInit, o, p.far, p.sentinel, 0, DmaStart, PhaseStart)
    BY <1>2, StartsSound
  <2>2. Len(t[0]) = 0
    BY <1>2
  <2>3. At(0)
    BY <1>2, <1>4, <2>1, <2>2
  <2> QED
    BY <1>1, <2>3
<1>6. ASSUME NEW i \in 1 .. n, i - 1 \in P PROVE i \in P
  <2>1. At(i - 1) /\ u[i] = Exec(u[i - 1], s[i]) /\ i \in 0 .. n /\ i - 1 \in 0 .. n
    BY <1>1, <1>4, <1>6
  <2> DEFINE k == Len(t[i])
  <2> DEFINE a == Len(t[i - 1])
  <2>2. StandsAt(s[i], a, o, p.sentinel, k)
    BY CommandStands
  <2>3. EngineAt(u[i - 1], o, p.far, p.sentinel, a, d[i - 1], h[i - 1])
    BY <2>1
  <2>4. CASE StreamWrite(s[i])
    <3>1. k \in {7, Second(o)} /\ a \in {k - 1, k}
      BY <2>2, <2>4 DEF StandsAt
    <3> HIDE DEF k, a
    <3> HIDE DEF P, At
    <3>2. EngineAt(Exec(u[i - 1], s[i]), o, p.far, p.sentinel, k, d[i], h[i])
      <4>1. /\ WordPlace(p.order, a, k) /\ StreamWrite(p.script[i]) /\ i \in 1 .. Len(p.script)
            /\ EngineAt(u[i - 1], p.order, p.far, p.sentinel, a, d[i - 1], h[i - 1])
        BY <2>3, <2>4, <3>1, Zenon DEF WordPlace
      <4>2. EngineAt(Exec(u[i - 1], p.script[i]), p.order, p.far, p.sentinel, k, d[i], h[i])
        <5>1. PICK j : j = i - 1
          OBVIOUS
        <5>2. EngineAt(u[i - 1], p.order, p.far, p.sentinel, a, d[j], h[j])
          BY <4>1, <5>1
        <5> DEFINE e == u[i - 1]
        <5>3. EngineAt(e, p.order, p.far, p.sentinel, a, d[j], h[j])
          BY <5>2
        <5> HIDE DEF e
        <5>4. EngineAt(Exec(e, p.script[i]), p.order, p.far, p.sentinel, k, d[i], h[i])
          BY <4>1, <5>1, <5>3, WordSteps
        <5> QED
          BY <5>4 DEF e
      <4> QED
        BY <4>2
    <3> QED
      BY <2>1, <3>2 DEF k, P, At
  <2>5. CASE ~StreamWrite(s[i])
    <3>1. k \in 1 .. EndOf(o) /\ a = k - 1 /\ PlainAt(s[i], o, p.sentinel, k)
      BY <2>2, <2>5 DEF StandsAt
    <3>2. ~IsDma(s[i]) => d[i] = d[i - 1]
      BY TransferStep
    <3>3. h[i] = h[i - 1]
      <4>1. ~(s[i].form = "mw.l" /\ s[i].reg = "CMD")
        BY <2>5 DEF StreamWrite
      <4> QED
        BY <1>1, <4>1 DEF PhaseStep
    <3>4. k = Len(t[i])
      OBVIOUS
    <3> HIDE DEF k, a
    <3>5. EngineAt(Exec(u[i - 1], s[i]), o, p.far, p.sentinel, k, d[i], h[i])
      BY <2>3, <2>5, <3>1, <3>2, <3>3, <3>4, PlainSteps
    <3> QED
      BY <2>1, <3>5 DEF k
  <2> QED
    BY <2>4, <2>5
<1>7. At(n)
  <2> HIDE DEF P
  <2>1. 0 .. n \subseteq P
    BY <1>1, <1>5, <1>6, UpTo
  <2>2. n \in P
    BY <1>1, <2>1
  <2> QED
    BY <2>2 DEF P
<1> DEFINE e == u[n]
<1> DEFINE k == EndOf(o)
<1>8. EngineAt(e, o, p.far, p.sentinel, k, d[n], h[n])
  <2>1. Len(t[n]) = k
    BY <1>2, SchedulePlaced DEF Placed
  <2> QED
    BY <1>7, <2>1
<1> HIDE DEF e
<1>9. k > 6 /\ k \in Nat /\ ~InFlight(o, k) /\ ~(k < ReadoutPlace(o)) /\ Fired(o, k) = Len(Story(o, p.far))
  <2>1. Len(Story("two-unidirectional", p.far)) = 3 /\ Len(Story("one-bidirectional", p.far)) = 2
    BY StoryIs
  <2>2. k > 6 /\ k \in Nat /\ ~InFlight(o, k) /\ ~(k < ReadoutPlace(o))
    BY <1>2 DEF Orders, EndOf, InFlight, ReadoutPlace
  <2>3. CASE o = "two-unidirectional"
    BY <2>1, <2>2, <2>3 DEF EndOf, Fired
  <2>4. CASE o = "one-bidirectional"
    BY <2>1, <2>2, <2>4 DEF EndOf, Fired
  <2> QED
    BY <1>2, <2>3, <2>4 DEF Orders
<1>10. e.faults = {} /\ e.running = Idle /\ e.readout = << <<"frame", 0>> >>
       /\ {"CACHE", "CTRL", "MCTRL", "PCFG_DONE", "prefill"} \subseteq e.seen
  BY <1>8, <1>9 DEF EngineAt, Buffered, Flight, Shown, GatesSeen
<1>11. e.history = Story(o, p.far)
  <2>1. e.history \in Seq(Stories(o, p.far)) /\ Len(e.history) = Len(Story(o, p.far))
        /\ \A x \in 1 .. Len(e.history) : e.history[x] = Story(o, p.far)[x]
    BY <1>8, <1>9 DEF EngineAt, Told
  <2> DEFINE T == Story(o, p.far)
  <2>2. T = <<T[1], T[2], T[3]>> \/ T = <<T[1], T[2]>>
    BY <1>2, StoryIs DEF Orders
  <2> DEFINE H == e.history
  <2>3. H \in Seq(Stories(o, p.far)) /\ Len(H) = Len(T) /\ \A x \in 1 .. Len(H) : H[x] = T[x]
    BY <2>1
  <2> HIDE DEF T, H
  <2>4. H = T
    <3>1. T = [x \in 1 .. Len(T) |-> T[x]]
      BY <2>2
    <3>2. H = [x \in 1 .. Len(H) |-> H[x]]
      BY <2>3
    <3>3. [x \in 1 .. Len(H) |-> H[x]] = [x \in 1 .. Len(T) |-> T[x]]
      BY <2>3
    <3> QED
      BY <3>1, <3>2, <3>3
  <2> QED
    BY <2>4 DEF H, T
<1>12. Run(p.script) = e
  BY <1>3 DEF e
<1> QED
  BY <1>10, <1>11, <1>12 DEF Sound, Story, Taken

\* Whatever the guards accept of a read plan drives the engine as the probe
\* needs: for every frame address, order and sentinel, and however the script
\* was put together.
LEMMA ReadSound ==
  ASSUME NEW p, p.order \in Orders, p.far \in Nat, p.sentinel \in Nat, p.script \in Seq(ReadCommand),
         Adjudicated(p), ~ZeroFilled(p.script)
  PROVE  Sound(p)
<1> DEFINE s == p.script
<1>1. Len(s) \in Nat
  OBVIOUS
<1>2. PICK t : TokenWalk(t, s) /\ Tokens(s) = t[Len(s)]
  BY <1>1, TokenUnfolds
<1>3. PICK d : DmaWalk(d, s) /\ DmaTransactions(s) = d[Len(s)]
  BY <1>1, DmaUnfolds
<1>4. PICK h : PhaseWalk(h, s) /\ Walk(PhaseStep, PhaseStart, s) = h[Len(s)]
  BY <1>1, PhaseUnfolds
<1>5. CommandBufferPhases(s) = IF h[Len(s)].current = << >> THEN h[Len(s)].phases ELSE Append(h[Len(s)].phases, h[Len(s)].current)
  BY <1>4 DEF CommandBufferPhases, PhaseStart
<1>6. p.sentinel > 0 /\ p.sentinel < WordLimit
  BY PlanAssumption DEF Adjudicated, CheckSentinel
<1>7. CheckAllowlist(s, ReadRegions) /\ CheckRegisterWrites(s)
  BY DEF Adjudicated, CheckValuePolicy
<1>8. t[Len(s)] = ExpectedSchedule(p.order, p.sentinel)
  BY <1>2 DEF Adjudicated, CheckValuePolicy, CheckSchedule
<1>9. d[Len(s)].ordered /\ d[Len(s)].pending = << >>
      /\ d[Len(s)].txs = [i \in DOMAIN ExpectedTransactions(p.order) |-> Transaction[ExpectedTransactions(p.order)[i]]]
  BY <1>3 DEF Adjudicated, CheckValuePolicy, CheckSchedule
<1>10. LET phases == CommandBufferPhases(s)
       IN Len(phases) = 2 /\ IsStream(phases[1], ReadbackStream(p.far)) /\ IsStream(phases[2], CleanupStream)
  BY DEF Adjudicated, CheckValuePolicy
<1>11. Judged(p, t, d, h)
  BY <1>2, <1>3, <1>4, <1>5, <1>6, <1>7, <1>8, <1>9, <1>10 DEF Judged
<1> QED
  BY <1>11, JudgedSound

-----------------------------------------------------------------------------
(* An accepted write plan, and its engine.                                  *)

\* The tokens of a write plan.
PairTok(f, r) == <<f, r>>
CountTok(n) == <<"STREAM", n>>
WriteToken == {PairTok(f, r) : f \in Forms, r \in Regs} \cup {CountTok(n) : n \in Nat}
WordWrite(c) == c.form = "mw.l" /\ c.reg = "WR"
Lengthens(a) == a # << >> /\ a[Len(a)][1] = "STREAM"

\* The elements of the tokens of a write plan.
LEMMA PairParts ==
  /\ \A f, r : PairTok(f, r)[1] = f /\ PairTok(f, r)[2] = r
  /\ \A n : CountTok(n)[1] = "STREAM" /\ CountTok(n)[2] = n
BY DEF PairTok, CountTok

\* What the token of a stream counts is a number.
LEMMA CountTyped ==
  ASSUME NEW x \in WriteToken, x[1] = "STREAM"
  PROVE  x[2] \in Nat
<1>1. CASE \E f \in Forms, r \in Regs : x = PairTok(f, r)
  <2>1. x[1] \in Forms
    BY <1>1, PairParts
  <2> QED
    BY <2>1 DEF Forms
<1>2. CASE \E n \in Nat : x = CountTok(n)
  BY <1>2, PairParts
<1> QED
  BY <1>1, <1>2 DEF WriteToken

\* What one command of a write plan does to its tokens.
LEMMA WriteTokenGrows ==
  ASSUME NEW acc \in Seq(WriteToken), NEW c \in Command
  PROVE  /\ WriteTokenStep(acc, c) \in Seq(WriteToken)
         /\ ~WordWrite(c) => Grown(acc, WriteTokenStep(acc, c), PairTok(c.form, c.reg))
         /\ WordWrite(c) => \E n : Grown(acc, WriteTokenStep(acc, c), CountTok(n))
                                   \/ (Lengthens(acc) /\ Replaced(acc, WriteTokenStep(acc, c), CountTok(n)))
<1>1. c.form \in Forms /\ c.reg \in Regs /\ c.count \in Nat
  BY CommandTyped
<1>2. CASE ~WordWrite(c)
  <2>1. WriteTokenStep(acc, c) = Append(acc, PairTok(c.form, c.reg))
    BY <1>2 DEF WriteTokenStep, WordWrite, PairTok
  <2>2. PairTok(c.form, c.reg) \in WriteToken
    BY <1>1 DEF WriteToken
  <2> QED
    BY <1>2, <2>1, <2>2, GrownIs
<1>3. CASE WordWrite(c) /\ ~Lengthens(acc)
  <2>1. WriteTokenStep(acc, c) = Append(acc, CountTok(c.count))
    BY <1>3 DEF WriteTokenStep, WordWrite, Lengthens, CountTok, Last
  <2>2. CountTok(c.count) \in WriteToken
    BY <1>1 DEF WriteToken
  <2> QED
    BY <1>3, <2>1, <2>2, GrownIs
<1>4. CASE WordWrite(c) /\ Lengthens(acc)
  <2> DEFINE n == acc[Len(acc)][2]
  <2>1. acc # << >> /\ acc[Len(acc)] \in WriteToken /\ acc[Len(acc)][1] = "STREAM"
    BY <1>4 DEF Lengthens
  <2>2. n \in Nat
    BY <2>1, CountTyped
  <2>3. WriteTokenStep(acc, c) = Append(Front(acc), CountTok(n + c.count))
    BY <1>4, <2>1 DEF WriteTokenStep, WordWrite, CountTok, Last
  <2>4. CountTok(n + c.count) \in WriteToken
    BY <1>1, <2>2 DEF WriteToken
  <2> QED
    BY <1>4, <2>1, <2>3, <2>4, ReplacedIs
<1> QED
  BY <1>2, <1>3, <1>4

\* The expected tokens.
WriteSchedule ==
    << PairTok("md.l", "CTRL"), CountTok(WriteWords), PairTok("mw.l", "INT_STS"), PairTok("md.l", "INT_STS") >>
    \o [i \in 1..4 |-> PairTok("mw.l", DmaOrder[i])]
    \o << PairTok("md.l", "INT_STS"), PairTok("md.l", "CTRL") >>

\* The ten places of the schedule of a write plan.
LEMMA WriteScheduleAt ==
  /\ WriteSchedule \in Seq(WriteToken) /\ Len(WriteSchedule) = 10
  /\ WriteSchedule[1] = PairTok("md.l", "CTRL") /\ WriteSchedule[2] = CountTok(12)
  /\ WriteSchedule[3] = PairTok("mw.l", "INT_STS") /\ WriteSchedule[4] = PairTok("md.l", "INT_STS")
  /\ \A j \in 1 .. 4 : WriteSchedule[4 + j] = PairTok("mw.l", DmaOrder[j])
  /\ WriteSchedule[9] = PairTok("md.l", "INT_STS") /\ WriteSchedule[10] = PairTok("md.l", "CTRL")
<1> DEFINE a == << PairTok("md.l", "CTRL"), CountTok(WriteWords), PairTok("mw.l", "INT_STS"), PairTok("md.l", "INT_STS") >>
<1> DEFINE b == [i \in 1..4 |-> PairTok("mw.l", DmaOrder[i])]
<1> DEFINE c == << PairTok("md.l", "INT_STS"), PairTok("md.l", "CTRL") >>
<1>1. /\ \A f \in Forms, r \in Regs : PairTok(f, r) \in WriteToken
      /\ CountTok(12) \in WriteToken /\ WriteWords = 12
  BY DEF WriteToken, WriteWords
<1>2. /\ "md.l" \in Forms /\ "mw.l" \in Forms /\ "CTRL" \in Regs /\ "INT_STS" \in Regs
      /\ \A j \in 1 .. 4 : DmaOrder[j] \in Regs
  BY DEF Forms, Regs, DmaOrder
<1>3. /\ a \in Seq(WriteToken) /\ Len(a) = 4 /\ a[1] = PairTok("md.l", "CTRL") /\ a[2] = CountTok(12)
      /\ a[3] = PairTok("mw.l", "INT_STS") /\ a[4] = PairTok("md.l", "INT_STS")
  BY <1>1, <1>2
<1>4. b \in Seq(WriteToken) /\ Len(b) = 4 /\ \A j \in 1 .. 4 : b[j] = PairTok("mw.l", DmaOrder[j])
  BY <1>1, <1>2
<1>5. c \in Seq(WriteToken) /\ Len(c) = 2 /\ c[1] = PairTok("md.l", "INT_STS") /\ c[2] = PairTok("md.l", "CTRL")
  BY <1>1, <1>2
<1> HIDE DEF a, b, c
<1> DEFINE d == a \o b
<1>6. d \in Seq(WriteToken) /\ Joined(d, a, b)
  BY <1>3, <1>4, ConcatAt
<1>7. Len(d) = 8 /\ d[1] = a[1] /\ d[2] = a[2] /\ d[3] = a[3] /\ d[4] = a[4] /\ \A j \in 1 .. 4 : d[4 + j] = b[j]
  <2> HIDE DEF d
  <2> QED
    BY <1>3, <1>4, <1>6 DEF Joined
<1>8. WriteSchedule = d \o c
  BY DEF WriteSchedule, a, b, c, d
<1> HIDE DEF d
<1>9. WriteSchedule \in Seq(WriteToken) /\ Joined(WriteSchedule, d, c)
  BY <1>5, <1>6, <1>8, ConcatAt
<1>10. Len(WriteSchedule) = 10 /\ (\A j \in 1 .. 8 : WriteSchedule[j] = d[j]) /\ WriteSchedule[9] = c[1] /\ WriteSchedule[10] = c[2]
  BY <1>5, <1>7, <1>9 DEF Joined
<1> QED
  BY <1>3, <1>4, <1>5, <1>7, <1>9, <1>10

\* A write plan that the guards accept, and their walk over it.
JudgedWrite(s, t) ==
    /\ s \in Seq(Command) /\ CheckCommands(s)
    /\ WriteTokenWalk(t, s) /\ t[Len(s)] = WriteSchedule

WriteFrozen(a, X) ==
    /\ a \in Seq(WriteToken) /\ Len(a) <= Len(X)
    /\ \A j \in 1 .. Len(a) :
         \/ a[j] = X[j]
         \/ j = Len(a) /\ X[j][1] = "STREAM" /\ a[j][1] = "STREAM"

\* Tokens that fit the schedule of a write plan fitted it one command earlier.
LEMMA WriteFrozenBefore ==
  ASSUME NEW X \in Seq(WriteToken), NEW a \in Seq(WriteToken), NEW c \in Command, WriteFrozen(WriteTokenStep(a, c), X)
  PROVE  WriteFrozen(a, X) /\ Len(a) <= Len(WriteTokenStep(a, c))
<1> DEFINE b == WriteTokenStep(a, c)
<1>1. Len(a) \in Nat /\ Len(X) \in Nat
  OBVIOUS
<1>2. CASE \E x : Grown(a, b, x)
  <2> HIDE DEF b
  <2>1. WriteFrozen(b, X)
    BY DEF b
  <2>2. Len(b) = Len(a) + 1 /\ \A j \in 1 .. Len(a) : b[j] = a[j]
    BY <1>2 DEF Grown
  <2>3. \A j \in 1 .. Len(a) : a[j] = X[j]
    BY <1>1, <2>1, <2>2 DEF WriteFrozen
  <2> QED
    BY <1>1, <2>1, <2>2, <2>3 DEF WriteFrozen, b
<1>3. CASE Lengthens(a) /\ \E n : Replaced(a, b, CountTok(n))
  <2> HIDE DEF b
  <2>1. WriteFrozen(b, X)
    BY DEF b
  <2>2. PICK n : Replaced(a, b, CountTok(n))
    BY <1>3
  <2>3. Len(b) = Len(a) /\ Len(a) > 0 /\ b[Len(a)] = CountTok(n) /\ \A j \in 1 .. Len(a) : j # Len(a) => b[j] = a[j]
    BY <2>2 DEF Replaced
  <2>4. \A j \in 1 .. Len(a) : j # Len(a) => a[j] = X[j]
    BY <1>1, <2>1, <2>3 DEF WriteFrozen
  <2>5. X[Len(a)][1] = "STREAM"
    BY <1>1, <2>1, <2>3, PairParts DEF WriteFrozen
  <2>6. a[Len(a)][1] = "STREAM"
    BY <1>3 DEF Lengthens
  <2> QED
    BY <1>1, <2>1, <2>3, <2>4, <2>5, <2>6 DEF WriteFrozen, b
<1> QED
  BY <1>2, <1>3, WriteTokenGrows

\* The tokens of a judged write plan fit its schedule at every command.
LEMMA WriteTokensFrozen ==
  ASSUME NEW s, NEW t, JudgedWrite(s, t)
  PROVE  /\ Len(s) \in Nat
         /\ \A i \in 1 .. Len(s) : s[i] \in Command /\ t[i] = WriteTokenStep(t[i - 1], s[i])
         /\ \A i \in 0 .. Len(s) : WriteFrozen(t[i], WriteSchedule)
         /\ \A i \in 1 .. Len(s) : Len(t[i - 1]) <= Len(t[i])
<1> DEFINE n == Len(s)
<1> DEFINE X == WriteSchedule
<1>1. n \in Nat /\ s \in Seq(Command) /\ \A i \in 1 .. n : s[i] \in Command /\ t[i] = WriteTokenStep(t[i - 1], s[i])
  BY DEF JudgedWrite, WriteTokenWalk
<1>2. t[0] = << >> /\ t[n] = X
  BY DEF JudgedWrite, WriteTokenWalk, NoToken
<1>3. X \in Seq(WriteToken)
  BY WriteScheduleAt
<1> HIDE DEF n, X
<1> DEFINE P == {i \in 0 .. n : t[i] \in Seq(WriteToken)}
<1>4. 0 .. n \subseteq P
  <2>1. 0 \in P
    <3>1. << >> \in Seq(WriteToken)
      OBVIOUS
    <3>2. t[0] \in Seq(WriteToken)
      BY <1>2, <3>1
    <3> QED
      BY <1>1, <3>2
  <2>2. ASSUME NEW i \in 1 .. n, i - 1 \in P PROVE i \in P
    <3>1. i \in 0 .. n /\ t[i - 1] \in Seq(WriteToken)
      BY <1>1, <2>2
    <3>2. WriteTokenStep(t[i - 1], s[i]) \in Seq(WriteToken)
      BY <1>1, <3>1, WriteTokenGrows
    <3> QED
      BY <1>1, <3>1, <3>2
  <2> HIDE DEF P
  <2> QED
    BY <1>1, <2>1, <2>2, UpTo
<1> DEFINE Q == {i \in 0 .. n : WriteFrozen(t[i], X)}
<1>a. ASSUME NEW i \in 1 .. n, i \in Q PROVE i - 1 \in Q /\ Len(t[i - 1]) <= Len(t[i])
  <2>1. i - 1 \in 0 .. n /\ t[i - 1] \in Seq(WriteToken)
    BY <1>1, <1>4
  <2>2. WriteFrozen(WriteTokenStep(t[i - 1], s[i]), X)
    BY <1>1, <1>a
  <2>3. WriteFrozen(t[i - 1], X) /\ Len(t[i - 1]) <= Len(t[i])
    BY <1>1, <1>3, <2>1, <2>2, WriteFrozenBefore
  <2> QED
    BY <2>1, <2>3
<1>5. 0 .. n \subseteq Q
  <2>1. n \in Q
    BY <1>1, <1>2, <1>3 DEF WriteFrozen
  <2> HIDE DEF Q
  <2> QED
    BY <1>1, <1>a, <2>1, DownTo
<1>6. \A i \in 1 .. n : Len(t[i - 1]) <= Len(t[i])
  <2> TAKE i \in 1 .. n
  <2>1. i \in Q
    BY <1>1, <1>5
  <2> QED
    BY <1>a, <2>1
<1> QED
  BY <1>1, <1>5, <1>6 DEF X, n

\* Where a command of an accepted write plan stands.
WritePlainAt(c, k) ==
    \/ k \in {1, 10} /\ IsRead(c, "CTRL")
    \/ k = 3 /\ IsWrite(c, "INT_STS")
    \/ k \in {4, 9} /\ IsRead(c, "INT_STS")
    \/ \E j \in 1 .. 4 : k = 4 + j /\ IsWrite(c, DmaOrder[j])
WriteStandsAt(c, a, k) ==
    /\ a \in Nat /\ k \in 1 .. 10
    /\ \/ WordWrite(c) /\ k = 2 /\ a \in {1, 2}
       \/ ~WordWrite(c) /\ a = k - 1 /\ WritePlainAt(c, k)

\* Every command of a judged write plan stands at its place of the schedule.
LEMMA WriteCommandStands ==
  ASSUME NEW s, NEW t, JudgedWrite(s, t), NEW i \in 1 .. Len(s)
  PROVE  WriteStandsAt(s[i], Len(t[i - 1]), Len(t[i]))
<1> DEFINE X == WriteSchedule
<1> DEFINE c == s[i]
<1> DEFINE a == t[i - 1]
<1> DEFINE b == t[i]
<1>1. Len(s) \in Nat /\ c \in Command /\ b = WriteTokenStep(a, c) /\ WriteFrozen(a, X) /\ WriteFrozen(b, X)
  <2>1. Len(s) \in Nat
    BY WriteTokensFrozen
  <2>2. i - 1 \in 0 .. Len(s) /\ i \in 0 .. Len(s)
    BY <2>1
  <2> QED
    BY <2>1, <2>2, WriteTokensFrozen
<1>2. a \in Seq(WriteToken) /\ b \in Seq(WriteToken) /\ Len(a) \in Nat /\ Len(b) \in Nat
  BY <1>1 DEF WriteFrozen
<1>3. /\ Len(X) = 10 /\ X[1] = PairTok("md.l", "CTRL") /\ X[2] = CountTok(12)
      /\ X[3] = PairTok("mw.l", "INT_STS") /\ X[4] = PairTok("md.l", "INT_STS")
      /\ \A j \in 1 .. 4 : X[4 + j] = PairTok("mw.l", DmaOrder[j])
      /\ X[9] = PairTok("md.l", "INT_STS") /\ X[10] = PairTok("md.l", "CTRL")
  BY WriteScheduleAt
<1>4. c.form \in Forms
  BY <1>1, CommandTyped
<1> HIDE DEF X, c, a, b
<1>5. \A k \in 1 .. 10 : k \in {1, 2, 3, 4, 9, 10} \/ \E j \in 1 .. 4 : k = 4 + j
  <2> TAKE k \in 1 .. 10
  <2>1. k \in {1, 2, 3, 4, 9, 10} \/ k \in 5 .. 8
    OBVIOUS
  <2>2. ASSUME k \in 5 .. 8 PROVE \E j \in 1 .. 4 : k = 4 + j
    <3>1. k - 4 \in 1 .. 4 /\ k = 4 + (k - 4)
      BY <2>2
    <3> QED
      BY <3>1
  <2> QED
    BY <2>1, <2>2
<1>6. CASE ~WordWrite(c)
  <2> DEFINE k == Len(b)
  <2>1. Grown(a, b, PairTok(c.form, c.reg))
    BY <1>1, <1>2, <1>6, WriteTokenGrows
  <2>2. Len(b) = Len(a) + 1 /\ b[Len(a) + 1] = PairTok(c.form, c.reg)
    BY <2>1 DEF Grown
  <2>3. k \in 1 .. 10 /\ Len(a) = k - 1 /\ b[k] = PairTok(c.form, c.reg)
    BY <1>1, <1>2, <1>3, <2>2 DEF WriteFrozen
  <2>4. b[k][1] # "STREAM"
    BY <1>4, <2>3, PairParts DEF Forms
  <2>5. X[k] = PairTok(c.form, c.reg)
    BY <1>1, <2>3, <2>4 DEF WriteFrozen
  <2> HIDE DEF k
  <2>6. /\ k = 1 \/ k = 10 => IsRead(c, "CTRL")
        /\ k = 3 => IsWrite(c, "INT_STS")
        /\ k = 4 \/ k = 9 => IsRead(c, "INT_STS")
        /\ k # 2
        /\ \A j \in 1 .. 4 : k = 4 + j => IsWrite(c, DmaOrder[j])
    <3>1. \A f, r : X[k] = PairTok(f, r) => c.form = f /\ c.reg = r
      <4> TAKE f, r
      <4>1. X[k][1] = c.form /\ X[k][2] = c.reg
        BY <2>5, PairParts
      <4>2. PairTok(f, r)[1] = f /\ PairTok(f, r)[2] = r
        BY PairParts
      <4> QED
        BY <4>1, <4>2
    <3>2. X[k] # CountTok(12)
      BY <1>4, <2>5, PairParts DEF Forms
    <3> QED
      BY <1>3, <3>1, <3>2 DEF IsRead, IsWrite
  <2>7. WritePlainAt(c, k)
    BY <1>5, <2>3, <2>6 DEF WritePlainAt
  <2> QED
    BY <1>2, <1>6, <2>3, <2>7 DEF WriteStandsAt, a, b, c, k
<1>7. CASE WordWrite(c)
  <2> DEFINE k == Len(b)
  <2>1. k > 0 /\ (Len(a) = k - 1 \/ Len(a) = k) /\ b[k][1] = "STREAM"
    <3>1. PICK n : Grown(a, b, CountTok(n)) \/ (Lengthens(a) /\ Replaced(a, b, CountTok(n)))
      BY <1>1, <1>2, <1>7, WriteTokenGrows
    <3> QED
      BY <1>2, <3>1, PairParts DEF Grown, Replaced
  <2>2. k \in 1 .. 10 /\ X[k][1] = "STREAM"
    <3>1. Len(b) <= Len(X) /\ \A j \in 1 .. Len(b) : b[j] = X[j] \/ X[j][1] = "STREAM"
      BY <1>1 DEF WriteFrozen
    <3>2. k \in 1 .. 10 /\ k \in 1 .. Len(b)
      <4>1. k \in Nat /\ k > 0 /\ k <= 10
        BY <1>2, <1>3, <2>1, <3>1
      <4>2. PICK m \in Nat : Len(b) = m
        BY <1>2
      <4>3. m > 0 /\ m <= 10
        BY <4>1, <4>2
      <4>4. m \in 1 .. 10 /\ m \in 1 .. m
        BY <4>3
      <4> QED
        BY <4>2, <4>4
    <3>3. b[k] = X[k] \/ X[k][1] = "STREAM"
      BY <3>1, <3>2
    <3> QED
      BY <2>1, <3>2, <3>3
  <2> HIDE DEF k
  <2>3. k = 2
    <3>1. \A r : PairTok("md.l", r)[1] = "md.l" /\ PairTok("mw.l", r)[1] = "mw.l"
      BY PairParts
    <3> QED
      BY <1>3, <1>5, <2>2, <3>1
  <2> QED
    BY <1>2, <1>7, <2>1, <2>2, <2>3 DEF WriteStandsAt, a, b, c, k
<1> QED
  BY <1>6, <1>7

\* The engine after the k-th token of a write plan whose buffer holds a stream.
Handed(k) == LET T == WriteTransaction IN
    IF k = 5 THEN <<T[1]>> ELSE IF k = 6 THEN <<T[1], T[2]>> ELSE IF k = 7 THEN <<T[1], T[2], T[3]>> ELSE << >>
WriteBuffer(e) == /\ DOMAIN e = Fields /\ e.faults = {}
                  /\ DOMAIN e.buf = StreamBuffers /\ DOMAIN e.buf["WR"] = 0 .. 11
WriteTold(e, k, stream) == e.history = IF k < 8 THEN << >> ELSE << <<WriteTransaction, stream>> >>
WriteAt(e, k, stream) ==
    /\ WriteBuffer(e) /\ WriteTold(e, k, stream) /\ e.regs = Handed(k)
    /\ e.running = IF k = 8 THEN WriteTransaction ELSE Idle
    /\ (k = 3 => ~e.done) /\ (k \in 4 .. 7 => e.cleared)

\* Reading the control register keeps the engine in step with a write plan.
LEMMA WriteGateAt ==
  ASSUME NEW e, NEW k \in 1 .. 10, NEW c \in Command, NEW stream, WriteAt(e, k - 1, stream), k \in {1, 10}, IsRead(c, "CTRL")
  PROVE  WriteAt(Exec(e, c), k, stream) /\ Exec(e, c).buf = e.buf
<1> DEFINE f == Exec(e, c)
<1>1. (k = 1 \/ k = 10) /\ "CTRL" \in {"CTRL", "MCTRL"}
  OBVIOUS
<1>2. /\ WriteBuffer(e) /\ WriteTold(e, k - 1, stream) /\ e.regs = Handed(k - 1)
      /\ e.running = IF k - 1 = 8 THEN WriteTransaction ELSE Idle
      /\ (k - 1 = 3 => ~e.done) /\ (k - 1 \in 4 .. 7 => e.cleared)
  BY DEF WriteAt
<1>3. DOMAIN e = Fields
  BY <1>2 DEF WriteBuffer
<1>p. e.running = Idle
  BY <1>1, <1>2
<1>q. k = 4 => ~e.done
  BY <1>1, <1>2
<1>4. Keeps(e, f, {"seen"})
  BY <1>1, <1>3, <1>p, ExecGate
<1> HIDE DEF f
<1>5. DOMAIN f = Fields
  BY <1>4 DEF Keeps
<1>6. f.buf = e.buf /\ f.dst = e.dst /\ f.regs = e.regs /\ f.running = e.running /\ f.done = e.done /\ f.cleared = e.cleared /\ f.history = e.history /\ f.readout = e.readout /\ f.faults = e.faults
  BY <1>4, KeepsIs
<1>7. WriteBuffer(f)
  BY <1>2, <1>5, <1>6 DEF WriteBuffer
<1>8. WriteTold(f, k, stream)
  BY <1>1, <1>2, <1>6 DEF WriteTold
<1>9. f.regs = Handed(k)
  BY <1>1, <1>2, <1>6 DEF Handed
<1>10. f.running = IF k = 8 THEN WriteTransaction ELSE Idle
  BY <1>1, <1>2, <1>6
<1>11. k = 3 => ~f.done
  BY <1>1, <1>6
<1>12. k \in 4 .. 7 => f.cleared
  BY <1>1, <1>6
<1> QED
  BY <1>6, <1>7, <1>8, <1>9, <1>10, <1>11, <1>12 DEF WriteAt, f

\* Clearing the status keeps the engine in step with a write plan.
LEMMA WriteClearAt ==
  ASSUME NEW e, NEW k \in 1 .. 10, NEW c \in Command, NEW stream, WriteAt(e, k - 1, stream), k = 3, IsWrite(c, "INT_STS")
  PROVE  WriteAt(Exec(e, c), k, stream) /\ Exec(e, c).buf = e.buf
<1> DEFINE f == Exec(e, c)
<1>1. k = 3
  OBVIOUS
<1>2. /\ WriteBuffer(e) /\ WriteTold(e, k - 1, stream) /\ e.regs = Handed(k - 1)
      /\ e.running = IF k - 1 = 8 THEN WriteTransaction ELSE Idle
      /\ (k - 1 = 3 => ~e.done) /\ (k - 1 \in 4 .. 7 => e.cleared)
  BY DEF WriteAt
<1>3. DOMAIN e = Fields
  BY <1>2 DEF WriteBuffer
<1>p. e.running = Idle
  BY <1>1, <1>2
<1>q. k = 4 => ~e.done
  BY <1>1, <1>2
<1>4. Keeps(e, f, {"done"}) /\ f.done = FALSE
  BY <1>1, <1>3, <1>p, ExecClear
<1> HIDE DEF f
<1>5. DOMAIN f = Fields
  BY <1>4 DEF Keeps
<1>6. f.buf = e.buf /\ f.dst = e.dst /\ f.regs = e.regs /\ f.running = e.running /\ f.cleared = e.cleared /\ f.seen = e.seen /\ f.history = e.history /\ f.readout = e.readout /\ f.faults = e.faults
  BY <1>4, KeepsIs
<1>7. WriteBuffer(f)
  BY <1>2, <1>5, <1>6 DEF WriteBuffer
<1>8. WriteTold(f, k, stream)
  BY <1>1, <1>2, <1>6 DEF WriteTold
<1>9. f.regs = Handed(k)
  BY <1>1, <1>2, <1>6 DEF Handed
<1>10. f.running = IF k = 8 THEN WriteTransaction ELSE Idle
  BY <1>1, <1>2, <1>6
<1>11. k = 3 => ~f.done
  BY <1>1, <1>4
<1>12. k \in 4 .. 7 => f.cleared
  BY <1>1, <1>6
<1> QED
  BY <1>6, <1>7, <1>8, <1>9, <1>10, <1>11, <1>12 DEF WriteAt, f

\* Reading the status keeps the engine in step with a write plan.
LEMMA WriteStatusAt ==
  ASSUME NEW e, NEW k \in 1 .. 10, NEW c \in Command, NEW stream, WriteAt(e, k - 1, stream), k = 4, IsRead(c, "INT_STS")
  PROVE  WriteAt(Exec(e, c), k, stream) /\ Exec(e, c).buf = e.buf
<1> DEFINE f == Exec(e, c)
<1>1. k = 4
  OBVIOUS
<1>2. /\ WriteBuffer(e) /\ WriteTold(e, k - 1, stream) /\ e.regs = Handed(k - 1)
      /\ e.running = IF k - 1 = 8 THEN WriteTransaction ELSE Idle
      /\ (k - 1 = 3 => ~e.done) /\ (k - 1 \in 4 .. 7 => e.cleared)
  BY DEF WriteAt
<1>3. DOMAIN e = Fields
  BY <1>2 DEF WriteBuffer
<1>p. e.running = Idle
  BY <1>1, <1>2
<1>q. k = 4 => ~e.done
  BY <1>1, <1>2
<1>4. Keeps(e, f, {"cleared", "seen"}) /\ f.cleared = ~e.done
  BY <1>1, <1>3, <1>p, ExecStatus
<1> HIDE DEF f
<1>5. DOMAIN f = Fields
  BY <1>4 DEF Keeps
<1>6. f.buf = e.buf /\ f.dst = e.dst /\ f.regs = e.regs /\ f.running = e.running /\ f.done = e.done /\ f.history = e.history /\ f.readout = e.readout /\ f.faults = e.faults
  BY <1>4, KeepsIs
<1>7. WriteBuffer(f)
  BY <1>2, <1>5, <1>6 DEF WriteBuffer
<1>8. WriteTold(f, k, stream)
  BY <1>1, <1>2, <1>6 DEF WriteTold
<1>9. f.regs = Handed(k)
  BY <1>1, <1>2, <1>6 DEF Handed
<1>10. f.running = IF k = 8 THEN WriteTransaction ELSE Idle
  BY <1>1, <1>2, <1>6
<1>11. k = 3 => ~f.done
  BY <1>1, <1>6
<1>12. k \in 4 .. 7 => f.cleared
  BY <1>1, <1>4, <1>q
<1> QED
  BY <1>6, <1>7, <1>8, <1>9, <1>10, <1>11, <1>12 DEF WriteAt, f

\* The wait that ends the transfer keeps the engine in step with a write plan.
LEMMA WriteWaitAt ==
  ASSUME NEW e, NEW k \in 1 .. 10, NEW c \in Command, NEW stream, WriteAt(e, k - 1, stream), k = 9, IsRead(c, "INT_STS")
  PROVE  WriteAt(Exec(e, c), k, stream) /\ Exec(e, c).buf = e.buf
<1> DEFINE f == Exec(e, c)
<1>1. k = 9 /\ WriteTransaction # Idle
  BY DEF WriteTransaction, Idle
<1>2. /\ WriteBuffer(e) /\ WriteTold(e, k - 1, stream) /\ e.regs = Handed(k - 1)
      /\ e.running = IF k - 1 = 8 THEN WriteTransaction ELSE Idle
      /\ (k - 1 = 3 => ~e.done) /\ (k - 1 \in 4 .. 7 => e.cleared)
  BY DEF WriteAt
<1>3. DOMAIN e = Fields
  BY <1>2 DEF WriteBuffer
<1>p. e.running # Idle
  BY <1>1, <1>2
<1>q. k = 4 => ~e.done
  BY <1>1, <1>2
<1>4. Keeps(e, f, {"running", "done", "dst"}) /\ f.running = Idle
  BY <1>1, <1>3, <1>p, ExecWait
<1> HIDE DEF f
<1>5. DOMAIN f = Fields
  BY <1>4 DEF Keeps
<1>6. f.buf = e.buf /\ f.regs = e.regs /\ f.cleared = e.cleared /\ f.seen = e.seen /\ f.history = e.history /\ f.readout = e.readout /\ f.faults = e.faults
  BY <1>4, KeepsIs
<1>7. WriteBuffer(f)
  BY <1>2, <1>5, <1>6 DEF WriteBuffer
<1>8. WriteTold(f, k, stream)
  BY <1>1, <1>2, <1>6 DEF WriteTold
<1>9. f.regs = Handed(k)
  BY <1>1, <1>2, <1>6 DEF Handed
<1>10. f.running = IF k = 8 THEN WriteTransaction ELSE Idle
  BY <1>1, <1>2, <1>4
<1>11. k = 3 => ~f.done
  BY <1>1, <1>6
<1>12. k \in 4 .. 7 => f.cleared
  BY <1>1, <1>6
<1> QED
  BY <1>6, <1>7, <1>8, <1>9, <1>10, <1>11, <1>12 DEF WriteAt, f

\* A word of the stream keeps the engine in step with a write plan.
LEMMA WriteWordAt ==
  ASSUME NEW e, NEW a \in {1, 2}, NEW c \in Command, NEW stream, WriteAt(e, a, stream), WordWrite(c), c.count = 1
  PROVE  /\ WriteAt(Exec(e, c), 2, stream)
         /\ Exec(e, c).buf["WR"] = [x \in DOMAIN e.buf["WR"] |-> IF x = c.at THEN c.value ELSE e.buf["WR"][x]]
<1> DEFINE f == Exec(e, c)
<1>2. /\ WriteBuffer(e) /\ WriteTold(e, a, stream) /\ e.regs = Handed(a) /\ e.running = Idle
  BY DEF WriteAt
<1>3. DOMAIN e = Fields /\ DOMAIN e.buf = StreamBuffers
  BY <1>2 DEF WriteBuffer
<1>4. /\ Keeps(e, f, {"buf"}) /\ DOMAIN f.buf = StreamBuffers
      /\ f.buf["WR"] = [x \in DOMAIN e.buf["WR"] |-> IF x = c.at THEN c.value ELSE e.buf["WR"][x]]
  <2>1. "WR" \in StreamBuffers /\ IsWrite(c, "WR")
    BY DEF StreamBuffers, IsWrite, WordWrite
  <2> QED
    BY <1>2, <1>3, <2>1, ExecWord
<1> HIDE DEF f
<1>5. DOMAIN f = Fields
  BY <1>4 DEF Keeps
<1>6. f.regs = e.regs /\ f.running = e.running /\ f.history = e.history /\ f.faults = e.faults
  BY <1>4, KeepsIs
<1>7. WriteBuffer(f)
  BY <1>2, <1>4, <1>5, <1>6 DEF WriteBuffer
<1>8. WriteTold(f, 2, stream) /\ f.regs = Handed(2) /\ f.running = Idle
  BY <1>2, <1>6 DEF WriteTold, Handed
<1> QED
  BY <1>4, <1>7, <1>8 DEF WriteAt, f

\* The registers handed to the engine grow by one.
LEMMA HandedOn ==
  ASSUME NEW j \in 1 .. 4, NEW x, x = WriteTransaction[j]
  PROVE  /\ Len(Append(Handed(3 + j), x)) = j
         /\ j < 4 => Append(Handed(3 + j), x) = Handed(4 + j)
         /\ j = 4 => Append(Handed(3 + j), x) = WriteTransaction
<1>1. WriteTransaction = <<WriteTransaction[1], WriteTransaction[2], WriteTransaction[3], WriteTransaction[4]>>
  BY DEF WriteTransaction
<1> DEFINE T == WriteTransaction
<1> DEFINE T1 == <<T[1]>>
<1> DEFINE T2 == <<T[1], T[2]>>
<1> DEFINE T3 == <<T[1], T[2], T[3]>>
<1>a. T1 = Append(<< >>, T[1]) /\ T2 = Append(T1, T[2]) /\ T3 = Append(T2, T[3]) /\ <<T[1], T[2], T[3], T[4]>> = Append(T3, T[4])
      /\ Len(T1) = 1 /\ Len(T2) = 2 /\ Len(T3) = 3 /\ Len(<<T[1], T[2], T[3], T[4]>>) = 4
  <2> HIDE DEF T
  <2> QED
    OBVIOUS
<1>b. Handed(4) = << >> /\ Handed(5) = T1 /\ Handed(6) = T2 /\ Handed(7) = T3
  BY DEF Handed
<1> HIDE DEF T1, T2, T3
<1>c. T = Append(T3, T[4])
  BY <1>1, <1>a DEF T
<1>d. Len(T) = 4
  BY <1>1, <1>a DEF T
<1>2. CASE j = 1
  <2>1. 3 + j = 4 /\ 4 + j = 5 /\ x = T[1] /\ j # 4
    BY <1>2
  <2> HIDE DEF T
  <2>2. Append(Handed(3 + j), x) = Handed(4 + j)
    BY <1>a, <1>b, <2>1
  <2>3. Len(Handed(4 + j)) = j
    BY <1>2, <1>a, <1>b, <2>1
  <2> QED
    BY <2>1, <2>2, <2>3
<1>3. CASE j = 2
  <2>1. 3 + j = 5 /\ 4 + j = 6 /\ x = T[2] /\ j # 4
    BY <1>3
  <2> HIDE DEF T
  <2>2. Append(Handed(3 + j), x) = Handed(4 + j)
    BY <1>a, <1>b, <2>1
  <2>3. Len(Handed(4 + j)) = j
    BY <1>3, <1>a, <1>b, <2>1
  <2> QED
    BY <2>1, <2>2, <2>3
<1>4. CASE j = 3
  <2>1. 3 + j = 6 /\ 4 + j = 7 /\ x = T[3] /\ j # 4
    BY <1>4
  <2> HIDE DEF T
  <2>2. Append(Handed(3 + j), x) = Handed(4 + j)
    BY <1>a, <1>b, <2>1
  <2>3. Len(Handed(4 + j)) = j
    BY <1>4, <1>a, <1>b, <2>1
  <2> QED
    BY <2>1, <2>2, <2>3
<1>5. CASE j = 4
  <2>1. 3 + j = 7 /\ x = T[4]
    BY <1>5
  <2>3. T = WriteTransaction
    OBVIOUS
  <2> HIDE DEF T
  <2>2. Append(Handed(3 + j), x) = T
    BY <1>b, <1>c, <2>1
  <2>4. Len(Append(Handed(3 + j), x)) = 4
    BY <1>d, <2>2
  <2>5. Append(Handed(3 + j), x) = WriteTransaction
    BY <2>2, <2>3
  <2> QED
    BY <1>5, <2>4, <2>5
<1> QED
  BY <1>2, <1>3, <1>4, <1>5

\* One of the first three registers keeps the engine in step with a write plan.
LEMMA WriteRegisterAt ==
  ASSUME NEW e, NEW j \in 1 .. 3, NEW k, k = 4 + j, NEW c \in Command, NEW stream, WriteAt(e, k - 1, stream),
         IsWrite(c, DmaOrder[j]), c.value = WriteTransaction[j]
  PROVE  WriteAt(Exec(e, c), k, stream) /\ Exec(e, c).buf = e.buf
<1> DEFINE f == Exec(e, c)
<1>1. j \in 1 .. 4 /\ j < 4 /\ k - 1 = 3 + j /\ k \in {5, 6, 7} /\ k - 1 < 8 /\ k - 1 \in 4 .. 7
  OBVIOUS
<1>2. /\ WriteBuffer(e) /\ WriteTold(e, k - 1, stream) /\ e.regs = Handed(k - 1)
      /\ e.running = Idle /\ e.cleared
  BY <1>1 DEF WriteAt
<1>3. DOMAIN e = Fields
  BY <1>2 DEF WriteBuffer
<1>r. Len(Append(e.regs, c.value)) = j /\ Append(e.regs, c.value) = Handed(k)
  <2>1. Append(e.regs, c.value) = Append(Handed(3 + j), c.value)
    BY <1>1, <1>2
  <2> QED
    BY <1>1, <2>1, HandedOn
<1>4. Keeps(e, f, {"regs"}) /\ f.regs = Handed(k)
  <2>1. IsWrite(c, DmaOrder[j])
    OBVIOUS
  <2>2. Len(Append(e.regs, c.value)) = j
    BY <1>r
  <2>3. LET next == [e EXCEPT !.regs = Append(e.regs, c.value)] IN
        Keeps(e, next, {"regs"}) /\ next.regs = Append(e.regs, c.value) /\ f = next
    BY <1>1, <1>3, <2>1, <2>2, ExecRegister
  <2> QED
    BY <1>r, <2>3
<1> HIDE DEF f
<1>5. DOMAIN f = Fields
  BY <1>4 DEF Keeps
<1>6. f.buf = e.buf /\ f.running = e.running /\ f.cleared = e.cleared /\ f.history = e.history /\ f.faults = e.faults
  BY <1>4, KeepsIs
<1>7. WriteBuffer(f)
  BY <1>2, <1>5, <1>6 DEF WriteBuffer
<1>8. WriteTold(f, k, stream)
  BY <1>1, <1>2, <1>6 DEF WriteTold
<1>9. f.running = IF k = 8 THEN WriteTransaction ELSE Idle
  BY <1>1, <1>2, <1>6
<1>10. (k = 3 => ~f.done) /\ (k \in 4 .. 7 => f.cleared)
  BY <1>1, <1>2, <1>6
<1> QED
  BY <1>4, <1>6, <1>7, <1>8, <1>9, <1>10 DEF WriteAt, f

\* The fourth register keeps the engine in step: it fetches the whole stream.
LEMMA WriteFiredAt ==
  ASSUME NEW e, NEW c \in Command, NEW stream \in Seq(Word), Len(stream) = 12, WriteAt(e, 7, stream),
         IsWrite(c, DmaOrder[4]), c.value = WriteTransaction[4],
         \A x \in 1 .. 12 : e.buf["WR"][x - 1] = stream[x]
  PROVE  WriteAt(Exec(e, c), 8, stream) /\ Exec(e, c).buf = e.buf
<1> DEFINE f == Exec(e, c)
<1> DEFINE g == [e EXCEPT !.regs = Append(e.regs, c.value)]
<1>2. /\ WriteBuffer(e) /\ WriteTold(e, 7, stream) /\ e.regs = Handed(7)
      /\ e.running = Idle /\ e.cleared
  BY DEF WriteAt
<1>3. DOMAIN e = Fields
  BY <1>2 DEF WriteBuffer
<1>r. Len(Append(e.regs, c.value)) = 4 /\ Append(e.regs, c.value) = WriteTransaction
  <2>1. 4 \in 1 .. 4 /\ 3 + 4 = 7
    OBVIOUS
  <2>2. Append(e.regs, c.value) = Append(Handed(3 + 4), c.value)
    BY <1>2, <2>1
  <2> QED
    BY <2>1, <2>2, HandedOn
<1>4. Keeps(e, g, {"regs"}) /\ g.regs = WriteTransaction /\ f = Fire(g)
  <2>1. IsWrite(c, DmaOrder[4]) /\ 4 \in 1 .. 4
    OBVIOUS
  <2> QED
    BY <1>3, <1>r, <2>1, ExecRegister
<1> HIDE DEF f, g
<1>5. DOMAIN g = Fields
  BY <1>4 DEF Keeps
<1>6. g.buf = e.buf /\ g.running = e.running /\ g.cleared = e.cleared /\ g.history = e.history /\ g.faults = e.faults
  BY <1>4, KeepsIs
<1>7. /\ WriteTransaction[1][1] = "WR" /\ WriteTransaction[3][2] = 12 /\ WriteTransaction[2] # DstBuf
      /\ RegionSize("WR") = 12 /\ "WR" \in StreamBuffers
  BY DEF WriteTransaction, Pcap, DstBuf, Length, WriteWords, RegionSize, StreamBuffers
<1>8. /\ Keeps(g, f, {"running", "regs", "cleared", "history"})
      /\ f.running = g.regs /\ f.regs = << >> /\ f.history = Append(g.history, <<g.regs, Fetched(g, g.regs)>>)
  BY <1>2, <1>4, <1>5, <1>6, <1>7, FireIs
<1>9. Fetched(g, g.regs) = stream
  <2>1. \A x \in 1 .. 12 : g.buf["WR"][x - 1] = stream[x]
    BY <1>6
  <2>2. g.regs[1][1] = "WR" /\ g.regs[3][2] = 12
    BY <1>4, <1>7
  <2>3. Fetched(g, g.regs) = [x \in 1 .. 12 |-> IF x <= 12 THEN g.buf["WR"][x - 1] ELSE Noop]
    BY <1>7, <2>2 DEF Fetched
  <2>4. [x \in 1 .. 12 |-> IF x <= 12 THEN g.buf["WR"][x - 1] ELSE Noop] = [x \in 1 .. 12 |-> stream[x]]
    BY <2>1
  <2>5. stream = [x \in 1 .. 12 |-> stream[x]]
    OBVIOUS
  <2> QED
    BY <2>3, <2>4, <2>5
<1>10. f.buf = g.buf /\ f.faults = g.faults /\ DOMAIN f = Fields
  BY <1>8 DEF Keeps, Fields
<1>11. WriteBuffer(f)
  BY <1>2, <1>6, <1>10 DEF WriteBuffer
<1>12. WriteTold(f, 8, stream)
  <2>1. g.history = << >>
    BY <1>2, <1>6 DEF WriteTold
  <2>2. f.history = << <<WriteTransaction, stream>> >>
    BY <1>4, <1>8, <1>9, <2>1
  <2> QED
    BY <2>2 DEF WriteTold
<1>13. f.running = WriteTransaction /\ f.regs = Handed(8)
  BY <1>4, <1>8 DEF Handed
<1> QED
  BY <1>6, <1>10, <1>11, <1>12, <1>13 DEF WriteAt, f

\* What the commands of a write plan may be: any, but that a word of the buffer
\* is written by itself.
WriteCommand == {c \in Command : WordWrite(c) => c.count = 1}

\* The words of an accepted write plan: each once, none left out.
LEMMA WordsOnce ==
  ASSUME NEW s \in Seq(WriteCommand), CheckCommands(s)
  PROVE  /\ \A i \in 1 .. Len(s) : WordWrite(s[i]) => s[i].at \in 0 .. 11 /\ s[i].count = 1
         /\ \A i, j \in 1 .. Len(s) : WordWrite(s[i]) /\ WordWrite(s[j]) /\ i # j => s[i].at # s[j].at
         /\ \A x \in 1 .. 12 : \E i \in 1 .. Len(s) : WordWrite(s[i]) /\ s[i].at = x - 1
<1> DEFINE At(i) == IF s[i].form = "mw.l" /\ s[i].reg = "WR" THEN s[i].at..(s[i].at + s[i].count - 1) ELSE {}
<1>1. DOMAIN s = 1 .. Len(s) /\ \A i \in 1 .. Len(s) : s[i] \in WriteCommand /\ s[i].at \in Nat /\ s[i].count \in Nat
  BY CommandTyped DEF WriteCommand
<1>2. /\ \A i, j \in DOMAIN s : i # j => At(i) \cap At(j) = {}
      /\ UNION {At(i) : i \in DOMAIN s} = 0..(WriteWords - 1)
  BY DEF CheckCommands, WrittenOnce
<1>3. WriteWords - 1 = 11
  BY DEF WriteWords
<1>4. ASSUME NEW i \in 1 .. Len(s), WordWrite(s[i]) PROVE s[i].count = 1 /\ At(i) = {s[i].at}
  <2>1. s[i].count = 1
    BY <1>1, <1>4 DEF WriteCommand
  <2>2. \A n \in Nat : n .. (n + 1 - 1) = {n}
    OBVIOUS
  <2> QED
    BY <1>1, <1>4, <2>1, <2>2 DEF WordWrite
<1>5. \A i \in 1 .. Len(s) : ~WordWrite(s[i]) => At(i) = {}
  BY DEF WordWrite
<1> HIDE DEF At
<1>6. ASSUME NEW i \in 1 .. Len(s), WordWrite(s[i]) PROVE s[i].at \in 0 .. 11 /\ s[i].count = 1
  BY <1>1, <1>2, <1>3, <1>4, <1>6
<1>7. ASSUME NEW i \in 1 .. Len(s), NEW j \in 1 .. Len(s), WordWrite(s[i]), WordWrite(s[j]), i # j PROVE s[i].at # s[j].at
  BY <1>1, <1>2, <1>4, <1>7
<1>8. ASSUME NEW x \in 1 .. 12 PROVE \E i \in 1 .. Len(s) : WordWrite(s[i]) /\ s[i].at = x - 1
  <2>1. x - 1 \in 0 .. 11
    OBVIOUS
  <2>a. x - 1 \in UNION {At(i) : i \in DOMAIN s}
    BY <1>2, <1>3, <2>1
  <2>b. PICK U \in {At(i) : i \in DOMAIN s} : x - 1 \in U
    BY <2>a
  <2>2. PICK i \in 1 .. Len(s) : x - 1 \in At(i)
    BY <1>1, <2>b
  <2> QED
    BY <1>4, <1>5, <2>2
<1> QED
  BY <1>6, <1>7, <1>8

\* The stream of an accepted write plan: each word is what some command wrote there.
LEMMA StreamOfIs ==
  ASSUME NEW s \in Seq(WriteCommand), CheckCommands(s)
  PROVE  /\ StreamOf(s) \in Seq(Word) /\ Len(StreamOf(s)) = 12
         /\ \A i \in 1 .. Len(s) : WordWrite(s[i]) => StreamOf(s)[s[i].at + 1] = s[i].value
<1> DEFINE Writes(i, x) == s[i].form = "mw.l" /\ s[i].reg = "WR" /\ x - 1 \in s[i].at..(s[i].at + s[i].count - 1)
<1> DEFINE S == StreamOf(s)
<1>1. DOMAIN s = 1 .. Len(s) /\ \A i \in 1 .. Len(s) : s[i] \in WriteCommand /\ s[i].at \in Nat /\ s[i].value \in Word
  BY CommandTyped DEF WriteCommand
<1>2. S = [x \in 1 .. 12 |-> s[CHOOSE i \in DOMAIN s : Writes(i, x)].value]
  BY DEF StreamOf, WriteWords
<1>3. \A i \in 1 .. Len(s) : \A x \in 1 .. 12 : Writes(i, x) <=> WordWrite(s[i]) /\ s[i].at = x - 1
  <2> TAKE i \in 1 .. Len(s)
  <2> TAKE x \in 1 .. 12
  <2>1. WordWrite(s[i]) => s[i].count = 1
    BY WordsOnce
  <2>2. \A n \in Nat : n .. (n + 1 - 1) = {n}
    OBVIOUS
  <2> QED
    BY <1>1, <2>1, <2>2 DEF WordWrite
<1> HIDE DEF Writes
<1>4. ASSUME NEW x \in 1 .. 12
      PROVE  \E i \in 1 .. Len(s) : WordWrite(s[i]) /\ s[i].at = x - 1 /\ S[x] = s[i].value
  <2> DEFINE i == CHOOSE i \in DOMAIN s : Writes(i, x)
  <2>1. PICK j \in 1 .. Len(s) : WordWrite(s[j]) /\ s[j].at = x - 1
    BY WordsOnce
  <2>2. \E y \in DOMAIN s : Writes(y, x)
    BY <1>1, <1>3, <2>1
  <2>3. i \in DOMAIN s /\ Writes(i, x)
    BY <2>2
  <2>4. S[x] = s[i].value
    BY <1>2
  <2> HIDE DEF i
  <2> QED
    BY <1>1, <1>3, <2>3, <2>4
<1>5. S = [x \in 1 .. 12 |-> S[x]]
  BY <1>2
<1> HIDE DEF S
<1>6. \A x \in 1 .. 12 : S[x] \in Word
  BY <1>1, <1>4
<1>7. S \in Seq(Word) /\ Len(S) = 12
  BY <1>5, <1>6
<1>8. ASSUME NEW i \in 1 .. Len(s), WordWrite(s[i]) PROVE S[s[i].at + 1] = s[i].value
  <2>1. s[i].at \in 0 .. 11
    BY <1>8, WordsOnce
  <2> DEFINE x == s[i].at + 1
  <2>2. x \in 1 .. 12 /\ x - 1 = s[i].at
    BY <2>1
  <2>3. PICK j \in 1 .. Len(s) : WordWrite(s[j]) /\ s[j].at = x - 1 /\ S[x] = s[j].value
    BY <1>4, <2>2
  <2>4. i = j
    <3>1. s[i].at = s[j].at
      BY <2>2, <2>3
    <3>2. \A a, b \in 1 .. Len(s) : WordWrite(s[a]) /\ WordWrite(s[b]) /\ a # b => s[a].at # s[b].at
      BY WordsOnce
    <3> QED
      BY <1>8, <2>3, <3>1, <3>2
  <2> QED
    BY <2>3, <2>4
<1> QED
  BY <1>7, <1>8 DEF S

\* The register writes of an accepted write plan are those of its transaction.
Gathered(q, s, i) == \A j \in 1 .. i : IsDma(s[j]) => \E y \in 1 .. Len(q) : q[y] = s[j]

\* The registers of an accepted write plan are written as the transfer has them.
LEMMA RegistersKept ==
  ASSUME NEW s \in Seq(WriteCommand), CheckCommands(s), NEW i \in 1 .. Len(s), NEW j \in 1 .. 4, IsWrite(s[i], DmaOrder[j])
  PROVE  s[i].value = WriteTransaction[j]
<1> DEFINE n == Len(s)
<1> DEFINE C == [x \in 1 .. 4 |-> Write(DmaOrder[x], 0, WriteTransaction[x], 1)]
<1>1. n \in Nat /\ \A x \in 1 .. n : s[x] \in Command
  BY DEF WriteCommand
<1>2. PICK r : RegisterWalk(r, s) /\ Walk(RegisterStep, << >>, s) = r[n]
  BY <1>1, RegisterUnfolds DEF NoToken
<1>3. r[n] = C /\ r[0] = << >> /\ \A x \in 1 .. n : r[x] = RegisterStep(r[x - 1], s[x])
  BY <1>2 DEF CheckCommands, RegisterWalk, NoToken
<1> DEFINE P == {x \in 0 .. n : r[x] \in Seq(Command) /\ Gathered(r[x], s, x)}
<1>4. 0 \in P
  <2>1. << >> \in Seq(Command) /\ 1 .. 0 = {}
    OBVIOUS
  <2>2. Gathered(r[0], s, 0)
    BY <2>1 DEF Gathered
  <2>3. r[0] \in Seq(Command)
    BY <1>3, <2>1
  <2> QED
    BY <1>1, <2>2, <2>3
<1>5. ASSUME NEW x \in 1 .. n, x - 1 \in P PROVE x \in P
  <2> DEFINE a == r[x - 1]
  <2> DEFINE b == r[x]
  <2>1. a \in Seq(Command) /\ Gathered(a, s, x - 1) /\ s[x] \in Command /\ x \in 0 .. n
    BY <1>1, <1>5
  <2>2. b = IF IsDma(s[x]) THEN Append(a, s[x]) ELSE a
    BY <1>3 DEF RegisterStep, IsDma
  <2>3. \A y \in 1 .. x : y \in 1 .. (x - 1) \/ y = x
    OBVIOUS
  <2> HIDE DEF a, b
  <2>4. CASE IsDma(s[x])
    <3>1. b \in Seq(Command) /\ Grown(a, b, s[x])
      BY <2>1, <2>2, <2>4, GrownIs
    <3>2. PICK m \in Nat : Len(a) = m
      BY <2>1
    <3>3. Len(b) = m + 1 /\ b[m + 1] = s[x] /\ \A y \in 1 .. m : b[y] = a[y]
      BY <3>1, <3>2 DEF Grown
    <3>4. m + 1 \in 1 .. Len(b) /\ \A y \in 1 .. m : y \in 1 .. Len(b)
      BY <3>3
    <3>5. ASSUME NEW y \in 1 .. x, IsDma(s[y]) PROVE \E z \in 1 .. Len(b) : b[z] = s[y]
      <4>1. CASE y = x
        BY <3>3, <3>4, <4>1
      <4>2. CASE y \in 1 .. (x - 1)
        <5>1. PICK z \in 1 .. m : a[z] = s[y]
          BY <2>1, <3>2, <3>5, <4>2 DEF Gathered
        <5> QED
          BY <3>3, <3>4, <5>1
      <4> QED
        BY <2>3, <4>1, <4>2
    <3>6. Gathered(b, s, x)
      BY <3>5 DEF Gathered
    <3> QED
      BY <2>1, <3>1, <3>6 DEF b
  <2>5. CASE ~IsDma(s[x])
    <3>1. Gathered(b, s, x)
      BY <2>1, <2>2, <2>3, <2>5 DEF Gathered
    <3> QED
      BY <2>1, <2>2, <2>5, <3>1 DEF b
  <2> QED
    BY <2>4, <2>5
<1>6. Gathered(C, s, n)
  <2> HIDE DEF P
  <2>1. 0 .. n \subseteq P
    BY <1>1, <1>4, <1>5, UpTo
  <2>2. n \in P
    BY <1>1, <2>1
  <2> QED
    BY <1>3, <2>2 DEF P
<1>7. IsDma(s[i]) /\ s[i].reg = DmaOrder[j]
  BY DmaRegsAre DEF IsWrite, IsDma, DmaOrder
<1>8. Len(C) = 4 /\ \A x \in 1 .. 4 : C[x] = Write(DmaOrder[x], 0, WriteTransaction[x], 1)
  OBVIOUS
<1> HIDE DEF C
<1>9. PICK x \in 1 .. 4 : C[x] = s[i]
  BY <1>6, <1>7, <1>8 DEF Gathered
<1>10. s[i].reg = DmaOrder[x] /\ s[i].value = WriteTransaction[x]
  BY <1>8, <1>9 DEF Write
<1>11. \A a, b \in 1 .. 4 : DmaOrder[a] = DmaOrder[b] => a = b
  BY DEF DmaOrder
<1> QED
  BY <1>7, <1>10, <1>11

\* The walk over the words of a stream.
\* The elements of four appended ones.
LEMMA FourIs ==
  ASSUME NEW S, NEW a \in S, NEW b \in S, NEW c \in S, NEW d \in S
  PROVE  /\ LET q == Append(Append(Append(Append(<< >>, a), b), c), d)
            IN  Len(q) = 4 /\ q[1] = a /\ q[2] = b /\ q[3] = c /\ q[4] = d
         /\ LET q == Append(<<a, b, c>>, d)
            IN  Len(q) = 4 /\ q[1] = a /\ q[2] = b /\ q[3] = c /\ q[4] = d
<1> DEFINE q1 == Append(<< >>, a)
<1> DEFINE q2 == Append(q1, b)
<1> DEFINE q3 == Append(q2, c)
<1> DEFINE q4 == Append(q3, d)
<1>1. << >> \in Seq(S) /\ Len(<< >>) = 0
  OBVIOUS
<1>2. q1 \in Seq(S) /\ Grown(<< >>, q1, a)
  BY <1>1, GrownIs
<1> HIDE DEF q1
<1>3. q2 \in Seq(S) /\ Grown(q1, q2, b)
  BY <1>2, GrownIs
<1> HIDE DEF q2
<1>4. q3 \in Seq(S) /\ Grown(q2, q3, c)
  BY <1>3, GrownIs
<1> HIDE DEF q3
<1>5. q4 \in Seq(S) /\ Grown(q3, q4, d)
  BY <1>4, GrownIs
<1> HIDE DEF q4
<1>6. Len(q1) = 1 /\ q1[1] = a
  BY <1>1, <1>2 DEF Grown
<1>7. Len(q2) = 2 /\ q2[1] = a /\ q2[2] = b
  BY <1>3, <1>6 DEF Grown
<1>8. Len(q3) = 3 /\ q3[1] = a /\ q3[2] = b /\ q3[3] = c
  BY <1>4, <1>7 DEF Grown
<1>9. Len(q4) = 4 /\ q4[1] = a /\ q4[2] = b /\ q4[3] = c /\ q4[4] = d
  BY <1>5, <1>8 DEF Grown
<1> DEFINE r == <<a, b, c>>
<1>10. r \in Seq(S) /\ Len(r) = 3 /\ r[1] = a /\ r[2] = b /\ r[3] = c
  OBVIOUS
<1> DEFINE q == Append(r, d)
<1> HIDE DEF r
<1>11. Grown(r, q, d)
  BY <1>10, GrownIs
<1> HIDE DEF q
<1>12. Len(q) = 4 /\ q[1] = a /\ q[2] = b /\ q[3] = c /\ q[4] = d
  BY <1>10, <1>11 DEF Grown
<1> QED
  BY <1>9, <1>12 DEF q1, q2, q3, q4, q, r

\* The words of the stream of a pattern.
LEMMA WriteStreamAt ==
  ASSUME NEW p \in Patterns
  PROVE  LET W == WriteStream(p) IN
         /\ W \in Seq(Word) /\ Len(W) = 12
         /\ W[1] = <<"SYNC", 0>> /\ W[2] = <<"RCRC", 0>> /\ W[3] = <<"IDCODE", 0>> /\ W[4] = <<"WCFG", 0>>
         /\ W[5] = FarWord(TargetFar) /\ W[6] = <<"FDRI", 4>> /\ W[7] = <<"init", p>> /\ W[8] = <<"ecc", p>>
         /\ W[9] = <<"rest", 0>> /\ W[10] = PadFrame /\ W[11] = <<"DESYNC", 0>> /\ W[12] = Noop
<1> DEFINE a == << <<"SYNC", 0>>, <<"RCRC", 0>>, <<"IDCODE", 0>>, <<"WCFG", 0>>, FarWord(TargetFar), <<"FDRI", 4>> >>
<1> DEFINE b == FrameOf(p)
<1> DEFINE c == << PadFrame, <<"DESYNC", 0>>, Noop >>
<1>1. /\ a \in Seq(Word) /\ Len(a) = 6
      /\ a[1] = <<"SYNC", 0>> /\ a[2] = <<"RCRC", 0>> /\ a[3] = <<"IDCODE", 0>> /\ a[4] = <<"WCFG", 0>>
      /\ a[5] = FarWord(TargetFar) /\ a[6] = <<"FDRI", 4>>
  BY DEF Word, Names, FarWord, TargetFar
<1>2. b \in Seq(Word) /\ Len(b) = 3 /\ b[1] = <<"init", p>> /\ b[2] = <<"ecc", p>> /\ b[3] = <<"rest", 0>>
  BY DEF Word, Names, FrameOf, Patterns
<1>3. c \in Seq(Word) /\ Len(c) = 3 /\ c[1] = PadFrame /\ c[2] = <<"DESYNC", 0>> /\ c[3] = Noop
  BY DEF Word, Names, PadFrame, Noop
<1>4. WriteStream(p) = a \o b \o c
  BY DEF WriteStream
<1> HIDE DEF a, b, c
<1> DEFINE ab == a \o b
<1>5. ab \in Seq(Word) /\ Joined(ab, a, b)
  BY <1>1, <1>2, ConcatAt
<1>6. WriteStream(p) = ab \o c
  BY <1>4
<1> HIDE DEF ab
<1>7. /\ Len(ab) = 9 /\ ab[1] = a[1] /\ ab[2] = a[2] /\ ab[3] = a[3] /\ ab[4] = a[4] /\ ab[5] = a[5] /\ ab[6] = a[6]
      /\ ab[7] = b[1] /\ ab[8] = b[2] /\ ab[9] = b[3]
  BY <1>1, <1>2, <1>5 DEF Joined
<1> DEFINE W == WriteStream(p)
<1>8. W \in Seq(Word) /\ Joined(W, ab, c)
  BY <1>3, <1>5, <1>6, ConcatAt
<1> HIDE DEF W
<1>9. /\ Len(W) = 12 /\ (\A x \in 1 .. 9 : W[x] = ab[x])
      /\ W[10] = c[1] /\ W[11] = c[2] /\ W[12] = c[3]
  BY <1>3, <1>7, <1>8 DEF Joined
<1> QED
  BY <1>1, <1>2, <1>3, <1>7, <1>8, <1>9 DEF W

StreamFields == {"skip", "data", "cmds", "far", "bursts", "legal"}
ConfigFields == {"lost", "left", "heard", "cmds", "far", "bursts", "data"}

\* What the guard's walk makes of a word that it does not refuse.
DataTaken(a, b, w) == a.skip > 0 /\ b = [a EXCEPT !.skip = a.skip - 1, !.data = Append(a.data, w)]
Passed(a, b, w) == ~(a.skip > 0) /\ (w = Noop \/ w = <<"IDCODE", 0>>) /\ b = a
Obeyed(a, b, w) == ~(a.skip > 0) /\ w[1] \in {"RCRC", "WCFG", "DESYNC"} /\ b = [a EXCEPT !.cmds = Append(a.cmds, w[1])]
Addressed(a, b, w) == ~(a.skip > 0) /\ w = FarWord(TargetFar) /\ b = [a EXCEPT !.far = TRUE]
Opened(a, b, w) == ~(a.skip > 0) /\ w = <<"FDRI", 4>> /\ a.far /\ b = [a EXCEPT !.skip = 4, !.bursts = a.bursts + 1]
LEMMA StreamSteps ==
  ASSUME NEW a, DOMAIN a = StreamFields, NEW w
  PROVE  LET b == StreamStep(a, w) IN
         /\ DOMAIN b = StreamFields
         /\ b.legal => /\ a.legal
                       /\ DataTaken(a, b, w) \/ Passed(a, b, w) \/ Obeyed(a, b, w) \/ Addressed(a, b, w) \/ Opened(a, b, w)
<1> DEFINE b == StreamStep(a, w)
<1>1. \/ DataTaken(a, b, w) \/ Passed(a, b, w) \/ Obeyed(a, b, w) \/ Addressed(a, b, w) \/ Opened(a, b, w)
      \/ b = [a EXCEPT !.legal = FALSE]
  BY DEF StreamStep, DataTaken, Passed, Obeyed, Addressed, Opened
<1> HIDE DEF b
<1>2. b = [a EXCEPT !.legal = FALSE] => DOMAIN b = StreamFields /\ b.legal = FALSE
  BY DEF StreamFields
<1>3. ASSUME DataTaken(a, b, w) \/ Passed(a, b, w) \/ Obeyed(a, b, w) \/ Addressed(a, b, w) \/ Opened(a, b, w)
      PROVE  DOMAIN b = StreamFields /\ b.legal = a.legal
  BY <1>3 DEF StreamFields, DataTaken, Passed, Obeyed, Addressed, Opened
<1> QED
  BY <1>1, <1>2, <1>3 DEF b

\* The guard's walk a and the configuration logic d agree after the first x
\* words of W.
Ready(d) == Readiness \subseteq d.heard
Matched(a, d, x, W) ==
    /\ DOMAIN a = StreamFields /\ DOMAIN d = ConfigFields
    /\ a.skip \in 0 .. 4 /\ a.bursts \in Nat
    /\ d.lost = 0 /\ d.left = a.skip /\ d.data = a.data /\ d.cmds = a.cmds
    /\ a.far => d.far = TargetFar
    /\ d.bursts = IF a.bursts = 0 THEN {} ELSE {<<TargetFar, TRUE>>}
    /\ Ready(d) \/ (a.bursts = 0 /\ a.skip = 0 /\ \A j \in 1 .. x : W[j] \in d.heard)

\* What the configuration logic does with a word outside a burst.
LEMMA ConfigSteps ==
  ASSUME NEW d, DOMAIN d = ConfigFields, d.lost = 0, d.left = 0, NEW w \in Word
  PROVE  LET e == ConfigStep(d, w) IN
         /\ DOMAIN e = ConfigFields /\ e.heard = d.heard \cup {w} /\ e.data = d.data
         /\ w[1] \in CommandWords =>
              /\ e.lost = w[2] /\ e.cmds = Append(d.cmds, w[1])
              /\ e.left = d.left /\ e.far = d.far /\ e.bursts = d.bursts
         /\ w[1] = "FAR" =>
              /\ e.far = w[2]
              /\ e.left = d.left /\ e.lost = d.lost /\ e.cmds = d.cmds /\ e.bursts = d.bursts
         /\ w[1] = "FDRI" =>
              /\ e.left = w[2] /\ e.bursts = d.bursts \cup {<<d.far, Ready(d)>>}
              /\ e.far = d.far /\ e.lost = d.lost /\ e.cmds = d.cmds
         /\ w[1] \notin CommandWords \cup {"FAR", "FDRI"} =>
              e.left = d.left /\ e.far = d.far /\ e.lost = d.lost /\ e.cmds = d.cmds /\ e.bursts = d.bursts
<1> DEFINE e == ConfigStep(d, w)
<1> DEFINE h == [d EXCEPT !.heard = d.heard \cup {w}]
<1>1. /\ DOMAIN h = ConfigFields /\ h.heard = d.heard \cup {w} /\ h.data = d.data /\ h.cmds = d.cmds /\ h.lost = d.lost
      /\ h.far = d.far /\ h.left = d.left /\ h.bursts = d.bursts
  BY DEF ConfigFields
<1>2. e = CASE w[1] \in CommandWords -> [h EXCEPT !.cmds = Append(h.cmds, w[1]), !.lost = w[2]]
            [] w[1] = "FAR" -> [h EXCEPT !.far = w[2]]
            [] w[1] = "FDRI" -> [h EXCEPT !.left = w[2], !.bursts = h.bursts \cup {<<d.far, Ready(d)>>}]
            [] OTHER -> h
  BY DEF ConfigStep, Ready
<1> HIDE DEF h, e
<1>3. CASE w[1] \in CommandWords
  <2>1. e = [h EXCEPT !.cmds = Append(h.cmds, w[1]), !.lost = w[2]]
    BY <1>2, <1>3 DEF CommandWords
  <2>2. w[1] # "FAR" /\ w[1] # "FDRI"
    BY <1>3 DEF CommandWords
  <2> QED
    BY <1>1, <1>3, <2>1, <2>2 DEF ConfigFields, e
<1>4. CASE w[1] = "FAR"
  <2>1. e = [h EXCEPT !.far = w[2]] /\ w[1] \notin CommandWords /\ w[1] # "FDRI"
    BY <1>2, <1>4 DEF CommandWords
  <2> QED
    BY <1>1, <1>4, <2>1 DEF ConfigFields, e
<1>5. CASE w[1] = "FDRI"
  <2>1. e = [h EXCEPT !.left = w[2], !.bursts = h.bursts \cup {<<d.far, Ready(d)>>}]
        /\ w[1] \notin CommandWords /\ w[1] # "FAR"
    BY <1>2, <1>5 DEF CommandWords
  <2> QED
    BY <1>1, <1>5, <2>1 DEF ConfigFields, e
<1>6. CASE w[1] \notin CommandWords \cup {"FAR", "FDRI"}
  <2>1. e = h
    BY <1>2, <1>6
  <2> QED
    BY <1>1, <1>6, <2>1 DEF e
<1> QED
  BY <1>3, <1>4, <1>5, <1>6

\* A word the guard does not refuse keeps them agreed, outside the holes.
LEMMA MatchOn ==
  ASSUME NEW W \in Seq(Word), ~Unready(W), ~Miscounted(W), NEW x \in Nat, x + 1 \in DOMAIN W,
         NEW a, NEW d, Matched(a, d, x, W), StreamStep(a, W[x + 1]).legal
  PROVE  Matched(StreamStep(a, W[x + 1]), ConfigStep(d, W[x + 1]), x + 1, W)
<1> DEFINE w == W[x + 1]
<1> DEFINE b == StreamStep(a, w)
<1> DEFINE e == ConfigStep(d, w)
<1>1. /\ w \in Word /\ w[1] \in CommandWords => w[2] = 0
      /\ \A j \in 1 .. (x + 1) : j \in 1 .. x \/ j = x + 1
      /\ w[1] = "FDRI" => Readiness \subseteq {W[j] : j \in 1 .. x}
  <2>1. w \in Word /\ w[1] \in CommandWords => w[2] = 0
    BY DEF Miscounted
  <2>2. x + 1 - 1 = x /\ \A j \in 1 .. (x + 1) : j \in 1 .. x \/ j = x + 1
    OBVIOUS
  <2>3. w[1] = "FDRI" => Readiness \subseteq {W[j] : j \in 1 .. (x + 1 - 1)}
    BY DEF Unready
  <2> QED
    BY <2>1, <2>2, <2>3
<1>2. /\ DOMAIN a = StreamFields /\ DOMAIN d = ConfigFields /\ a.skip \in 0 .. 4 /\ a.bursts \in Nat
      /\ d.lost = 0 /\ d.left = a.skip /\ d.data = a.data /\ d.cmds = a.cmds
      /\ a.far => d.far = TargetFar
      /\ d.bursts = IF a.bursts = 0 THEN {} ELSE {<<TargetFar, TRUE>>}
      /\ Ready(d) \/ (a.bursts = 0 /\ a.skip = 0 /\ \A j \in 1 .. x : W[j] \in d.heard)
  BY DEF Matched
<1>3. /\ DOMAIN b = StreamFields
      /\ DataTaken(a, b, w) \/ Passed(a, b, w) \/ Obeyed(a, b, w) \/ Addressed(a, b, w) \/ Opened(a, b, w)
  BY <1>2, StreamSteps
<1>s. w \in Word
  BY DEF Word
<1> HIDE DEF w, b, e
<1> SUFFICES Matched(b, e, x + 1, W)
  BY DEF b, e, w
<1>4. CASE DataTaken(a, b, w)
  <2>1. b = [a EXCEPT !.skip = a.skip - 1, !.data = Append(a.data, w)] /\ a.skip > 0
    BY <1>4 DEF DataTaken
  <2>2. e = [d EXCEPT !.left = a.skip - 1, !.data = Append(a.data, w)]
    BY <1>2, <2>1 DEF ConfigStep, e
  <2>3. /\ b.skip = a.skip - 1 /\ b.skip \in 0 .. 4 /\ b.data = Append(a.data, w) /\ b.cmds = a.cmds /\ b.far = a.far
        /\ b.bursts = a.bursts
    BY <1>2, <2>1 DEF StreamFields
  <2>4. /\ DOMAIN e = ConfigFields /\ e.left = a.skip - 1 /\ e.data = Append(a.data, w) /\ e.cmds = d.cmds /\ e.far = d.far
        /\ e.bursts = d.bursts /\ e.lost = d.lost /\ e.heard = d.heard
    BY <1>2, <2>2 DEF ConfigFields
  <2>5. Ready(d)
    BY <1>2, <2>1
  <2>6. Ready(e)
    BY <2>4, <2>5 DEF Ready
  <2> QED
    BY <1>2, <1>3, <2>3, <2>4, <2>6 DEF Matched
<1>5. ASSUME ~(a.skip > 0) PROVE d.left = 0 /\ a.skip = 0 /\ DOMAIN d = ConfigFields /\ d.lost = 0
  BY <1>2, <1>5
<1>6. ASSUME ~(a.skip > 0), w[1] # "FDRI" PROVE Ready(e) \/ (a.bursts = 0 /\ \A j \in 1 .. (x + 1) : W[j] \in e.heard)
  <2>1. e.heard = d.heard \cup {w}
    BY <1>5, <1>6, <1>s, ConfigSteps DEF e
  <2>2. Ready(d) => Ready(e)
    BY <2>1 DEF Ready
  <2> QED
    BY <1>1, <1>2, <2>1, <2>2 DEF w
<1>7. CASE Passed(a, b, w)
  <2>1. b = a /\ ~(a.skip > 0) /\ w[1] \notin CommandWords \cup {"FAR", "FDRI"}
    BY <1>7 DEF Passed, Noop, CommandWords
  <2>2. /\ DOMAIN e = ConfigFields /\ e.data = d.data
        /\ e.left = d.left /\ e.far = d.far /\ e.lost = d.lost /\ e.cmds = d.cmds /\ e.bursts = d.bursts
    BY <1>5, <1>s, <2>1, ConfigSteps DEF e
  <2> QED
    BY <1>2, <1>5, <1>6, <2>1, <2>2 DEF Matched
<1>8. CASE Obeyed(a, b, w)
  <2>1. b = [a EXCEPT !.cmds = Append(a.cmds, w[1])] /\ ~(a.skip > 0) /\ w[1] \in CommandWords /\ w[1] # "FDRI"
    BY <1>8 DEF Obeyed, CommandWords
  <2>2. /\ DOMAIN e = ConfigFields /\ e.data = d.data /\ e.lost = w[2] /\ e.cmds = Append(d.cmds, w[1])
        /\ e.left = d.left /\ e.far = d.far /\ e.bursts = d.bursts
    BY <1>5, <1>s, <2>1, ConfigSteps DEF e
  <2>3. b.skip = a.skip /\ b.data = a.data /\ b.cmds = Append(a.cmds, w[1]) /\ b.far = a.far /\ b.bursts = a.bursts
    BY <1>2, <2>1 DEF StreamFields
  <2>4. e.lost = 0 /\ e.left = b.skip /\ e.cmds = b.cmds /\ b.skip = 0
    <3>1. w[2] = 0
      BY <1>1, <1>s, <2>1
    <3>2. a.skip = 0 /\ d.left = 0
      BY <1>5, <2>1
    <3> QED
      BY <1>2, <2>2, <2>3, <3>1, <3>2
  <2>5. Ready(e) \/ (b.bursts = 0 /\ \A j \in 1 .. (x + 1) : W[j] \in e.heard)
    BY <1>6, <2>1, <2>3
  <2> QED
    BY <1>2, <1>3, <2>2, <2>3, <2>4, <2>5 DEF Matched
<1>9. CASE Addressed(a, b, w)
  <2>1. b = [a EXCEPT !.far = TRUE] /\ ~(a.skip > 0) /\ w[1] = "FAR" /\ w[2] = TargetFar /\ w[1] # "FDRI"
    BY <1>9 DEF Addressed, FarWord
  <2>2. /\ DOMAIN e = ConfigFields /\ e.data = d.data /\ e.far = TargetFar
        /\ e.left = d.left /\ e.lost = d.lost /\ e.cmds = d.cmds /\ e.bursts = d.bursts
    BY <1>5, <1>s, <2>1, ConfigSteps DEF e
  <2>3. b.skip = a.skip /\ b.data = a.data /\ b.cmds = a.cmds /\ b.bursts = a.bursts
    BY <1>2, <2>1 DEF StreamFields
  <2> QED
    BY <1>2, <1>3, <1>5, <1>6, <2>1, <2>2, <2>3 DEF Matched
<1>10. CASE Opened(a, b, w)
  <2>1. b = [a EXCEPT !.skip = 4, !.bursts = a.bursts + 1] /\ ~(a.skip > 0) /\ a.far /\ w[1] = "FDRI" /\ w[2] = 4
    BY <1>10 DEF Opened
  <2>2. /\ DOMAIN e = ConfigFields /\ e.data = d.data /\ e.heard = d.heard \cup {w} /\ e.left = 4
        /\ e.bursts = d.bursts \cup {<<d.far, Ready(d)>>} /\ e.far = d.far /\ e.lost = d.lost /\ e.cmds = d.cmds
    BY <1>5, <1>s, <2>1, ConfigSteps DEF e
  <2>3. Ready(d)
    BY <1>1, <1>2, <2>1 DEF Ready
  <2>4. Ready(e) /\ e.bursts = {<<TargetFar, TRUE>>}
    <3>1. Ready(d) = TRUE
      BY <2>3 DEF Ready
    <3> QED
      BY <1>2, <2>1, <2>2, <3>1 DEF Ready
  <2>5. b.skip = 4 /\ b.data = a.data /\ b.cmds = a.cmds /\ b.far = a.far /\ b.bursts = a.bursts + 1
    BY <1>2, <2>1 DEF StreamFields
  <2>6. b.bursts \in Nat /\ b.bursts # 0
    BY <1>2, <2>5
  <2>7. e.lost = 0 /\ e.left = b.skip /\ e.far = TargetFar /\ e.data = b.data /\ e.cmds = b.cmds
    BY <1>2, <1>5, <2>1, <2>2, <2>5
  <2>8. b.skip \in 0 .. 4 /\ (b.far => e.far = TargetFar) /\ DOMAIN b = StreamFields
    BY <1>3, <2>5, <2>7
  <2>9. e.bursts = IF b.bursts = 0 THEN {} ELSE {<<TargetFar, TRUE>>}
    BY <2>4, <2>6
  <2> QED
    BY <2>2, <2>4, <2>6, <2>7, <2>8, <2>9 DEF Matched
<1> QED
  BY <1>3, <1>4, <1>7, <1>8, <1>9, <1>10 DEF b, e, w

\* A stream that the guard's walk lets through, but for the holes, writes one
\* frame: the configuration logic follows the walk word by word.
LEMMA StreamJudged ==
  ASSUME NEW W \in Seq(Word), Len(W) = 12, ValidateWriteStream(W), ~Unready(W), ~Miscounted(W)
  PROVE  WritesOneFrame(W)
<1> DEFINE s == Tail(W)
<1>1. W # << >> /\ DOMAIN W = 1 .. 12 /\ W[1] = <<"SYNC", 0>>
  <2>1. W = << >> => Len(W) = 0
    OBVIOUS
  <2> QED
    BY <2>1 DEF ValidateWriteStream
<1>2. s \in Seq(Word) /\ Len(s) = 11
  BY <1>1
<1>3. \A x \in 1 .. 11 : s[x] = W[x + 1]
  BY <1>1, <1>2, HeadTailProperties
<1>4. PICK u : StreamWalk(u, s) /\ Walk(StreamStep, StreamStart, s) = u[11]
  <2>1. Len(s) \in Nat
    BY <1>2
  <2> QED
    BY <1>2, <2>1, StreamUnfolds
<1>5. u[0] = StreamStart /\ \A x \in 1 .. 11 : u[x] = StreamStep(u[x - 1], W[x + 1])
  BY <1>2, <1>3, <1>4 DEF StreamWalk
<1>6. u[11].legal /\ u[11].bursts = 1 /\ CheckFrames(u[11].data) /\ u[11].cmds = <<"RCRC", "WCFG", "DESYNC">>
  BY <1>4 DEF ValidateWriteStream, StreamStart
<1>7. PICK v : ConfigWalk(v, W) /\ Walk(ConfigStep, ConfigInit, W) = v[12]
  <2>1. Len(W) \in Nat
    OBVIOUS
  <2>2. \E v : ConfigWalk(v, W) /\ Walk(ConfigStep, ConfigInit, W) = v[Len(W)]
    BY <2>1, ConfigUnfolds
  <2> QED
    BY <2>2
<1>8. v[0] = ConfigInit /\ \A x \in 1 .. 12 : v[x] = ConfigStep(v[x - 1], W[x])
  BY <1>7 DEF ConfigWalk
<1> HIDE DEF s
<1> DEFINE P == {x \in 0 .. 11 : DOMAIN u[x] = StreamFields}
<1>9. 0 .. 11 \subseteq P
  <2>1. 0 \in P
    BY <1>5 DEF StreamStart, StreamFields
  <2>2. ASSUME NEW x \in 1 .. 11, x - 1 \in P PROVE x \in P
    BY <1>5, <2>2, StreamSteps
  <2> HIDE DEF P
  <2> QED
    BY <2>1, <2>2, UpTo
<1> DEFINE Q == {x \in 0 .. 11 : u[x].legal}
<1>10. 0 .. 11 \subseteq Q
  <2>1. 11 \in Q
    BY <1>6
  <2>2. ASSUME NEW x \in 1 .. 11, x \in Q PROVE x - 1 \in Q
    <3>1. x - 1 \in 0 .. 11 /\ DOMAIN u[x - 1] = StreamFields
      BY <1>9
    <3>2. u[x].legal /\ u[x] = StreamStep(u[x - 1], W[x + 1])
      BY <1>5, <2>2
    <3> QED
      BY <3>1, <3>2, StreamSteps
  <2> HIDE DEF Q
  <2> QED
    BY <2>1, <2>2, DownTo
<1> DEFINE M == {x \in 0 .. 11 : Matched(u[x], v[x + 1], x + 1, W)}
<1>11. 0 .. 11 \subseteq M
  <2>1. 0 \in M
    <3>1. v[1] = ConfigStep(ConfigInit, <<"SYNC", 0>>) /\ u[0] = StreamStart
      <4>1. 1 \in 1 .. 12 /\ 1 - 1 = 0
        OBVIOUS
      <4>2. v[1] = ConfigStep(v[1 - 1], W[1])
        BY <1>8, <4>1
      <4> QED
        BY <1>1, <1>5, <1>8, <4>1, <4>2
    <3>2. DOMAIN ConfigInit = ConfigFields /\ ConfigInit.lost = 0 /\ ConfigInit.left = 0 /\ <<"SYNC", 0>> \in Word
          /\ ConfigInit.data = << >> /\ ConfigInit.cmds = << >> /\ ConfigInit.bursts = {} /\ ConfigInit.heard = {}
      BY DEF ConfigInit, ConfigFields, Word, Names
    <3>3. LET e == v[1] IN
          /\ DOMAIN e = ConfigFields /\ e.heard = {<<"SYNC", 0>>} /\ e.data = << >> /\ e.left = 0 /\ e.lost = 0
          /\ e.cmds = << >> /\ e.bursts = {}
      <4> DEFINE w == <<"SYNC", 0>>
      <4> DEFINE c == ConfigInit
      <4>1. w[1] \notin CommandWords \cup {"FAR", "FDRI"} /\ w \in Word /\ w = <<"SYNC", 0>>
        BY <3>2 DEF CommandWords
      <4>2. /\ DOMAIN c = ConfigFields /\ c.lost = 0 /\ c.left = 0 /\ c.data = << >> /\ c.cmds = << >>
            /\ c.bursts = {} /\ c.heard = {} /\ v[1] = ConfigStep(c, w)
        BY <3>1, <3>2
      <4> HIDE DEF w, c
      <4>3. LET e == ConfigStep(c, w) IN
            /\ DOMAIN e = ConfigFields /\ e.heard = c.heard \cup {w} /\ e.data = c.data
            /\ e.left = c.left /\ e.lost = c.lost /\ e.cmds = c.cmds /\ e.bursts = c.bursts
        <5>1. /\ DOMAIN c = ConfigFields /\ c.lost = 0 /\ c.left = 0 /\ w \in Word
              /\ w[1] \notin CommandWords \cup {"FAR", "FDRI"}
          BY <4>1, <4>2
        <5> QED
          BY <5>1, ConfigSteps
      <4> QED
        BY <4>1, <4>2, <4>3
    <3>4. LET a == u[0] IN
          /\ DOMAIN a = StreamFields /\ a.skip = 0 /\ a.data = << >> /\ a.cmds = << >> /\ a.far = FALSE /\ a.bursts = 0
      BY <3>1 DEF StreamStart, StreamFields
    <3>5. \A j \in 1 .. 1 : W[j] \in v[1].heard
      <4>1. \A j \in 1 .. 1 : j = 1
        OBVIOUS
      <4>2. W[1] \in v[1].heard
        BY <1>1, <3>3
      <4> QED
        BY <4>1, <4>2
    <3>6. Matched(u[0], v[1], 1, W)
      BY <3>3, <3>4, <3>5 DEF Matched
    <3> QED
      BY <3>6
  <2>2. ASSUME NEW x \in 1 .. 11, x - 1 \in M PROVE x \in M
    <3>1. x \in Nat /\ x + 1 \in DOMAIN W /\ x - 1 + 1 = x /\ x + 1 - 1 = x /\ x + 1 \in 1 .. 12
      BY <1>1
    <3>2. Matched(u[x - 1], v[x], x, W)
      BY <2>2, <3>1
    <3>3. u[x] = StreamStep(u[x - 1], W[x + 1]) /\ u[x].legal /\ v[x + 1] = ConfigStep(v[x], W[x + 1])
      <4>1. v[x + 1] = ConfigStep(v[x + 1 - 1], W[x + 1])
        <5>1. x + 1 \in 1 .. 12
          BY <3>1
        <5>2. \A y \in 1 .. 12 : v[y] = ConfigStep(v[y - 1], W[y])
          BY <1>8
        <5> QED
          BY <5>1, <5>2, SMTT(30)
      <4>2. x \in Q
        BY <1>10
      <4> QED
        BY <1>5, <3>1, <4>1, <4>2
    <3>4. Matched(StreamStep(u[x - 1], W[x + 1]), ConfigStep(v[x], W[x + 1]), x + 1, W)
      <4> DEFINE a == u[x - 1]
      <4> DEFINE d == v[x]
      <4>1. Matched(a, d, x, W) /\ StreamStep(a, W[x + 1]).legal
        BY <3>2, <3>3
      <4> HIDE DEF a, d
      <4>2. Matched(StreamStep(a, W[x + 1]), ConfigStep(d, W[x + 1]), x + 1, W)
        BY <3>1, <4>1, MatchOn
      <4> QED
        BY <4>2 DEF a, d
    <3> QED
      BY <3>3, <3>4
  <2> HIDE DEF M
  <2> QED
    BY <2>1, <2>2, UpTo
<1>12. Matched(u[11], v[12], 12, W)
  <2>1. 11 \in M
    BY <1>11
  <2>2. 11 + 1 = 12
    OBVIOUS
  <2> QED
    BY <2>1, <2>2
<1> QED
  BY <1>6, <1>7, <1>12 DEF WritesOneFrame, Matched

\* The tokens of a judged write plan only grow.
LEMMA WriteLater ==
  ASSUME NEW s, NEW t, JudgedWrite(s, t), NEW i \in 0 .. Len(s), NEW j \in 0 .. Len(s), i <= j
  PROVE  Len(t[i]) <= Len(t[j])
<1> DEFINE n == Len(s)
<1>1. n \in Nat
  BY WriteTokensFrozen
<1>2. ASSUME NEW x \in 0 .. n PROVE Len(t[x]) \in Nat
  BY WriteTokensFrozen DEF WriteFrozen
<1> DEFINE L(x) == Len(t[x])
<1>3. ASSUME NEW x \in 1 .. n PROVE L(x - 1) <= L(x)
  BY WriteTokensFrozen
<1>4. \A x \in 0 .. n : L(x) \in Nat
  BY <1>2
<1> HIDE DEF L
<1> DEFINE P == {x \in 0 .. n : i <= x => L(i) <= L(x)}
<1>5. 0 \in P
  <2>1. i <= 0 => i = 0
    BY <1>1
  <2> QED
    BY <1>1, <1>4, <2>1
<1>6. ASSUME NEW x \in 1 .. n, x - 1 \in P PROVE x \in P
  <2>1. L(x - 1) <= L(x) /\ x \in 0 .. n /\ x - 1 \in 0 .. n /\ L(x) \in Nat /\ L(x - 1) \in Nat /\ L(i) \in Nat
    BY <1>1, <1>3, <1>4
  <2>2. i <= x => i <= x - 1 \/ i = x
    BY <1>1, <2>1
  <2> QED
    BY <1>6, <2>1, <2>2
<1>7. j \in P
  <2> HIDE DEF P
  <2>1. 0 .. n \subseteq P
    BY <1>1, <1>5, <1>6, UpTo
  <2> QED
    BY <2>1
<1> QED
  BY <1>7 DEF L

\* The words written so far are in the buffer.
Held(e, s, i) == \A j \in 1 .. i : WordWrite(s[j]) => e.buf["WR"][s[j].at] = s[j].value

\* The engine begins in step with a write plan.
LEMMA WriteStarts ==
  ASSUME NEW stream
  PROVE  WriteAt(EngineInit, 0, stream)
<1> DEFINE e == EngineInit
<1>1. DOMAIN e = Fields /\ e.faults = {} /\ e.regs = << >> /\ e.running = Idle /\ e.history = << >>
  BY DEF EngineInit, Fields
<1>2. e.buf = [r \in StreamBuffers |-> [i \in 0..(RegionSize(r) - 1) |-> Noop]]
  BY DEF EngineInit
<1>3. RegionSize("WR") - 1 = 11 /\ "WR" \in StreamBuffers
  BY DEF RegionSize, WriteWords, StreamBuffers
<1> HIDE DEF e
<1>4. DOMAIN e.buf = StreamBuffers /\ DOMAIN e.buf["WR"] = 0 .. (RegionSize("WR") - 1)
  BY <1>2, <1>3
<1>5. DOMAIN e.buf["WR"] = 0 .. 11
  BY <1>3, <1>4
<1>6. WriteBuffer(e) /\ WriteTold(e, 0, stream) /\ e.regs = Handed(0)
  <2>1. WriteBuffer(e)
    BY <1>1, <1>4, <1>5 DEF WriteBuffer
  <2>2. WriteTold(e, 0, stream)
    BY <1>1 DEF WriteTold
  <2>3. e.regs = Handed(0)
    BY <1>1 DEF Handed
  <2> QED
    BY <2>1, <2>2, <2>3
<1> QED
  BY <1>1, <1>6 DEF WriteAt, e

\* Every command of an accepted write plan keeps the engine in step.
LEMMA WriteAdvances ==
  ASSUME NEW e, NEW k, NEW a, NEW c \in Command, NEW stream \in Seq(Word), Len(stream) = 12,
         WriteAt(e, a, stream), WriteStandsAt(c, a, k), WordWrite(c) => c.count = 1,
         \A j \in 1 .. 4 : IsWrite(c, DmaOrder[j]) => c.value = WriteTransaction[j],
         k = 8 => \A x \in 1 .. 12 : e.buf["WR"][x - 1] = stream[x]
  PROVE  /\ WriteAt(Exec(e, c), k, stream)
         /\ ~WordWrite(c) => Exec(e, c).buf = e.buf
         /\ WordWrite(c) => Exec(e, c).buf["WR"] = [x \in DOMAIN e.buf["WR"] |-> IF x = c.at THEN c.value ELSE e.buf["WR"][x]]
<1>1. CASE WordWrite(c)
  <2>1. k = 2 /\ a \in {1, 2} /\ c.count = 1
    BY <1>1 DEF WriteStandsAt
  <2> QED
    BY <1>1, <2>1, WriteWordAt
<1>2. CASE ~WordWrite(c)
  <2>1. k \in 1 .. 10 /\ a = k - 1 /\ WritePlainAt(c, k)
    BY <1>2 DEF WriteStandsAt
  <2>2. WriteAt(e, k - 1, stream)
    BY <2>1
  <2>3. CASE k \in {1, 10} /\ IsRead(c, "CTRL")
    BY <1>2, <2>1, <2>2, <2>3, WriteGateAt
  <2>4. CASE k = 3 /\ IsWrite(c, "INT_STS")
    BY <1>2, <2>1, <2>2, <2>4, WriteClearAt
  <2>5. CASE k = 4 /\ IsRead(c, "INT_STS")
    BY <1>2, <2>1, <2>2, <2>5, WriteStatusAt
  <2>6. CASE k = 9 /\ IsRead(c, "INT_STS")
    BY <1>2, <2>1, <2>2, <2>6, WriteWaitAt
  <2>7. ASSUME NEW j \in 1 .. 4, k = 4 + j, IsWrite(c, DmaOrder[j])
        PROVE  WriteAt(Exec(e, c), k, stream) /\ Exec(e, c).buf = e.buf
    <3>1. c.value = WriteTransaction[j]
      BY <2>7
    <3>2. CASE j = 4
      <4>1. k = 8 /\ k - 1 = 7 /\ WriteAt(e, 7, stream)
        BY <2>2, <2>7, <3>2
      <4>2. \A x \in 1 .. 12 : e.buf["WR"][x - 1] = stream[x]
        BY <4>1
      <4>3. IsWrite(c, DmaOrder[4]) /\ c.value = WriteTransaction[4]
        BY <2>7, <3>1, <3>2
      <4> QED
        BY <4>1, <4>2, <4>3, WriteFiredAt
    <3>3. CASE j # 4
      <4>1. j \in 1 .. 3
        BY <3>3
      <4> QED
        BY <2>2, <2>7, <3>1, <4>1, WriteRegisterAt
    <3> QED
      BY <3>2, <3>3
  <2> QED
    BY <1>2, <2>1, <2>3, <2>4, <2>5, <2>6, <2>7 DEF WritePlainAt
<1> QED
  BY <1>1, <1>2

\* Whatever write plan the guard accepts transfers the stream it names, and that
\* one writes one legal frame.
LEMMA WriteSound ==
  ASSUME NEW p, p.script \in Seq(WriteCommand), CheckWritePlan(p), ~Unready(p.stream), ~Miscounted(p.stream)
  PROVE  SoundWrite(p)
<1> DEFINE s == p.script
<1> DEFINE n == Len(s)
<1> DEFINE W == StreamOf(s)
<1>0. CheckCommands(s) /\ p.stream = W
  BY DEF CheckWritePlan
<1>1. n \in Nat /\ s \in Seq(Command) /\ \A i \in 1 .. n : s[i] \in WriteCommand /\ s[i] \in Command
  BY DEF WriteCommand
<1>2. PICK t : WriteTokenWalk(t, s) /\ WriteTokens(s) = t[n]
  BY <1>1, WriteTokenUnfolds
<1>3. JudgedWrite(s, t)
  <2>1. WriteTokens(s) = WriteSchedule
    BY <1>0 DEF CheckCommands, WriteSchedule, PairTok, CountTok
  <2> QED
    BY <1>0, <1>1, <1>2, <2>1 DEF JudgedWrite
<1>4. PICK u : EngineWalk(u, s) /\ Run(s) = u[n]
  BY <1>1, EngineUnfolds
<1>5. u[0] = EngineInit /\ \A i \in 1 .. n : u[i] = Exec(u[i - 1], s[i])
  BY <1>4 DEF EngineWalk
<1>6. W \in Seq(Word) /\ Len(W) = 12
  BY <1>0, StreamOfIs
<1>7. \A i \in 1 .. n : WordWrite(s[i]) => s[i].at \in 0 .. 11 /\ s[i].count = 1 /\ W[s[i].at + 1] = s[i].value
  BY <1>0, WordsOnce, StreamOfIs
<1>8. t[0] = << >> /\ t[n] = WriteSchedule
  BY <1>3 DEF JudgedWrite, WriteTokenWalk, NoToken
<1> DEFINE At(i) == WriteAt(u[i], Len(t[i]), W) /\ Held(u[i], s, i)
<1> DEFINE P == {i \in 0 .. n : At(i)}
<1>9. 0 \in P
  <2>1. Len(t[0]) = 0 /\ 1 .. 0 = {}
    BY <1>8
  <2>2. WriteAt(u[0], 0, W)
    BY <1>5, WriteStarts
  <2>3. Held(u[0], s, 0)
    BY <2>1 DEF Held
  <2> QED
    BY <1>1, <2>1, <2>2, <2>3
<1>10. ASSUME NEW i \in 1 .. n, i - 1 \in P PROVE i \in P
  <2> DEFINE c == s[i]
  <2> DEFINE k == Len(t[i])
  <2> DEFINE a == Len(t[i - 1])
  <2> DEFINE e == u[i - 1]
  <2> DEFINE f == u[i]
  <2>1. WriteAt(e, a, W) /\ Held(e, s, i - 1) /\ f = Exec(e, c) /\ i \in 0 .. n /\ i - 1 \in 0 .. n /\ c \in Command
    BY <1>1, <1>5, <1>10
  <2>2. WriteStandsAt(c, a, k)
    BY <1>3, WriteCommandStands
  <2>3. WordWrite(c) => c.count = 1 /\ c.at \in 0 .. 11
    BY <1>7
  <2>4. \A j \in 1 .. 4 : IsWrite(c, DmaOrder[j]) => c.value = WriteTransaction[j]
    BY <1>0, RegistersKept
  <2>5. DOMAIN e.buf["WR"] = 0 .. 11
    BY <2>1 DEF WriteAt, WriteBuffer
  <2>6. ASSUME k = 8, NEW x \in 1 .. 12 PROVE e.buf["WR"][x - 1] = W[x]
    <3>1. PICK j \in 1 .. n : WordWrite(s[j]) /\ s[j].at = x - 1
      BY <1>0, WordsOnce
    <3>2. WriteStandsAt(s[j], Len(t[j - 1]), Len(t[j]))
      BY <1>3, WriteCommandStands
    <3>3. Len(t[j]) = 2
      BY <3>1, <3>2 DEF WriteStandsAt
    <3>4. j \in 0 .. n
      BY <1>1
    <3>5. ~(i <= j)
      <4>1. i <= j => Len(t[i]) <= Len(t[j])
        BY <1>3, <2>1, <3>4, WriteLater
      <4>2. ~(8 <= 2)
        OBVIOUS
      <4> QED
        BY <2>6, <3>3, <4>1, <4>2
    <3>6. j \in 1 .. (i - 1)
      BY <1>1, <3>5
    <3>7. e.buf["WR"][s[j].at] = s[j].value
      BY <2>1, <3>1, <3>6 DEF Held
    <3>8. W[s[j].at + 1] = s[j].value /\ x - 1 + 1 = x
      BY <1>7, <3>1
    <3> QED
      BY <3>1, <3>7, <3>8
  <2>7. s \in Seq(WriteCommand) /\ CheckCommands(s)
    BY <1>0
  <2>8. \A j \in 1 .. (i - 1) : WordWrite(s[j]) /\ WordWrite(c) => s[j].at # c.at /\ s[j].at \in 0 .. 11
    <3> TAKE j \in 1 .. (i - 1)
    <3>1. j \in 1 .. n /\ j # i
      BY <1>1
    <3> QED
      BY <2>7, <3>1, WordsOnce
  <2> HIDE DEF s, n, W, c, k, a, e, f
  <2>9. /\ WriteAt(f, k, W)
        /\ ~WordWrite(c) => f.buf = e.buf
        /\ WordWrite(c) => f.buf["WR"] = [x \in DOMAIN e.buf["WR"] |-> IF x = c.at THEN c.value ELSE e.buf["WR"][x]]
    BY <1>6, <2>1, <2>2, <2>3, <2>4, <2>6, WriteAdvances
  <2>10. \A j \in 1 .. i : j \in 1 .. (i - 1) \/ j = i
    BY <1>1
  <2>11. Held(f, s, i)
    <3>1. CASE ~WordWrite(c)
      <4>1. f.buf = e.buf
        BY <2>9, <3>1
      <4> QED
        BY <2>1, <2>10, <3>1, <4>1 DEF Held, c
    <3>2. CASE WordWrite(c)
      <4>1. /\ f.buf["WR"][c.at] = c.value
            /\ \A x \in 0 .. 11 : x # c.at => f.buf["WR"][x] = e.buf["WR"][x]
        BY <2>3, <2>5, <2>9, <3>2
      <4>2. \A j \in 1 .. (i - 1) : WordWrite(s[j]) => f.buf["WR"][s[j].at] = s[j].value
        BY <2>1, <2>8, <3>2, <4>1 DEF Held
      <4> QED
        BY <2>10, <4>1, <4>2 DEF Held, c
    <3> QED
      BY <3>1, <3>2
  <2> QED
    BY <2>1, <2>9, <2>11 DEF k, f
<1>11. At(n)
  <2> HIDE DEF P
  <2>1. 0 .. n \subseteq P
    BY <1>1, <1>9, <1>10, UpTo
  <2>2. n \in P
    BY <1>1, <2>1
  <2> QED
    BY <2>2 DEF P
<1>12. WriteAt(u[n], 10, W)
  <2>1. Len(t[n]) = 10
    BY <1>8, WriteScheduleAt
  <2> QED
    BY <1>11, <2>1
<1>13. u[n].faults = {} /\ u[n].running = Idle /\ u[n].history = << <<WriteTransaction, W>> >>
  BY <1>12 DEF WriteAt, WriteBuffer, WriteTold
<1>14. WritesOneFrame(W)
  <2>1. ValidateWriteStream(W) /\ ~Unready(W) /\ ~Miscounted(W)
    BY <1>0 DEF CheckCommands
  <2> HIDE DEF W
  <2> QED
    BY <1>6, <2>1, StreamJudged
<1> QED
  BY <1>0, <1>4, <1>13, <1>14 DEF SoundWrite

-----------------------------------------------------------------------------
(* What edits leave, and that what the guards accept is sound.              *)

\* Whatever edits have done, the commands of a plan are those the planner and
\* the pool know.
LEMMA RemoveTyped ==
  ASSUME NEW S, NEW s \in Seq(S), NEW i \in DOMAIN s
  PROVE  RemoveAt(s, i) \in Seq(S)
<1> DEFINE a == SubSeq(s, 1, i - 1)
<1> DEFINE b == SubSeq(s, i + 1, Len(s))
<1>1. Len(s) \in Nat /\ i \in 1 .. Len(s) /\ \A x \in 1 .. Len(s) : s[x] \in S
  BY ElementOfSeq
<1>2. a \in Seq(S)
  BY <1>1
<1>3. b \in Seq(S)
  BY <1>1
<1>4. RemoveAt(s, i) = a \o b
  BY DEF RemoveAt
<1> HIDE DEF a, b
<1> QED
  BY <1>2, <1>3, <1>4, ConcatAt

\* A sequence with an element put in is a sequence of the same set.
LEMMA InsertTyped ==
  ASSUME NEW S, NEW s \in Seq(S), NEW i \in 1 .. (Len(s) + 1), NEW c \in S
  PROVE  InsertAt(s, i, c) \in Seq(S)
<1> DEFINE a == SubSeq(s, 1, i - 1)
<1> DEFINE b == SubSeq(s, i, Len(s))
<1> DEFINE m == <<c>>
<1>1. Len(s) \in Nat /\ i \in 1 .. (Len(s) + 1) /\ \A x \in 1 .. Len(s) : s[x] \in S
  BY ElementOfSeq
<1>2. a \in Seq(S)
  BY <1>1
<1>3. b \in Seq(S)
  BY <1>1
<1>4. m \in Seq(S)
  OBVIOUS
<1>5. InsertAt(s, i, c) = a \o m \o b
  BY DEF InsertAt
<1> HIDE DEF a, b, m
<1> DEFINE am == a \o m
<1>6. am \in Seq(S)
  BY <1>2, <1>4, ConcatAt
<1>7. InsertAt(s, i, c) = am \o b
  BY <1>5
<1> HIDE DEF am
<1> QED
  BY <1>3, <1>6, <1>7, ConcatAt

\* A sequence with two neighbours exchanged is a sequence of the same set.
LEMMA ExchangeTyped ==
  ASSUME NEW S, NEW s \in Seq(S), NEW i \in 1 .. (Len(s) - 1)
  PROVE  [s EXCEPT ![i] = s[i + 1], ![i + 1] = s[i]] \in Seq(S)
<1>1. Len(s) \in Nat /\ s \in [1 .. Len(s) -> S]
  OBVIOUS
<1>2. i \in 1 .. Len(s) /\ i + 1 \in 1 .. Len(s)
  BY <1>1
<1> DEFINE q == [s EXCEPT ![i] = s[i + 1], ![i + 1] = s[i]]
<1>3. q \in [1 .. Len(s) -> S]
  BY <1>1, <1>2
<1> HIDE DEF q
<1>4. q \in Seq(S)
  BY <1>1, <1>3
<1> QED
  BY <1>4 DEF q

\* What a command needs in order to be one of a read plan.
LEMMA ReadTyped ==
  ASSUME NEW r \in Regs, NEW n \in Nat
  PROVE  Read(r, n) \in ReadCommand /\ Read(r, n) \in WriteCommand
BY DEF Read, ReadCommand, WriteCommand, Command, Forms, Word, Names, Noop, StreamWrite, WordWrite

\* The writes of the planners are commands of the plans.
LEMMA WriteTyped ==
  ASSUME NEW r \in Regs, NEW x \in Nat, NEW v \in Word, NEW n \in Nat
  PROVE  /\ (r = "CMD" => n = 1) => Write(r, x, v, n) \in ReadCommand
         /\ (r = "WR" => n = 1) => Write(r, x, v, n) \in WriteCommand
<1> DEFINE c == Write(r, x, v, n)
<1>1. /\ c.form = "mw.l" /\ c.reg = r /\ c.at = x /\ c.value = v /\ c.count = n /\ c \in Command
  BY DEF Write, Command, Forms
<1> HIDE DEF c
<1>2. /\ StreamWrite(c) <=> r = "CMD"
      /\ WordWrite(c) <=> r = "WR"
  BY <1>1 DEF StreamWrite, WordWrite
<1>3. c \in ReadCommand <=> (r = "CMD" => n = 1)
  BY <1>1, <1>2 DEF ReadCommand
<1>4. c \in WriteCommand <=> (r = "WR" => n = 1)
  BY <1>1, <1>2 DEF WriteCommand
<1> QED
  BY <1>3, <1>4 DEF c

\* The words of the planners are words.
LEMMA WordsAre ==
  /\ \A n \in Nat : Sentinel(n) \in Word /\ FarWord(n) \in Word /\ Length(n) \in Word /\ Sentinel(n)[2] = n
  /\ Noop \in Word /\ ClearMask \in Word /\ CmdBuf \in Word /\ DstBuf \in Word /\ Pcap \in Word
  /\ <<"SYNC", 0>> \in Word /\ <<"RCFG", 0>> \in Word /\ <<"FDRO", ReadWords>> \in Word /\ <<"DESYNC", 0>> \in Word
  /\ ReadWords \in Nat
BY PlanAssumption DEF Sentinel, FarWord, Length, Noop, ClearMask, CmdBuf, DstBuf, Pcap, Word, Names

\* A fill of the whole destination, whatever it claims, is a command of a read plan.
LEMMA FillTyped ==
  ASSUME NEW v \in Nat
  PROVE  Write("DST", 0, Sentinel(v), ReadWords) \in ReadCommand
BY WordsAre, WriteTyped DEF Regs

-----------------------------------------------------------------------------
(* The plans as the planners build them, laid out command by command.       *)

\* x stands in s after the first b elements.
Laid(s, b, x) == \A i \in 1 .. Len(x) : s[b + i] = x[i]

\* A concatenation holds the first sequence, then the second.
LEMMA LaidOn ==
  ASSUME NEW S, NEW a \in Seq(S), NEW b \in Seq(S)
  PROVE  a \o b \in Seq(S) /\ Len(a \o b) = Len(a) + Len(b) /\ Laid(a \o b, 0, a) /\ Laid(a \o b, Len(a), b)
<1> DEFINE c == a \o b
<1>1. c \in Seq(S) /\ Joined(c, a, b)
  BY ConcatAt
<1> HIDE DEF c
<1>2. Len(c) = Len(a) + Len(b) /\ Laid(c, 0, a) /\ Laid(c, Len(a), b)
  BY <1>1 DEF Joined, Laid
<1> QED
  BY <1>1, <1>2 DEF c

\* What stands in the first part of a script stands there in the whole.
LEMMA LaidKept ==
  ASSUME NEW a, NEW c, NEW x, NEW n \in Nat, Len(a) \in Nat, Len(x) \in Nat,
         Laid(a, n, x), Laid(c, 0, a), n + Len(x) <= Len(a)
  PROVE  Laid(c, n, x)
<1> SUFFICES ASSUME NEW i \in 1 .. Len(x) PROVE c[n + i] = x[i]
  BY DEF Laid
<1>1. n + i \in 1 .. Len(a) /\ 0 + (n + i) = n + i
  OBVIOUS
<1>2. c[n + i] = a[n + i]
  BY <1>1 DEF Laid
<1> QED
  BY <1>2 DEF Laid

\* The parts of the plan the planner builds.
Opening(v) == <<CacheOff, Read("CTRL", 1), Read("MCTRL", 1), Read("INT_STS", 1),
                Write("DST", 0, Sentinel(v), ReadWords), Read("DST", ReadWords)>>
DmaOf(o) == IF o = "two-unidirectional" THEN DmaSteps("command") \o DmaSteps("readback") ELSE DmaSteps("bidirectional")
DmaLen(o) == IF o = "two-unidirectional" THEN 14 ELSE 7

\* The six commands before the first stream.
LEMMA OpeningAt ==
  ASSUME NEW v \in Nat
  PROVE  Opening(v) \in Seq(ReadCommand) /\ Len(Opening(v)) = 6
<1>1. CacheOff \in ReadCommand
  BY DEF CacheOff, ReadCommand, Command, Forms, Regs, Word, Names, Noop, StreamWrite
<1>2. /\ Read("CTRL", 1) \in ReadCommand /\ Read("MCTRL", 1) \in ReadCommand /\ Read("INT_STS", 1) \in ReadCommand
      /\ Read("DST", ReadWords) \in ReadCommand
  BY ReadTyped, WordsAre DEF Regs
<1>3. Write("DST", 0, Sentinel(v), ReadWords) \in ReadCommand
  BY FillTyped
<1> QED
  BY <1>1, <1>2, <1>3 DEF Opening

\* The commands that write a stream, one for each of its words.
LEMMA WordsAt ==
  ASSUME NEW t \in Seq(Word)
  PROVE  /\ Words(t) \in Seq(ReadCommand) /\ Len(Words(t)) = Len(t)
         /\ \A i \in 1 .. Len(t) : Words(t)[i] = Write("CMD", i - 1, t[i], 1)
<1>1. ASSUME NEW i \in 1 .. Len(t) PROVE Write("CMD", i - 1, t[i], 1) \in ReadCommand
  <2>1. t[i] \in Word /\ i - 1 \in Nat /\ "CMD" \in Regs
    BY ElementOfSeq DEF Regs
  <2> QED
    BY <2>1, WriteTyped
<1>2. Len(t) \in Nat
  OBVIOUS
<1> QED
  BY <1>1, <1>2 DEF Words

\* The two streams are words, five and two of them.
LEMMA StreamsTyped ==
  ASSUME NEW far \in Nat
  PROVE  /\ ReadbackStream(far) \in Seq(Word) /\ Len(ReadbackStream(far)) = 5
         /\ CleanupStream \in Seq(Word) /\ Len(CleanupStream) = 2
BY WordsAre DEF ReadbackStream, CleanupStream

\* One transfer: four words in the normative order between a clear that is
\* read back and the read that waits.
StepsAt(s, b, t) ==
    /\ s[b + 1] = Write("INT_STS", 0, ClearMask, 1) /\ s[b + 2] = Read("INT_STS", 1) /\ s[b + 7] = Read("INT_STS", 1)
    /\ \A j \in 1 .. 4 : s[b + 2 + j] = Write(DmaOrder[j], 0, t[j], 1)

\* The operands of the transfers are words.
LEMMA TransactionsTyped ==
  ASSUME NEW x \in {"command", "readback", "cleanup", "bidirectional"}, NEW j \in 1 .. 4
  PROVE  Transaction[x][j] \in Word /\ WriteTransaction[j] \in Word
<1>1. StreamWords \in Nat /\ CleanupWords \in Nat /\ WriteWords \in Nat /\ ReadWords \in Nat
  BY PlanAssumption DEF StreamWords, CleanupWords, WriteWords
<1>2. \A n \in Nat : Length(n) \in Word
  BY WordsAre
<1>3. CmdBuf \in Word /\ DstBuf \in Word /\ Pcap \in Word /\ <<"WR", 0>> \in Word
  BY WordsAre DEF Word, Names
<1> QED
  BY <1>1, <1>2, <1>3 DEF Transaction, WriteTransaction

\* The seven commands of a transfer, place by place.
LEMMA DmaStepsAt ==
  ASSUME NEW x \in {"command", "readback", "cleanup", "bidirectional"}
  PROVE  DmaSteps(x) \in Seq(ReadCommand) /\ Len(DmaSteps(x)) = 7 /\ StepsAt(DmaSteps(x), 0, Transaction[x])
<1> DEFINE a == <<Write("INT_STS", 0, ClearMask, 1), Read("INT_STS", 1)>>
<1> DEFINE b == [i \in 1..4 |-> Write(DmaOrder[i], 0, Transaction[x][i], 1)]
<1> DEFINE c == <<Read("INT_STS", 1)>>
<1>1. Write("INT_STS", 0, ClearMask, 1) \in ReadCommand /\ Read("INT_STS", 1) \in ReadCommand
  <2>1. "INT_STS" \in Regs /\ ClearMask \in Word
    BY WordsAre DEF Regs
  <2> QED
    BY <2>1, ReadTyped, WriteTyped
<1>2. a \in Seq(ReadCommand) /\ Len(a) = 2 /\ a[1] = Write("INT_STS", 0, ClearMask, 1) /\ a[2] = Read("INT_STS", 1)
  BY <1>1
<1>3. ASSUME NEW j \in 1 .. 4 PROVE Write(DmaOrder[j], 0, Transaction[x][j], 1) \in ReadCommand
  <2>1. DmaOrder[j] \in Regs /\ DmaOrder[j] # "DST" /\ DmaOrder[j] # "CMD"
    BY DEF DmaOrder, Regs
  <2>2. Transaction[x][j] \in Word
    BY TransactionsTyped
  <2> QED
    BY <2>1, <2>2, WriteTyped
<1>4. b \in Seq(ReadCommand) /\ Len(b) = 4 /\ \A j \in 1 .. 4 : b[j] = Write(DmaOrder[j], 0, Transaction[x][j], 1)
  BY <1>3
<1>5. c \in Seq(ReadCommand) /\ Len(c) = 1 /\ c[1] = Read("INT_STS", 1)
  BY <1>1
<1> HIDE DEF a, b, c
<1> DEFINE d == a \o b
<1>6. d \in Seq(ReadCommand) /\ Len(d) = Len(a) + Len(b) /\ Laid(d, 0, a) /\ Laid(d, Len(a), b)
  BY <1>2, <1>4, LaidOn
<1> HIDE DEF d
<1> DEFINE e == d \o c
<1>7. e \in Seq(ReadCommand) /\ Len(e) = Len(d) + Len(c) /\ Laid(e, 0, d) /\ Laid(e, Len(d), c)
  BY <1>5, <1>6, LaidOn
<1> HIDE DEF e
<1>l. Len(a) = 2 /\ Len(b) = 4 /\ Len(d) = 6 /\ Len(e) = 7
  BY <1>2, <1>4, <1>5, <1>6, <1>7
<1>8. Laid(e, 0, a) /\ Laid(e, 2, b) /\ Laid(e, 6, c)
  <2>a. Laid(d, 0, a) /\ Laid(d, 2, b) /\ Laid(e, 0, d)
    BY <1>l, <1>6, <1>7
  <2>b. /\ Len(a) \in Nat /\ Len(b) \in Nat /\ Len(d) \in Nat
        /\ 0 + Len(a) <= Len(d) /\ 2 + Len(b) <= Len(d) /\ 0 \in Nat /\ 2 \in Nat
    BY <1>l
  <2>1. Laid(e, 0, a)
    BY <2>a, <2>b, LaidKept
  <2>2. Laid(e, 2, b)
    BY <2>a, <2>b, LaidKept
  <2> QED
    BY <1>l, <1>7, <2>1, <2>2
<1>9. StepsAt(e, 0, Transaction[x])
  <2>1. e[0 + 1] = a[1] /\ e[0 + 2] = a[2]
    BY <1>2, <1>8 DEF Laid
  <2>2. \A j \in 1 .. 4 : e[2 + j] = b[j]
    BY <1>4, <1>8 DEF Laid
  <2>3. e[6 + 1] = c[1]
    BY <1>5, <1>8 DEF Laid
  <2> QED
    BY <1>2, <1>4, <1>5, <2>1, <2>2, <2>3 DEF StepsAt
<1>10. DmaSteps(x) = e
  BY DEF DmaSteps, a, b, c, d, e
<1> QED
  BY <1>7, <1>l, <1>9, <1>10

\* A transfer that stands in a script has its commands there.
LEMMA StepsKept ==
  ASSUME NEW s, NEW b \in Nat, NEW x, NEW t, Len(x) = 7, StepsAt(x, 0, t), Laid(s, b, x)
  PROVE  StepsAt(s, b, t)
<1>1. \A i \in 1 .. 7 : s[b + i] = x[i]
  BY DEF Laid
<1>2. s[b + 1] = x[1] /\ s[b + 2] = x[2] /\ s[b + 7] = x[7]
  BY <1>1
<1>3. ASSUME NEW j \in 1 .. 4 PROVE s[b + 2 + j] = x[2 + j]
  <2>1. 2 + j \in 1 .. 7 /\ b + (2 + j) = b + 2 + j
    OBVIOUS
  <2> QED
    BY <1>1, <2>1
<1> QED
  BY <1>2, <1>3 DEF StepsAt

\* What the planner builds, part by part.
BuiltAs(s, far, o, v) ==
    /\ s \in Seq(ReadCommand) /\ Len(s) = 22 + DmaLen(o)
    /\ Laid(s, 0, Opening(v))
    /\ Laid(s, 6, Words(ReadbackStream(far)))
    /\ Laid(s, 11, DmaOf(o))
    /\ s[12 + DmaLen(o)] = Read("DST", ReadWords)
    /\ Laid(s, 12 + DmaLen(o), Words(CleanupStream))
    /\ StepsAt(s, 14 + DmaLen(o), Transaction["cleanup"])
    /\ s[22 + DmaLen(o)] = Read("INT_STS", 1)

\* The commands of the transfers before the readout.
LEMMA DmaOfAt ==
  ASSUME NEW o \in Orders
  PROVE  /\ DmaOf(o) \in Seq(ReadCommand) /\ Len(DmaOf(o)) = DmaLen(o)
         /\ o = "two-unidirectional" =>
              StepsAt(DmaOf(o), 0, Transaction["command"]) /\ StepsAt(DmaOf(o), 7, Transaction["readback"])
         /\ o = "one-bidirectional" => StepsAt(DmaOf(o), 0, Transaction["bidirectional"])
<1>1. CASE o = "one-bidirectional"
  BY <1>1, DmaStepsAt DEF DmaOf, DmaLen
<1>2. CASE o = "two-unidirectional"
  <2> DEFINE a == DmaSteps("command")
  <2> DEFINE b == DmaSteps("readback")
  <2> DEFINE c == a \o b
  <2>1. /\ a \in Seq(ReadCommand) /\ Len(a) = 7 /\ StepsAt(a, 0, Transaction["command"])
        /\ b \in Seq(ReadCommand) /\ Len(b) = 7 /\ StepsAt(b, 0, Transaction["readback"])
    BY DmaStepsAt
  <2> HIDE DEF a, b
  <2>2. c \in Seq(ReadCommand) /\ Len(c) = Len(a) + Len(b) /\ Laid(c, 0, a) /\ Laid(c, Len(a), b)
    BY <2>1, LaidOn
  <2>3. DmaOf(o) = c
    BY <1>2 DEF DmaOf, a, b, c
  <2> HIDE DEF c
  <2>4. StepsAt(c, 0, Transaction["command"])
    <3>1. Laid(c, 0, a) /\ 0 \in Nat
      BY <2>2
    <3> QED
      BY <2>1, <3>1, StepsKept
  <2>5. StepsAt(c, 7, Transaction["readback"])
    <3>1. Laid(c, 7, b) /\ 7 \in Nat
      BY <2>1, <2>2
    <3> QED
      BY <2>1, <3>1, StepsKept
  <2>6. Len(c) = 14
    BY <2>1, <2>2
  <2> QED
    BY <1>2, <2>2, <2>3, <2>4, <2>5, <2>6 DEF DmaLen
<1> QED
  BY <1>1, <1>2 DEF Orders

\* A read plan as the planner builds it, place by place.
LEMMA BuiltAt ==
  ASSUME NEW o \in Orders, NEW v \in Nat, NEW far \in Nat
  PROVE  BuiltAs(BuildPlan(far, o, v), far, o, v)
<1> DEFINE n == DmaLen(o)
<1> DEFINE a == Opening(v)
<1> DEFINE b == Words(ReadbackStream(far))
<1> DEFINE c == DmaOf(o)
<1> DEFINE d == <<Read("DST", ReadWords)>>
<1> DEFINE e == Words(CleanupStream)
<1> DEFINE f == DmaSteps("cleanup")
<1> DEFINE g == <<Read("INT_STS", 1)>>
<1>0. n \in Nat /\ \A k \in {0, 6, 11} : k \in Nat /\ k + n \in Nat
  BY DEF DmaLen
<1>a. a \in Seq(ReadCommand) /\ Len(a) = 6
  BY OpeningAt
<1>b. b \in Seq(ReadCommand) /\ Len(b) = 5
  BY WordsAt, StreamsTyped
<1>c. c \in Seq(ReadCommand) /\ Len(c) = n
  BY DmaOfAt
<1>d. d \in Seq(ReadCommand) /\ Len(d) = 1 /\ d[1] = Read("DST", ReadWords)
  BY ReadTyped, WordsAre DEF Regs
<1>e. e \in Seq(ReadCommand) /\ Len(e) = 2
  BY WordsAt, StreamsTyped
<1>f. f \in Seq(ReadCommand) /\ Len(f) = 7 /\ StepsAt(f, 0, Transaction["cleanup"])
  BY DmaStepsAt
<1>g. g \in Seq(ReadCommand) /\ Len(g) = 1 /\ g[1] = Read("INT_STS", 1)
  BY ReadTyped, WordsAre DEF Regs
<1> HIDE DEF n, a, b, c, d, e, f, g
<1> DEFINE s1 == a \o b
<1>1. s1 \in Seq(ReadCommand) /\ Len(s1) = Len(a) + Len(b) /\ Laid(s1, 0, a) /\ Laid(s1, Len(a), b)
  BY <1>a, <1>b, LaidOn
<1> HIDE DEF s1
<1>1l. Len(s1) = 11 /\ Laid(s1, 0, a) /\ Laid(s1, 6, b)
  BY <1>0, <1>a, <1>b, <1>1
<1> DEFINE s2 == s1 \o c
<1>2. s2 \in Seq(ReadCommand) /\ Len(s2) = Len(s1) + Len(c) /\ Laid(s2, 0, s1) /\ Laid(s2, Len(s1), c)
  BY <1>1, <1>c, LaidOn
<1> HIDE DEF s2
<1>2l. Len(s2) = 11 + n /\ Laid(s2, 0, s1) /\ Laid(s2, 11, c)
  BY <1>0, <1>1l, <1>c, <1>2
<1> DEFINE s3 == s2 \o d
<1>3. s3 \in Seq(ReadCommand) /\ Len(s3) = Len(s2) + Len(d) /\ Laid(s3, 0, s2) /\ Laid(s3, Len(s2), d)
  BY <1>2, <1>d, LaidOn
<1> HIDE DEF s3
<1>3l. Len(s3) = 12 + n /\ Laid(s3, 0, s2) /\ Laid(s3, 11 + n, d)
  BY <1>0, <1>2l, <1>d, <1>3
<1> DEFINE s4 == s3 \o e
<1>4. s4 \in Seq(ReadCommand) /\ Len(s4) = Len(s3) + Len(e) /\ Laid(s4, 0, s3) /\ Laid(s4, Len(s3), e)
  BY <1>3, <1>e, LaidOn
<1> HIDE DEF s4
<1>4l. Len(s4) = 14 + n /\ Laid(s4, 0, s3) /\ Laid(s4, 12 + n, e)
  BY <1>0, <1>3l, <1>e, <1>4
<1> DEFINE s5 == s4 \o f
<1>5. s5 \in Seq(ReadCommand) /\ Len(s5) = Len(s4) + Len(f) /\ Laid(s5, 0, s4) /\ Laid(s5, Len(s4), f)
  BY <1>4, <1>f, LaidOn
<1> HIDE DEF s5
<1>5l. Len(s5) = 21 + n /\ Laid(s5, 0, s4) /\ Laid(s5, 14 + n, f)
  BY <1>0, <1>4l, <1>f, <1>5
<1> DEFINE s == s5 \o g
<1>6. s \in Seq(ReadCommand) /\ Len(s) = Len(s5) + Len(g) /\ Laid(s, 0, s5) /\ Laid(s, Len(s5), g)
  BY <1>5, <1>g, LaidOn
<1> HIDE DEF s
<1>6l. Len(s) = 22 + n /\ Laid(s, 0, s5) /\ Laid(s, 21 + n, g)
  BY <1>0, <1>5l, <1>g, <1>6
<1>50. Laid(s, 0, s5)
  BY <1>6l
<1>51. Laid(s, 0, s4)
  <2>1. Len(s5) \in Nat /\ Len(s4) \in Nat /\ 0 \in Nat /\ 0 + Len(s4) <= Len(s5)
    BY <1>0, <1>4l, <1>5l
  <2> QED
    BY <1>5l, <1>50, <2>1, LaidKept
<1>52. Laid(s, 0, s3)
  <2>1. Len(s4) \in Nat /\ Len(s3) \in Nat /\ 0 \in Nat /\ 0 + Len(s3) <= Len(s4)
    BY <1>0, <1>3l, <1>4l
  <2> QED
    BY <1>4l, <1>51, <2>1, LaidKept
<1>53. Laid(s, 0, s2)
  <2>1. Len(s3) \in Nat /\ Len(s2) \in Nat /\ 0 \in Nat /\ 0 + Len(s2) <= Len(s3)
    BY <1>0, <1>2l, <1>3l
  <2> QED
    BY <1>3l, <1>52, <2>1, LaidKept
<1>54. Laid(s, 0, s1)
  <2>1. Len(s2) \in Nat /\ Len(s1) \in Nat /\ 0 \in Nat /\ 0 + Len(s1) <= Len(s2)
    BY <1>0, <1>1l, <1>2l
  <2> QED
    BY <1>2l, <1>53, <2>1, LaidKept
<1>55. Laid(s, 0, a)
  <2>1. Len(s1) \in Nat /\ Len(a) \in Nat /\ 0 \in Nat /\ 0 + Len(a) <= Len(s1)
    BY <1>0, <1>a, <1>1l
  <2> QED
    BY <1>1l, <1>54, <2>1, LaidKept
<1>61. Laid(s, 6, b)
  <2>1. Len(s1) \in Nat /\ Len(b) \in Nat /\ 6 \in Nat /\ 6 + Len(b) <= Len(s1)
    BY <1>0, <1>b, <1>1l
  <2> QED
    BY <1>1l, <1>54, <2>1, LaidKept
<1>62. Laid(s, 11, c)
  <2>1. Len(s2) \in Nat /\ Len(c) \in Nat /\ 11 \in Nat /\ 11 + Len(c) <= Len(s2)
    BY <1>0, <1>c, <1>2l
  <2> QED
    BY <1>2l, <1>53, <2>1, LaidKept
<1>63. Laid(s, 11 + n, d)
  <2>1. Len(s3) \in Nat /\ Len(d) \in Nat /\ 11 + n \in Nat /\ 11 + n + Len(d) <= Len(s3)
    BY <1>0, <1>d, <1>3l
  <2> QED
    BY <1>3l, <1>52, <2>1, LaidKept
<1>64. Laid(s, 12 + n, e)
  <2>1. Len(s4) \in Nat /\ Len(e) \in Nat /\ 12 + n \in Nat /\ 12 + n + Len(e) <= Len(s4)
    BY <1>0, <1>e, <1>4l
  <2> QED
    BY <1>4l, <1>51, <2>1, LaidKept
<1>65. Laid(s, 14 + n, f)
  <2>1. Len(s5) \in Nat /\ Len(f) \in Nat /\ 14 + n \in Nat /\ 14 + n + Len(f) <= Len(s5)
    BY <1>0, <1>f, <1>5l
  <2> QED
    BY <1>5l, <1>50, <2>1, LaidKept
<1>70. s[12 + n] = Read("DST", ReadWords)
  <2>1. s[11 + n + 1] = d[1]
    BY <1>d, <1>63 DEF Laid
  <2> QED
    BY <1>0, <1>d, <2>1
<1>71. s[22 + n] = Read("INT_STS", 1)
  <2>1. s[21 + n + 1] = g[1]
    BY <1>g, <1>6l DEF Laid
  <2> QED
    BY <1>0, <1>g, <2>1
<1>72. StepsAt(s, 14 + n, Transaction["cleanup"])
  <2>1. 14 + n \in Nat
    BY <1>0
  <2> QED
    BY <1>f, <1>65, <2>1, StepsKept
<1>73. BuildPlan(far, o, v) = s
  BY DEF BuildPlan, Opening, DmaOf, a, b, c, d, e, f, g, s1, s2, s3, s4, s5, s
<1>74. BuiltAs(s, far, o, v)
  BY <1>6, <1>6l, <1>55, <1>61, <1>62, <1>64, <1>70, <1>71, <1>72 DEF BuiltAs, a, b, c, e, n
<1> QED
  BY <1>73, <1>74

WriteBuiltAs(s, p) ==
    /\ s \in Seq(WriteCommand) /\ Len(s) = 21
    /\ s[1] = Read("CTRL", 1) /\ s[21] = Read("CTRL", 1)
    /\ \A i \in 1 .. 12 : s[1 + i] = Write("WR", i - 1, WriteStream(p)[i], 1)
    /\ StepsAt(s, 13, WriteTransaction)

\* A write plan as the planner builds it, place by place.
LEMMA WriteBuiltAt ==
  ASSUME NEW p \in Patterns
  PROVE  WriteBuiltAs(BuildWritePlan(p), p)
<1> DEFINE a == <<Read("CTRL", 1)>>
<1> DEFINE b == [i \in 1..WriteWords |-> Write("WR", i - 1, WriteStream(p)[i], 1)]
<1> DEFINE c == <<Write("INT_STS", 0, ClearMask, 1), Read("INT_STS", 1)>>
<1> DEFINE d == [i \in 1..4 |-> Write(DmaOrder[i], 0, WriteTransaction[i], 1)]
<1> DEFINE e == <<Read("INT_STS", 1), Read("CTRL", 1)>>
<1>0. /\ Read("CTRL", 1) \in WriteCommand /\ Read("INT_STS", 1) \in WriteCommand
      /\ Write("INT_STS", 0, ClearMask, 1) \in WriteCommand
  <2>1. "INT_STS" \in Regs /\ "CTRL" \in Regs /\ ClearMask \in Word
    BY WordsAre DEF Regs
  <2> QED
    BY <2>1, ReadTyped, WriteTyped
<1>a. a \in Seq(WriteCommand) /\ Len(a) = 1 /\ a[1] = Read("CTRL", 1)
  BY <1>0
<1>v. ASSUME NEW i \in 1 .. 12 PROVE WriteStream(p)[i] \in Word
  BY WriteStreamAt, ElementOfSeq
<1>w. ASSUME NEW i \in 1 .. 12 PROVE Write("WR", i - 1, WriteStream(p)[i], 1) \in WriteCommand
  <2>1. "WR" \in Regs /\ i - 1 \in Nat
    BY DEF Regs
  <2> QED
    BY <1>v, <2>1, WriteTyped
<1>b. b \in Seq(WriteCommand) /\ Len(b) = 12 /\ \A i \in 1 .. 12 : b[i] = Write("WR", i - 1, WriteStream(p)[i], 1)
  BY <1>w DEF WriteWords
<1>c. c \in Seq(WriteCommand) /\ Len(c) = 2 /\ c[1] = Write("INT_STS", 0, ClearMask, 1) /\ c[2] = Read("INT_STS", 1)
  BY <1>0
<1>x. ASSUME NEW j \in 1 .. 4 PROVE Write(DmaOrder[j], 0, WriteTransaction[j], 1) \in WriteCommand
  <2>1. DmaOrder[j] \in Regs /\ DmaOrder[j] # "WR"
    BY DEF DmaOrder, Regs
  <2>2. WriteTransaction[j] \in Word
    BY TransactionsTyped
  <2> QED
    BY <2>1, <2>2, WriteTyped
<1>d. d \in Seq(WriteCommand) /\ Len(d) = 4 /\ \A j \in 1 .. 4 : d[j] = Write(DmaOrder[j], 0, WriteTransaction[j], 1)
  BY <1>x
<1>e. e \in Seq(WriteCommand) /\ Len(e) = 2 /\ e[1] = Read("INT_STS", 1) /\ e[2] = Read("CTRL", 1)
  BY <1>0
<1> HIDE DEF a, b, c, d, e
<1> DEFINE s1 == a \o b
<1>1. s1 \in Seq(WriteCommand) /\ Len(s1) = Len(a) + Len(b) /\ Laid(s1, 0, a) /\ Laid(s1, Len(a), b)
  BY <1>a, <1>b, LaidOn
<1> HIDE DEF s1
<1>1l. Len(s1) = 13 /\ Laid(s1, 0, a) /\ Laid(s1, 1, b)
  BY <1>a, <1>b, <1>1
<1> DEFINE s2 == s1 \o c
<1>2. s2 \in Seq(WriteCommand) /\ Len(s2) = Len(s1) + Len(c) /\ Laid(s2, 0, s1) /\ Laid(s2, Len(s1), c)
  BY <1>1, <1>c, LaidOn
<1> HIDE DEF s2
<1>2l. Len(s2) = 15 /\ Laid(s2, 0, s1) /\ Laid(s2, 13, c)
  BY <1>1l, <1>c, <1>2
<1> DEFINE s3 == s2 \o d
<1>3. s3 \in Seq(WriteCommand) /\ Len(s3) = Len(s2) + Len(d) /\ Laid(s3, 0, s2) /\ Laid(s3, Len(s2), d)
  BY <1>2, <1>d, LaidOn
<1> HIDE DEF s3
<1>3l. Len(s3) = 19 /\ Laid(s3, 0, s2) /\ Laid(s3, 15, d)
  BY <1>2l, <1>d, <1>3
<1> DEFINE s == s3 \o e
<1>4. s \in Seq(WriteCommand) /\ Len(s) = Len(s3) + Len(e) /\ Laid(s, 0, s3) /\ Laid(s, Len(s3), e)
  BY <1>3, <1>e, LaidOn
<1> HIDE DEF s
<1>4l. Len(s) = 21 /\ Laid(s, 0, s3) /\ Laid(s, 19, e)
  BY <1>3l, <1>e, <1>4
<1>50. Laid(s, 0, s3)
  BY <1>4l
<1>51. Laid(s, 0, s2)
  <2>1. Len(s3) \in Nat /\ Len(s2) \in Nat /\ 0 \in Nat /\ 0 + Len(s2) <= Len(s3)
    BY <1>2l, <1>3l
  <2> QED
    BY <1>3l, <1>50, <2>1, LaidKept
<1>52. Laid(s, 0, s1)
  <2>1. Len(s2) \in Nat /\ Len(s1) \in Nat /\ 0 \in Nat /\ 0 + Len(s1) <= Len(s2)
    BY <1>1l, <1>2l
  <2> QED
    BY <1>2l, <1>51, <2>1, LaidKept
<1>53. Laid(s, 0, a)
  <2>1. Len(s1) \in Nat /\ Len(a) \in Nat /\ 0 \in Nat /\ 0 + Len(a) <= Len(s1)
    BY <1>a, <1>1l
  <2> QED
    BY <1>1l, <1>52, <2>1, LaidKept
<1>61. Laid(s, 1, b)
  <2>1. Len(s1) \in Nat /\ Len(b) \in Nat /\ 1 \in Nat /\ 1 + Len(b) <= Len(s1)
    BY <1>b, <1>1l
  <2> QED
    BY <1>1l, <1>52, <2>1, LaidKept
<1>62. Laid(s, 13, c)
  <2>1. Len(s2) \in Nat /\ Len(c) \in Nat /\ 13 \in Nat /\ 13 + Len(c) <= Len(s2)
    BY <1>c, <1>2l
  <2> QED
    BY <1>2l, <1>51, <2>1, LaidKept
<1>63. Laid(s, 15, d)
  <2>1. Len(s3) \in Nat /\ Len(d) \in Nat /\ 15 \in Nat /\ 15 + Len(d) <= Len(s3)
    BY <1>d, <1>3l
  <2> QED
    BY <1>3l, <1>50, <2>1, LaidKept
<1>70. s[1] = Read("CTRL", 1)
  <2>1. s[0 + 1] = a[1]
    BY <1>a, <1>53 DEF Laid
  <2> QED
    BY <1>a, <2>1
<1>71. \A i \in 1 .. 12 : s[1 + i] = Write("WR", i - 1, WriteStream(p)[i], 1)
  BY <1>b, <1>61 DEF Laid
<1>72. s[14] = c[1] /\ s[15] = c[2]
  <2>1. s[13 + 1] = c[1] /\ s[13 + 2] = c[2]
    BY <1>c, <1>62 DEF Laid
  <2> QED
    BY <2>1
<1>73. \A j \in 1 .. 4 : s[15 + j] = d[j]
  BY <1>d, <1>63 DEF Laid
<1>74. s[20] = e[1] /\ s[21] = e[2]
  <2>1. s[19 + 1] = e[1] /\ s[19 + 2] = e[2]
    BY <1>e, <1>4l DEF Laid
  <2> QED
    BY <2>1
<1>75. StepsAt(s, 13, WriteTransaction)
  <2>1. s[13 + 1] = c[1] /\ s[13 + 2] = c[2] /\ s[13 + 7] = e[1]
    BY <1>72, <1>74
  <2>2. \A j \in 1 .. 4 : s[13 + 2 + j] = d[j]
    BY <1>73
  <2> QED
    BY <1>c, <1>d, <1>e, <2>1, <2>2 DEF StepsAt
<1>76. BuildWritePlan(p) = s
  BY DEF BuildWritePlan, a, b, c, d, e, s1, s2, s3, s
<1> QED
  BY <1>4, <1>4l, <1>e, <1>70, <1>71, <1>74, <1>75, <1>76 DEF WriteBuiltAs

\* The operands of a plan: what an edit may leave in it.
PlanFields == {"kind", "far", "order", "sentinel", "script"}
ReadPlan(p) ==
    /\ DOMAIN p = PlanFields /\ p.kind = "read" /\ p.far = 1 /\ p.order \in Orders /\ p.sentinel \in Nat
    /\ p.script \in Seq(ReadCommand)
WriteFields == PlanFields \cup {"stream", "frame_after"}
WritePlan(p) == DOMAIN p = WriteFields /\ p.kind = "write" /\ p.script \in Seq(WriteCommand)
PlanInv ==
    /\ edits \in Nat /\ (edits = 0 => plan \in Built)
    /\ ReadPlan(plan) \/ WritePlan(plan)

\* What an edit puts in is a command of the plans.
LEMMA PoolsTyped == ReadPool \subseteq ReadCommand /\ WritePool \subseteq WriteCommand
<1>1. /\ \A r \in {"INT_STS", "DST", "CTRL", "CMD", "DMA_DEST_LEN", "WR", "DMA_SRC_LEN"} : r \in Regs
      /\ ClearMask \in Word /\ Noop \in Word /\ ReadWords \in Nat
      /\ \A n \in Nat : Length(n) \in Word /\ FarWord(n) \in Word /\ Sentinel(n) \in Word /\ Sentinel(n)[2] = n
  BY WordsAre DEF Regs
<1>2. /\ Write("INT_STS", 0, ClearMask, 1) \in ReadCommand /\ Read("INT_STS", 1) \in ReadCommand
      /\ Write("INT_STS", 0, Noop, 1) \in ReadCommand /\ Read("DST", ReadWords) \in ReadCommand
  BY <1>1, ReadTyped, WriteTyped
<1>3. /\ Write("DST", 0, Sentinel(0), ReadWords) \in ReadCommand /\ Write("DST", 1, Sentinel(3), ReadWords) \in ReadCommand
      /\ Write("DST", 0, Sentinel(0), 1) \in ReadCommand
  BY <1>1, WriteTyped
<1>4. /\ Write("CTRL", 0, Noop, 1) \in ReadCommand /\ Write("DMA_DEST_LEN", 0, Length(0), 1) \in ReadCommand
      /\ Write("CMD", 2, FarWord(2), 1) \in ReadCommand /\ Write("CMD", 4, Noop, 1) \in ReadCommand
  BY <1>1, WriteTyped
<1>5. [Write("CMD", 0, Noop, 1) EXCEPT !.form = "mw.b"] \in ReadCommand
  <2> DEFINE c == [Write("CMD", 0, Noop, 1) EXCEPT !.form = "mw.b"]
  <2>1. c \in Command /\ c.form = "mw.b"
    BY <1>1 DEF Write, Command, Forms
  <2> HIDE DEF c
  <2> QED
    BY <2>1 DEF ReadCommand, StreamWrite, c
<1>6. /\ Write("INT_STS", 0, ClearMask, 1) \in WriteCommand /\ Write("CTRL", 0, Noop, 1) \in WriteCommand
      /\ Write("DMA_SRC_LEN", 0, Length(3), 1) \in WriteCommand
  BY <1>1, WriteTyped
<1>7. /\ <<"init", 2>> \in Word /\ <<"ecc", 2>> \in Word /\ <<"init", 3>> \in Word /\ <<"GRESTORE", 0>> \in Word
      /\ <<"RCRC", 1>> \in Word
  BY DEF Word, Names
<1>9. /\ Write("WR", 6, <<"init", 2>>, 1) \in WriteCommand /\ Write("WR", 7, <<"ecc", 2>>, 1) \in WriteCommand
      /\ Write("WR", 6, <<"init", 3>>, 1) \in WriteCommand /\ Write("WR", 1, <<"RCRC", 1>>, 1) \in WriteCommand
  BY <1>1, <1>7, WriteTyped
<1>10. /\ Write("WR", 3, <<"GRESTORE", 0>>, 1) \in WriteCommand /\ Write("WR", 11, Noop, 1) \in WriteCommand
       /\ Write("WR", 4, FarWord(2), 1) \in WriteCommand /\ Write("WR", 2, Noop, 1) \in WriteCommand
  BY <1>1, <1>7, WriteTyped
<1>11. ReadPool \subseteq ReadCommand
  BY <1>2, <1>3, <1>4, <1>5 DEF ReadPool
<1>12. WritePool \subseteq WriteCommand
  BY <1>6, <1>9, <1>10 DEF WritePool
<1> QED
  BY <1>11, <1>12

\* What the planners build are plans.
LEMMA BuiltTyped ==
  ASSUME NEW p \in Built
  PROVE  ReadPlan(p) \/ WritePlan(p)
<1>1. ASSUME NEW o \in Orders, p = [kind |-> "read", far |-> 1, order |-> o, sentinel |-> 3, script |-> BuildPlan(1, o, 3)]
      PROVE  ReadPlan(p)
  <2>1. BuildPlan(1, o, 3) \in Seq(ReadCommand)
    BY BuiltAt DEF BuiltAs
  <2> QED
    BY <1>1, <2>1 DEF ReadPlan, PlanFields
<1>2. ASSUME p = [kind |-> "write", far |-> 1, order |-> "", sentinel |-> 3, script |-> BuildWritePlan(1),
                  stream |-> WriteStream(1), frame_after |-> FrameOf(1)]
      PROVE  WritePlan(p)
  <2>1. BuildWritePlan(1) \in Seq(WriteCommand)
    BY WriteBuiltAt DEF WriteBuiltAs, Patterns
  <2> QED
    BY <1>2, <2>1 DEF WritePlan, WriteFields, PlanFields
<1> QED
  BY <1>1, <1>2 DEF Built, Orders

\* An edit keeps the plan one whose commands the guards can be asked about.
LEMMA EditTyped ==
  ASSUME PlanInv, NEW script, Edited(script),
         ReadPlan(plan) => script \in Seq(ReadCommand), WritePlan(plan) => script \in Seq(WriteCommand)
  PROVE  PlanInv'
<1>1. edits' \in Nat /\ edits' # 0 /\ plan' = [plan EXCEPT !.script = script]
  BY DEF PlanInv, Edited
<1>2. CASE ReadPlan(plan)
  <2>1. ReadPlan(plan')
    BY <1>1, <1>2 DEF ReadPlan, PlanFields
  <2> QED
    BY <1>1, <2>1 DEF PlanInv
<1>3. CASE WritePlan(plan)
  <2>1. WritePlan(plan')
    BY <1>1, <1>3 DEF WritePlan, WriteFields, PlanFields
  <2> QED
    BY <1>1, <2>1 DEF PlanInv
<1> QED
  BY <1>2, <1>3 DEF PlanInv

\* A plan that claims another sentinel is a plan.
LEMMA ReseedTyped ==
  ASSUME PlanInv, Reseed
  PROVE  PlanInv'
<1>1. PICK v \in {0, 4, 5} :
        /\ plan.kind = "read" /\ edits' = edits + 1
        /\ plan' = [plan EXCEPT !.sentinel = v, !.script = BuildPlan(plan.far, plan.order, v)]
  BY DEF Reseed
<1>2. ReadPlan(plan)
  BY <1>1 DEF PlanInv, WritePlan
<1>3. BuildPlan(plan.far, plan.order, v) \in Seq(ReadCommand)
  <2>1. plan.far \in Nat /\ plan.order \in Orders /\ v \in Nat
    BY <1>2 DEF ReadPlan
  <2> QED
    BY <2>1, BuiltAt DEF BuiltAs
<1>4. ReadPlan(plan')
  BY <1>1, <1>2, <1>3 DEF ReadPlan, PlanFields
<1>5. edits' \in Nat /\ edits' # 0
  BY <1>1 DEF PlanInv
<1> QED
  BY <1>4, <1>5 DEF PlanInv

\* A write plan that says of itself what its commands are is a write plan.
LEMMA RelabelTyped ==
  ASSUME PlanInv, Relabel
  PROVE  PlanInv'
<1> DEFINE W == StreamOf(plan.script)
<1> DEFINE F == FrameIn(W)
<1>1. plan.kind = "write" /\ edits > 0 /\ edits' = edits /\ plan' = [plan EXCEPT !.stream = W, !.frame_after = F]
  BY DEF Relabel
<1> HIDE DEF W, F
<1>2. WritePlan(plan) /\ edits \in Nat
  BY <1>1 DEF PlanInv, ReadPlan
<1>3. WritePlan(plan')
  BY <1>1, <1>2 DEF WritePlan, WriteFields, PlanFields
<1> QED
  BY <1>1, <1>2, <1>3 DEF PlanInv

\* Whatever the edits, a plan stays a sequence of commands of its kind.
LEMMA PlanInvHolds == PlanSpec => []PlanInv
<1>1. PlanInit => PlanInv
  BY BuiltTyped DEF PlanInit, PlanInv
<1>2. ASSUME PlanInv, [PlanNext]_planVars PROVE PlanInv'
  <2>0. /\ ReadPlan(plan) => plan.kind = "read" /\ plan.script \in Seq(ReadCommand)
        /\ WritePlan(plan) => plan.kind = "write" /\ plan.script \in Seq(WriteCommand)
    BY DEF ReadPlan, WritePlan
  <2>1. CASE Drop
    <3>1. PICK i \in DOMAIN plan.script : Edited(RemoveAt(plan.script, i))
      BY <2>1 DEF Drop
    <3>2. /\ ReadPlan(plan) => RemoveAt(plan.script, i) \in Seq(ReadCommand)
          /\ WritePlan(plan) => RemoveAt(plan.script, i) \in Seq(WriteCommand)
      BY <2>0, RemoveTyped
    <3> QED
      BY <1>2, <3>1, <3>2, EditTyped
  <2>2. CASE Exchange
    <3> DEFINE X(i) == [plan.script EXCEPT ![i] = plan.script[i + 1], ![i + 1] = plan.script[i]]
    <3>1. PICK i \in 1..(Len(plan.script) - 1) : Edited(X(i))
      BY <2>2 DEF Exchange
    <3>2. /\ ReadPlan(plan) => X(i) \in Seq(ReadCommand)
          /\ WritePlan(plan) => X(i) \in Seq(WriteCommand)
      BY <2>0, ExchangeTyped
    <3> HIDE DEF X
    <3> QED
      BY <1>2, <3>1, <3>2, EditTyped
  <2>3. CASE PutIn
    <3>1. PICK i \in 1..(Len(plan.script) + 1), c \in Pool : Edited(InsertAt(plan.script, i, c))
      BY <2>3 DEF PutIn
    <3>2. /\ ReadPlan(plan) => c \in ReadCommand
          /\ WritePlan(plan) => c \in WriteCommand
      BY <2>0, PoolsTyped DEF Pool
    <3>3. /\ ReadPlan(plan) => InsertAt(plan.script, i, c) \in Seq(ReadCommand)
          /\ WritePlan(plan) => InsertAt(plan.script, i, c) \in Seq(WriteCommand)
      BY <2>0, <3>2, InsertTyped
    <3> QED
      BY <1>2, <3>1, <3>3, EditTyped
  <2>4. CASE Reseed
    BY <1>2, <2>4, ReseedTyped
  <2>6. CASE Relabel
    BY <1>2, <2>6, RelabelTyped
  <2>5. CASE UNCHANGED planVars
    <3>1. plan' = plan /\ edits' = edits
      BY <2>5 DEF planVars
    <3> QED
      BY <1>2, <3>1 DEF PlanInv, ReadPlan, WritePlan
  <2> QED
    BY <1>2, <2>1, <2>2, <2>3, <2>4, <2>5, <2>6 DEF PlanNext
<1> QED
  BY <1>1, <1>2, PTL DEF PlanSpec

\* The hole, as the soundness of a judged read plan needs it absent.
LEMMA RefilledIs ==
  ASSUME ReadPlan(plan), ~Refilled
  PROVE  ~ZeroFilled(plan.script)
BY DEF Refilled, ZeroFilled, ZeroFill

\* AcceptedIsSound for any number of edits and any size of the destination
\* buffer: whatever the guards of scripts/pcap_probe_plan.py and
\* scripts/pcap_write_plan.py accept drives the engine as the probe needs,
\* but for three holes: the destination refilled with 0 right before a stream,
\* a burst that no IDCODE or no WCFG precedes, and a command whose header
\* claims more words than its one.  A write plan's stream may be of any words
\* (LEMMA StreamJudged), not only of those that an edit puts in.
THEOREM AcceptedPlansAreSound == PlanSpec => []AcceptedIsSound
<1>1. ASSUME PlanInv PROVE AcceptedIsSound
  <2> SUFFICES ASSUME Accepted, ~Hole PROVE Harmless
    BY DEF AcceptedIsSound
  <2>1. CASE ReadPlan(plan)
    <3>1. /\ plan.kind = "read" /\ plan.order \in Orders /\ plan.far \in Nat /\ plan.sentinel \in Nat
          /\ plan.script \in Seq(ReadCommand)
      BY <2>1 DEF ReadPlan
    <3>2. Adjudicated(plan)
      BY <3>1 DEF Accepted
    <3>3. ~ZeroFilled(plan.script)
      BY <2>1, <3>1, RefilledIs DEF Hole
    <3>4. Sound(plan)
      BY <3>1, <3>2, <3>3, ReadSound
    <3> QED
      BY <3>1, <3>4 DEF Harmless
  <2>2. CASE WritePlan(plan)
    <3>1. plan.kind = "write" /\ plan.script \in Seq(WriteCommand)
      BY <2>2 DEF WritePlan
    <3>2. CheckWritePlan(plan) /\ ~Unready(plan.stream) /\ ~Miscounted(plan.stream)
      BY <3>1 DEF Accepted, Hole
    <3>3. SoundWrite(plan)
      BY <3>1, <3>2, WriteSound
    <3> QED
      BY <3>1, <3>3 DEF Harmless
  <2> QED
    BY <1>1, <2>1, <2>2 DEF PlanInv
<1> QED
  BY <1>1, PlanInvHolds, PTL

-----------------------------------------------------------------------------
(* The guards accept the read plans that are built.                         *)

\* The guards accept what the planners build.  First the schedule of a read
\* plan: a is the first m tokens of X, or those and a stream of k words.
Spelt(a, X, m) == a \in Seq(Token) /\ Len(a) = m /\ \A j \in 1 .. m : a[j] = X[j]
Spelling(a, X, m, k) ==
    /\ a \in Seq(Token) /\ Len(a) = m + 1 /\ a[m + 1] = StreamTok(k)
    /\ \A j \in 1 .. m : a[j] = X[j]

\* A plain command spells the next token of the schedule.
LEMMA SpeltOn ==
  ASSUME NEW a, NEW X, NEW m \in Nat, Spelt(a, X, m), NEW c \in ReadCommand, ~StreamWrite(c), TokenOf(c) = X[m + 1]
  PROVE  Spelt(TokenStep(a, c), X, m + 1)
<1> DEFINE b == TokenStep(a, c)
<1>1. b \in Seq(Token) /\ Grown(a, b, TokenOf(c))
  BY TokenGrows DEF Spelt
<1> HIDE DEF b
<1>2. Len(b) = m + 1 /\ b[m + 1] = X[m + 1] /\ \A j \in 1 .. m : b[j] = X[j]
  BY <1>1 DEF Grown, Spelt
<1>3. \A j \in 1 .. (m + 1) : j \in 1 .. m \/ j = m + 1
  OBVIOUS
<1> QED
  BY <1>1, <1>2, <1>3 DEF Spelt, b

\* The first word of a stream begins to spell its token.
LEMMA SpellingStarts ==
  ASSUME NEW a, NEW X, NEW m \in Nat, m > 0, Spelt(a, X, m), X[m][1] \notin {"CMD_STREAM", "FILL_DST"},
         NEW c \in ReadCommand, StreamWrite(c)
  PROVE  Spelling(TokenStep(a, c), X, m, 1)
<1> DEFINE b == TokenStep(a, c)
<1>1. ~Merges(a)
  BY DEF Merges, Spelt
<1>2. b \in Seq(Token) /\ Grown(a, b, StreamTok(1))
  BY <1>1, TokenGrows DEF Spelt
<1> HIDE DEF b
<1>3. Len(b) = m + 1 /\ b[m + 1] = StreamTok(1) /\ \A j \in 1 .. m : b[j] = X[j]
  BY <1>2 DEF Grown, Spelt
<1> QED
  BY <1>2, <1>3 DEF Spelling, b

\* One more word of a stream is spelt.
LEMMA SpellingOn ==
  ASSUME NEW a, NEW X, NEW m \in Nat, NEW k \in Nat, Spelling(a, X, m, k), NEW c \in ReadCommand, StreamWrite(c)
  PROVE  Spelling(TokenStep(a, c), X, m, k + 1)
<1> DEFINE b == TokenStep(a, c)
<1>1. a \in Seq(Token) /\ Len(a) = m + 1 /\ a[Len(a)] = StreamTok(k)
  BY DEF Spelling
<1>2. Merges(a) /\ a[Len(a)][2] = k
  <2>1. a # << >>
    BY <1>1
  <2> QED
    BY <1>1, <2>1, TokenParts DEF Merges
<1>3. b \in Seq(Token) /\ Replaced(a, b, StreamTok(k + 1))
  BY <1>1, <1>2, TokenGrows
<1> HIDE DEF b
<1>4. Len(b) = m + 1 /\ b[m + 1] = StreamTok(k + 1) /\ \A j \in 1 .. m : b[j] = X[j]
  BY <1>1, <1>3 DEF Replaced, Spelling
<1> QED
  BY <1>3, <1>4 DEF Spelling, b

\* A stream with all its words written has spelt its token.
LEMMA SpellingEnds ==
  ASSUME NEW a, NEW X, NEW m \in Nat, NEW k \in Nat, Spelling(a, X, m, k), X[m + 1] = StreamTok(k)
  PROVE  Spelt(a, X, m + 1)
<1>1. \A j \in 1 .. (m + 1) : j \in 1 .. m \/ j = m + 1
  OBVIOUS
<1> QED
  BY <1>1 DEF Spelt, Spelling

\* The tokens of the commands the planner uses.
LEMMA PlainTokens ==
  /\ TokenOf(CacheOff) = CacheTok /\ ~StreamWrite(CacheOff)
  /\ \A r, n : TokenOf(Read(r, n)) = ReadTok(r, n) /\ ~StreamWrite(Read(r, n))
  /\ \A r, v : r # "DST" => TokenOf(Write(r, 0, v, 1)) = WriteTok(r)
  /\ \A r, x, v, n : StreamWrite(Write(r, x, v, n)) <=> r = "CMD"
  /\ \A v : TokenOf(Write("DST", 0, Sentinel(v), ReadWords)) = FillTok(v, ReadWords)
BY DEF TokenOf, CacheOff, Read, Write, ReadTok, WriteTok, StreamWrite, Sentinel

\* The tokens of one transfer.
StepsTok(X, m) ==
    /\ X[m + 1] = WriteTok("INT_STS") /\ X[m + 2] = ReadTok("INT_STS", 1) /\ X[m + 7] = ReadTok("INT_STS", 1)
    /\ \A j \in 1 .. 4 : X[m + 2 + j] = WriteTok(DmaOrder[j])

\* The seven commands of a transfer spell its seven tokens.
LEMMA StepsSpelt ==
  ASSUME NEW s \in Seq(ReadCommand), NEW b \in Nat, b + 7 <= Len(s), NEW x, StepsAt(s, b, x),
         NEW u, TokenWalk(u, s), NEW X, NEW m \in Nat, StepsTok(X, m), Spelt(u[b], X, m)
  PROVE  Spelt(u[b + 7], X, m + 7)
<1>1. \A i \in 1 .. 7 : b + i \in 1 .. Len(s)
  OBVIOUS
<1>2. \A i \in 1 .. Len(s) : s[i] \in ReadCommand /\ u[i] = TokenStep(u[i - 1], s[i])
  BY DEF TokenWalk
<1>3. \A j \in 1 .. 4 : DmaOrder[j] # "DST" /\ DmaOrder[j] # "CMD"
  BY DEF DmaOrder
<1>a. /\ s[b + 1] = Write("INT_STS", 0, ClearMask, 1) /\ s[b + 2] = Read("INT_STS", 1) /\ s[b + 7] = Read("INT_STS", 1)
      /\ X[m + 1] = WriteTok("INT_STS") /\ X[m + 2] = ReadTok("INT_STS", 1) /\ X[m + 7] = ReadTok("INT_STS", 1)
  BY DEF StepsAt, StepsTok
<1>b. \A j \in 1 .. 4 : s[b + 2 + j] = Write(DmaOrder[j], 0, x[j], 1) /\ X[m + 2 + j] = WriteTok(DmaOrder[j])
  BY DEF StepsAt, StepsTok
<1>4. /\ ~StreamWrite(s[b + 1]) /\ TokenOf(s[b + 1]) = X[m + 1]
      /\ ~StreamWrite(s[b + 2]) /\ TokenOf(s[b + 2]) = X[m + 2]
      /\ ~StreamWrite(s[b + 7]) /\ TokenOf(s[b + 7]) = X[m + 7]
  <2>1. /\ TokenOf(Read("INT_STS", 1)) = ReadTok("INT_STS", 1) /\ ~StreamWrite(Read("INT_STS", 1))
        /\ TokenOf(Write("INT_STS", 0, ClearMask, 1)) = WriteTok("INT_STS") /\ ~StreamWrite(Write("INT_STS", 0, ClearMask, 1))
    BY PlainTokens
  <2> QED
    BY <1>a, <2>1
<1>5. ASSUME NEW j \in 1 .. 4 PROVE ~StreamWrite(s[b + 2 + j]) /\ TokenOf(s[b + 2 + j]) = X[m + 2 + j]
  <2>1. TokenOf(Write(DmaOrder[j], 0, x[j], 1)) = WriteTok(DmaOrder[j]) /\ ~StreamWrite(Write(DmaOrder[j], 0, x[j], 1))
    BY <1>3, PlainTokens
  <2> QED
    BY <1>b, <2>1
<1>6. /\ ~StreamWrite(s[b + 3]) /\ TokenOf(s[b + 3]) = X[m + 3]
      /\ ~StreamWrite(s[b + 4]) /\ TokenOf(s[b + 4]) = X[m + 4]
      /\ ~StreamWrite(s[b + 5]) /\ TokenOf(s[b + 5]) = X[m + 5]
      /\ ~StreamWrite(s[b + 6]) /\ TokenOf(s[b + 6]) = X[m + 6]
  <2>1. /\ b + 2 + 1 = b + 3 /\ b + 2 + 2 = b + 4 /\ b + 2 + 3 = b + 5 /\ b + 2 + 4 = b + 6
        /\ m + 2 + 1 = m + 3 /\ m + 2 + 2 = m + 4 /\ m + 2 + 3 = m + 5 /\ m + 2 + 4 = m + 6
    OBVIOUS
  <2> QED
    BY <1>5, <2>1
<1>7. ASSUME NEW i \in 1 .. 7, Spelt(u[b + (i - 1)], X, m + (i - 1)), ~StreamWrite(s[b + i]), TokenOf(s[b + i]) = X[m + i]
      PROVE  Spelt(u[b + i], X, m + i)
  <2>1. /\ b + i \in 1 .. Len(s) /\ b + i - 1 = b + (i - 1) /\ m + (i - 1) + 1 = m + i /\ m + (i - 1) \in Nat
    BY <1>1
  <2>2. u[b + i] = TokenStep(u[b + (i - 1)], s[b + i]) /\ s[b + i] \in ReadCommand
    BY <1>2, <2>1
  <2>3. Spelt(TokenStep(u[b + (i - 1)], s[b + i]), X, m + (i - 1) + 1)
    BY <1>7, <2>1, <2>2, SpeltOn
  <2> QED
    BY <2>1, <2>2, <2>3
<1>8. b + (1 - 1) = b /\ m + (1 - 1) = m /\ 2 - 1 = 1 /\ 3 - 1 = 2 /\ 4 - 1 = 3 /\ 5 - 1 = 4 /\ 6 - 1 = 5 /\ 7 - 1 = 6
  OBVIOUS
<1>11. Spelt(u[b + 1], X, m + 1)
  BY <1>4, <1>7, <1>8
<1>12. Spelt(u[b + 2], X, m + 2)
  BY <1>4, <1>7, <1>8, <1>11
<1>13. Spelt(u[b + 3], X, m + 3)
  BY <1>6, <1>7, <1>8, <1>12
<1>14. Spelt(u[b + 4], X, m + 4)
  BY <1>6, <1>7, <1>8, <1>13
<1>15. Spelt(u[b + 5], X, m + 5)
  BY <1>6, <1>7, <1>8, <1>14
<1>16. Spelt(u[b + 6], X, m + 6)
  BY <1>6, <1>7, <1>8, <1>15
<1> QED
  BY <1>4, <1>7, <1>8, <1>16

\* Where the schedule has a transfer, its seven tokens stand.
LEMMA StepsScheduled ==
  ASSUME NEW o \in Orders, NEW v, NEW X, Placed(X, o, v), NEW b \in Starts(o), NEW m \in Nat, b = m + 1
  PROVE  StepsTok(X, m)
<1>0. o = "two-unidirectional" \/ o = "one-bidirectional"
  BY DEF Orders
<1>a. (o = "two-unidirectional" /\ b \in {8, 15, 24}) \/ (o = "one-bidirectional" /\ b \in {8, 17})
  BY <1>0 DEF Starts
<1>b. EndOf(o) \in Nat /\ m + 7 <= EndOf(o)
  BY <1>a DEF EndOf
<1>1. /\ EndOf(o) \in Nat /\ m + 7 <= EndOf(o)
      /\ ((o = "two-unidirectional" /\ b \in {8, 15, 24}) \/ (o = "one-bidirectional" /\ b \in {8, 17}))
  BY <1>a, <1>b
<1>2. \A k \in 1 .. 7 : PlacedAt(X, o, v, m + k)
  <2> TAKE k \in 1 .. 7
  <2>1. m + k \in 1 .. EndOf(o)
    BY <1>1
  <2> QED
    BY <2>1 DEF Placed
<1>3. X[m + 1] = WriteTok("INT_STS")
  <2>1. PlacedAt(X, o, v, m + 1)
    BY <1>2
  <2> QED
    BY <1>1, <2>1 DEF PlacedAt, Starts, EndOf, Second, ReadoutPlace
<1>4. X[m + 2] = ReadTok("INT_STS", 1)
  <2>1. PlacedAt(X, o, v, m + 2)
    BY <1>2
  <2> QED
    BY <1>1, <2>1 DEF PlacedAt, Starts, EndOf, Second, ReadoutPlace
<1>5. X[m + 7] = ReadTok("INT_STS", 1)
  <2>1. PlacedAt(X, o, v, m + 7)
    BY <1>2
  <2> QED
    BY <1>1, <2>1 DEF PlacedAt, Starts, EndOf, Second, ReadoutPlace
<1>6. ASSUME NEW j \in 1 .. 4 PROVE X[m + 2 + j] = WriteTok(DmaOrder[j])
  <2>1. 2 + j \in 1 .. 7 /\ m + (2 + j) = m + 2 + j
    OBVIOUS
  <2>2. PlacedAt(X, o, v, m + 2 + j)
    BY <1>2, <2>1
  <2>3. \E c \in Starts(o), i \in 1 .. 4 : m + 2 + j = c + 1 + i /\ X[m + 2 + j] = WriteTok(DmaOrder[i])
    BY <1>1, <2>2 DEF PlacedAt, Starts, EndOf, Second, ReadoutPlace
  <2>4. PICK c \in Starts(o), i \in 1 .. 4 : m + 2 + j = c + 1 + i /\ X[m + 2 + j] = WriteTok(DmaOrder[i])
    BY <2>3
  <2>5. i = j
    BY <1>1, <2>4 DEF Starts
  <2> QED
    BY <2>4, <2>5
<1> QED
  BY <1>3, <1>4, <1>5, <1>6 DEF StepsTok

\* The tokens of the schedule by the place where they begin.
LEMMA ScheduleAt ==
  ASSUME NEW o \in Orders, NEW v \in Nat, NEW X, X = ExpectedSchedule(o, v), NEW d, d = DmaLen(o)
  PROVE  /\ X \in Seq(Token) /\ Len(X) = 17 + d /\ d \in Nat
         /\ X[1] = CacheTok /\ X[2] = ReadTok("CTRL", 1) /\ X[3] = ReadTok("MCTRL", 1) /\ X[4] = ReadTok("INT_STS", 1)
         /\ X[5] = FillTok(v, ReadWords) /\ X[6] = ReadTok("DST", ReadWords) /\ X[7] = StreamTok(5)
         /\ StepsTok(X, 7) /\ (o = "two-unidirectional" => StepsTok(X, 14))
         /\ X[8 + d] = ReadTok("DST", ReadWords) /\ X[9 + d] = StreamTok(2) /\ StepsTok(X, 9 + d)
         /\ X[17 + d] = ReadTok("INT_STS", 1)
<1>0. Placed(X, o, v)
  BY SchedulePlaced
<1>1. \/ o = "two-unidirectional" /\ d = 14
      \/ o = "one-bidirectional" /\ d = 7
  BY DEF Orders, DmaLen
<1>2. X \in Seq(Token) /\ Len(X) = EndOf(o) /\ EndOf(o) = 17 + d /\ \A k \in 1 .. EndOf(o) : PlacedAt(X, o, v, k)
  BY <1>0, <1>1 DEF Placed, EndOf
<1>3. \A k \in {1, 2, 3, 4, 5, 6, 7, 8 + d, 9 + d, 17 + d} : k \in 1 .. EndOf(o)
  BY <1>1, <1>2
<1>4. /\ PlacedAt(X, o, v, 1) /\ PlacedAt(X, o, v, 2) /\ PlacedAt(X, o, v, 3) /\ PlacedAt(X, o, v, 4)
      /\ PlacedAt(X, o, v, 5) /\ PlacedAt(X, o, v, 6) /\ PlacedAt(X, o, v, 7)
  BY <1>2, <1>3
<1>5. PlacedAt(X, o, v, 8 + d) /\ PlacedAt(X, o, v, 9 + d) /\ PlacedAt(X, o, v, 17 + d)
  BY <1>2, <1>3
<1>6. X[1] = CacheTok /\ X[2] = ReadTok("CTRL", 1) /\ X[3] = ReadTok("MCTRL", 1) /\ X[4] = ReadTok("INT_STS", 1)
  BY <1>1, <1>4 DEF PlacedAt, Starts, EndOf, Second, ReadoutPlace
<1>7. X[5] = FillTok(v, ReadWords) /\ X[6] = ReadTok("DST", ReadWords) /\ X[7] = StreamTok(5)
  BY <1>1, <1>4 DEF PlacedAt, Starts, EndOf, Second, ReadoutPlace
<1>8. X[8 + d] = ReadTok("DST", ReadWords)
  BY <1>1, <1>5 DEF PlacedAt, Starts, EndOf, Second, ReadoutPlace
<1>9. X[9 + d] = StreamTok(2)
  BY <1>1, <1>5 DEF PlacedAt, Starts, EndOf, Second, ReadoutPlace
<1>10. X[17 + d] = ReadTok("INT_STS", 1)
  BY <1>1, <1>5 DEF PlacedAt, Starts, EndOf, Second, ReadoutPlace
<1>11. /\ 8 \in Starts(o) /\ 8 = 7 + 1 /\ 10 + d \in Starts(o) /\ 10 + d = (9 + d) + 1 /\ 9 + d \in Nat
       /\ (o = "two-unidirectional" => 15 \in Starts(o)) /\ 15 = 14 + 1
  BY <1>1 DEF Starts
<1>12. StepsTok(X, 7)
  BY <1>0, <1>11, StepsScheduled
<1>13. StepsTok(X, 9 + d)
  BY <1>0, <1>11, StepsScheduled
<1>14. o = "two-unidirectional" => StepsTok(X, 14)
  BY <1>0, <1>11, StepsScheduled
<1> QED
  BY <1>1, <1>2, <1>6, <1>7, <1>8, <1>9, <1>10, <1>12, <1>13, <1>14

\* A stream of words, laid in the script after the first b commands.
LEMMA WordsLaid ==
  ASSUME NEW s, NEW b \in Nat, NEW x \in Seq(Word), Laid(s, b, Words(x)), NEW i \in 1 .. Len(x)
  PROVE  s[b + i] = Write("CMD", i - 1, x[i], 1) /\ StreamWrite(s[b + i])
<1>1. Len(Words(x)) = Len(x) /\ Words(x)[i] = Write("CMD", i - 1, x[i], 1)
  BY WordsAt
<1>2. s[b + i] = Words(x)[i]
  BY <1>1 DEF Laid
<1> QED
  BY <1>1, <1>2, PlainTokens

\* The commands that write a stream spell its one token.
LEMMA StreamSpelt ==
  ASSUME NEW s \in Seq(ReadCommand), NEW b \in Nat, NEW x \in Seq(Word), Laid(s, b, Words(x)),
         NEW n \in Nat, Len(x) = n + 1, b + (n + 1) <= Len(s),
         NEW u, TokenWalk(u, s), NEW X, NEW m \in Nat, m > 0, Spelt(u[b], X, m),
         X[m][1] \notin {"CMD_STREAM", "FILL_DST"}, X[m + 1] = StreamTok(n + 1)
  PROVE  Spelt(u[b + (n + 1)], X, m + 1)
<1>1. \A i \in 1 .. (n + 1) : b + i \in 1 .. Len(s) /\ StreamWrite(s[b + i])
  <2> TAKE i \in 1 .. (n + 1)
  <2>1. b + i \in 1 .. Len(s) /\ i \in 1 .. Len(x)
    OBVIOUS
  <2> QED
    BY <2>1, WordsLaid
<1>2. \A i \in 1 .. Len(s) : s[i] \in ReadCommand /\ u[i] = TokenStep(u[i - 1], s[i])
  BY DEF TokenWalk
<1> DEFINE P == {i \in 0 .. n : Spelling(u[b + (i + 1)], X, m, i + 1)}
<1>3. 0 \in P
  <2>1. 1 \in 1 .. (n + 1) /\ b + 1 - 1 = b /\ 0 \in 0 .. n /\ 0 + 1 = 1
    OBVIOUS
  <2>2. b + 1 \in 1 .. Len(s) /\ StreamWrite(s[b + 1])
    BY <1>1, <2>1
  <2>3. u[b + 1] = TokenStep(u[b], s[b + 1]) /\ s[b + 1] \in ReadCommand
    BY <1>2, <2>1, <2>2
  <2>4. Spelling(TokenStep(u[b], s[b + 1]), X, m, 1)
    BY <2>2, <2>3, SpellingStarts
  <2> QED
    BY <2>1, <2>3, <2>4
<1>4. ASSUME NEW i \in 1 .. n, i - 1 \in P PROVE i \in P
  <2>1. i + 1 \in 1 .. (n + 1) /\ b + (i + 1) - 1 = b + i /\ i \in 0 .. n /\ i \in Nat /\ i - 1 + 1 = i
    OBVIOUS
  <2>2. b + (i + 1) \in 1 .. Len(s) /\ StreamWrite(s[b + (i + 1)])
    BY <1>1, <2>1
  <2>3. u[b + (i + 1)] = TokenStep(u[b + i], s[b + (i + 1)]) /\ s[b + (i + 1)] \in ReadCommand
    BY <1>2, <2>1, <2>2
  <2>4. Spelling(u[b + i], X, m, i)
    BY <1>4, <2>1
  <2>5. Spelling(TokenStep(u[b + i], s[b + (i + 1)]), X, m, i + 1)
    BY <2>1, <2>2, <2>3, <2>4, SpellingOn
  <2> QED
    BY <2>1, <2>3, <2>5
<1>5. Spelling(u[b + (n + 1)], X, m, n + 1)
  <2> HIDE DEF P
  <2>1. 0 .. n \subseteq P
    BY <1>3, <1>4, UpTo
  <2>2. n \in P
    BY <2>1
  <2> QED
    BY <2>2 DEF P
<1>6. n + 1 \in Nat
  OBVIOUS
<1> QED
  BY <1>5, <1>6, SpellingEnds

\* A plain command of a script spells the next token.
LEMMA PlainSpelt ==
  ASSUME NEW s \in Seq(ReadCommand), NEW b \in Nat, b + 1 <= Len(s), NEW u, TokenWalk(u, s),
         NEW X, NEW m \in Nat, Spelt(u[b], X, m), ~StreamWrite(s[b + 1]), TokenOf(s[b + 1]) = X[m + 1]
  PROVE  Spelt(u[b + 1], X, m + 1)
<1>1. b + 1 \in 1 .. Len(s) /\ b + 1 - 1 = b
  OBVIOUS
<1>2. s[b + 1] \in ReadCommand /\ u[b + 1] = TokenStep(u[b], s[b + 1])
  BY <1>1 DEF TokenWalk
<1> QED
  BY <1>2, SpeltOn

\* Tokens that spell the whole schedule are the schedule.
LEMMA SpeltIs ==
  ASSUME NEW a, NEW X \in Seq(Token), NEW m \in Nat, Len(X) = m, Spelt(a, X, m)
  PROVE  a = X
<1>1. a = [j \in 1 .. m |-> a[j]] /\ X = [j \in 1 .. m |-> X[j]]
  BY DEF Spelt
<1>2. \A j \in 1 .. m : a[j] = X[j]
  BY DEF Spelt
<1> QED
  BY <1>1, <1>2

\* The transfers of a plan, laid in it after the first 11 commands.
LEMMA TransfersLaid ==
  ASSUME NEW o \in Orders, NEW s, Laid(s, 11, DmaOf(o))
  PROVE  /\ o = "two-unidirectional" => StepsAt(s, 11, Transaction["command"]) /\ StepsAt(s, 18, Transaction["readback"])
         /\ o = "one-bidirectional" => StepsAt(s, 11, Transaction["bidirectional"])
<1> DEFINE x == DmaOf(o)
<1>1. CASE o = "one-bidirectional"
  <2>1. Len(x) = 7 /\ StepsAt(x, 0, Transaction["bidirectional"])
    BY <1>1, DmaOfAt DEF DmaLen
  <2> HIDE DEF x
  <2>2. 11 \in Nat /\ Laid(s, 11, x)
    BY DEF x
  <2> QED
    BY <1>1, <2>1, <2>2, StepsKept
<1>2. CASE o = "two-unidirectional"
  <2>1. Len(x) = 14 /\ StepsAt(x, 0, Transaction["command"]) /\ StepsAt(x, 7, Transaction["readback"])
    BY <1>2, DmaOfAt DEF DmaLen
  <2> HIDE DEF x
  <2>2. \A i \in 1 .. 14 : s[11 + i] = x[i]
    BY <2>1 DEF Laid, x
  <2>3. /\ s[12] = x[1] /\ s[13] = x[2] /\ s[14] = x[3] /\ s[15] = x[4] /\ s[16] = x[5] /\ s[17] = x[6] /\ s[18] = x[7]
        /\ s[19] = x[8] /\ s[20] = x[9] /\ s[21] = x[10] /\ s[22] = x[11] /\ s[23] = x[12] /\ s[24] = x[13] /\ s[25] = x[14]
    BY <2>2
  <2>4. \A j \in 1 .. 4 : s[11 + 2 + j] = x[0 + 2 + j] /\ s[18 + 2 + j] = x[7 + 2 + j]
    BY <2>2
  <2>5. StepsAt(s, 11, Transaction["command"])
    BY <2>1, <2>3, <2>4 DEF StepsAt
  <2>6. StepsAt(s, 18, Transaction["readback"])
    BY <2>1, <2>3, <2>4 DEF StepsAt
  <2> QED
    BY <1>2, <2>5, <2>6
<1> QED
  BY <1>1, <1>2 DEF Orders

\* The tokens of a built plan are the expected schedule.
LEMMA BuiltTokens ==
  ASSUME NEW o \in Orders, NEW v \in Nat, NEW far \in Nat, NEW s, BuiltAs(s, far, o, v)
  PROVE  Tokens(s) = ExpectedSchedule(o, v)
<1> DEFINE d == DmaLen(o)
<1> DEFINE X == ExpectedSchedule(o, v)
<1>1. /\ X \in Seq(Token) /\ Len(X) = 17 + d /\ d \in Nat
      /\ X[1] = CacheTok /\ X[2] = ReadTok("CTRL", 1) /\ X[3] = ReadTok("MCTRL", 1) /\ X[4] = ReadTok("INT_STS", 1)
      /\ X[5] = FillTok(v, ReadWords) /\ X[6] = ReadTok("DST", ReadWords) /\ X[7] = StreamTok(5)
      /\ StepsTok(X, 7) /\ (o = "two-unidirectional" => StepsTok(X, 14))
      /\ X[8 + d] = ReadTok("DST", ReadWords) /\ X[9 + d] = StreamTok(2) /\ StepsTok(X, 9 + d)
      /\ X[17 + d] = ReadTok("INT_STS", 1)
  BY ScheduleAt
<1>2. /\ s \in Seq(ReadCommand) /\ Len(s) = 22 + d
      /\ Laid(s, 0, Opening(v)) /\ Laid(s, 6, Words(ReadbackStream(far))) /\ Laid(s, 11, DmaOf(o))
      /\ s[12 + d] = Read("DST", ReadWords) /\ Laid(s, 12 + d, Words(CleanupStream))
      /\ StepsAt(s, 14 + d, Transaction["cleanup"]) /\ s[22 + d] = Read("INT_STS", 1)
  BY DEF BuiltAs
<1>d. (o = "two-unidirectional" /\ d = 14) \/ (o = "one-bidirectional" /\ d = 7)
  BY DEF Orders, DmaLen
<1> HIDE DEF d, X
<1>3. PICK u : TokenWalk(u, s) /\ Tokens(s) = u[Len(s)]
  <2>1. Len(s) \in Nat
    BY <1>2
  <2> QED
    BY <2>1, TokenUnfolds
<1>4. /\ s[1] = CacheOff /\ s[2] = Read("CTRL", 1) /\ s[3] = Read("MCTRL", 1) /\ s[4] = Read("INT_STS", 1)
      /\ s[5] = Write("DST", 0, Sentinel(v), ReadWords) /\ s[6] = Read("DST", ReadWords)
  <2>0. Len(Opening(v)) = 6
    BY OpeningAt
  <2>a. \A i \in 1 .. 6 : s[0 + i] = Opening(v)[i]
    BY <1>2, <2>0 DEF Laid
  <2>b. /\ s[1] = Opening(v)[1] /\ s[2] = Opening(v)[2] /\ s[3] = Opening(v)[3]
        /\ s[4] = Opening(v)[4] /\ s[5] = Opening(v)[5] /\ s[6] = Opening(v)[6]
    BY <2>a
  <2> QED
    BY <2>b DEF Opening
<1>5. ASSUME NEW i \in 1 .. 6 PROVE ~StreamWrite(s[i]) /\ TokenOf(s[i]) = X[i]
  <2>1. i = 1 \/ i = 2 \/ i = 3 \/ i = 4 \/ i = 5 \/ i = 6
    OBVIOUS
  <2>2. /\ TokenOf(CacheOff) = CacheTok /\ ~StreamWrite(CacheOff)
        /\ \A r, n : TokenOf(Read(r, n)) = ReadTok(r, n) /\ ~StreamWrite(Read(r, n))
        /\ TokenOf(Write("DST", 0, Sentinel(v), ReadWords)) = FillTok(v, ReadWords)
        /\ ~StreamWrite(Write("DST", 0, Sentinel(v), ReadWords))
    BY PlainTokens
  <2> QED
    BY <1>1, <1>4, <2>1, <2>2
<1> DEFINE P == {i \in 0 .. 6 : Spelt(u[i], X, i)}
<1>6. Spelt(u[6], X, 6)
  <2>1. 0 \in P
    <3>1. u[0] = << >> /\ << >> \in Seq(Token) /\ Len(<< >>) = 0 /\ 1 .. 0 = {}
      BY <1>3 DEF TokenWalk, NoToken
    <3>2. Spelt(u[0], X, 0)
      BY <3>1 DEF Spelt
    <3> QED
      BY <3>2
  <2>2. ASSUME NEW i \in 1 .. 6, i - 1 \in P PROVE i \in P
    <3>1. i - 1 \in Nat /\ (i - 1) + 1 = i /\ i <= Len(s) /\ i \in 0 .. 6
      BY <1>1, <1>2
    <3>2. Spelt(u[i - 1], X, i - 1) /\ ~StreamWrite(s[(i - 1) + 1]) /\ TokenOf(s[(i - 1) + 1]) = X[(i - 1) + 1]
      BY <1>5, <2>2, <3>1
    <3>3. Spelt(u[(i - 1) + 1], X, (i - 1) + 1)
      BY <1>2, <1>3, <3>1, <3>2, PlainSpelt
    <3> QED
      BY <3>1, <3>3
  <2> HIDE DEF P
  <2>3. 0 .. 6 \subseteq P
    BY <2>1, <2>2, UpTo
  <2>4. 6 \in P
    BY <2>3
  <2> QED
    BY <2>4 DEF P
<1>7. \A r, n : ReadTok(r, n)[1] \notin {"CMD_STREAM", "FILL_DST"}
  BY TokenParts DEF ReadTok
<1>8. Spelt(u[11], X, 7)
  <2> DEFINE x == ReadbackStream(far)
  <2>1. x \in Seq(Word) /\ Len(x) = 4 + 1
    BY StreamsTyped
  <2>2. Laid(s, 6, Words(x)) /\ 6 + (4 + 1) <= Len(s) /\ 6 + (4 + 1) = 11 /\ 6 + 1 = 7 /\ 4 \in Nat /\ 6 \in Nat /\ 6 > 0
    BY <1>1, <1>2
  <2>3. X[6][1] \notin {"CMD_STREAM", "FILL_DST"} /\ X[6 + 1] = StreamTok(4 + 1)
    BY <1>1, <1>7
  <2> HIDE DEF x
  <2>4. Spelt(u[6 + (4 + 1)], X, 6 + 1)
    BY <1>2, <1>3, <1>6, <2>1, <2>2, <2>3, StreamSpelt
  <2> QED
    BY <2>2, <2>4
<1>9. Spelt(u[11 + d], X, 7 + d)
  <2>1. CASE o = "one-bidirectional"
    <3>1. d = 7 /\ 11 \in Nat /\ 7 \in Nat /\ 11 + 7 <= Len(s) /\ StepsTok(X, 7)
      BY <1>1, <1>2, <1>d, <2>1
    <3>2. StepsAt(s, 11, Transaction["bidirectional"])
      BY <1>2, <2>1, TransfersLaid
    <3>3. Spelt(u[11 + 7], X, 7 + 7)
      BY <1>2, <1>3, <1>8, <3>1, <3>2, StepsSpelt
    <3> QED
      BY <3>1, <3>3
  <2>2. CASE o = "two-unidirectional"
    <3>1. d = 14 /\ 11 \in Nat /\ 7 \in Nat /\ 11 + 7 <= Len(s) /\ StepsTok(X, 7)
      BY <1>1, <1>2, <1>d, <2>2
    <3>2. StepsAt(s, 11, Transaction["command"]) /\ StepsAt(s, 18, Transaction["readback"])
      BY <1>2, <2>2, TransfersLaid
    <3>3. Spelt(u[11 + 7], X, 7 + 7)
      BY <1>2, <1>3, <1>8, <3>1, <3>2, StepsSpelt
    <3>4. Spelt(u[18], X, 14) /\ 18 + 7 <= Len(s) /\ 18 \in Nat /\ 14 \in Nat /\ StepsTok(X, 14)
      BY <1>1, <1>2, <2>2, <3>1, <3>3
    <3>5. Spelt(u[18 + 7], X, 14 + 7)
      BY <1>2, <1>3, <3>2, <3>4, StepsSpelt
    <3> QED
      BY <3>1, <3>5
  <2> QED
    BY <1>d, <2>1, <2>2
<1>10. Spelt(u[12 + d], X, 8 + d)
  <2>1. /\ 11 + d \in Nat /\ 11 + d + 1 <= Len(s) /\ 11 + d + 1 = 12 + d /\ 7 + d \in Nat /\ 7 + d + 1 = 8 + d
    BY <1>1, <1>2
  <2>2. ~StreamWrite(s[11 + d + 1]) /\ TokenOf(s[11 + d + 1]) = X[7 + d + 1]
    BY <1>1, <1>2, <2>1, PlainTokens
  <2>3. Spelt(u[11 + d + 1], X, 7 + d + 1)
    BY <1>2, <1>3, <1>9, <2>1, <2>2, PlainSpelt
  <2> QED
    BY <2>1, <2>3
<1>11. Spelt(u[14 + d], X, 9 + d)
  <2> DEFINE x == CleanupStream
  <2>1. x \in Seq(Word) /\ Len(x) = 1 + 1
    BY StreamsTyped
  <2>2. /\ Laid(s, 12 + d, Words(x)) /\ 12 + d + (1 + 1) <= Len(s) /\ 12 + d + (1 + 1) = 14 + d /\ 8 + d + 1 = 9 + d
        /\ 1 \in Nat /\ 12 + d \in Nat /\ 8 + d \in Nat /\ 8 + d > 0
    BY <1>1, <1>2
  <2>3. X[8 + d][1] \notin {"CMD_STREAM", "FILL_DST"} /\ X[8 + d + 1] = StreamTok(1 + 1)
    <3>1. X[8 + d] = ReadTok("DST", ReadWords) /\ X[9 + d] = StreamTok(2) /\ 1 + 1 = 2
      BY <1>1
    <3>2. X[8 + d][1] = "md.l"
      BY <3>1 DEF ReadTok, Tok
    <3>3. X[8 + d + 1] = X[9 + d]
      BY <2>2, Zenon
    <3> QED
      BY <3>1, <3>2, <3>3
  <2> HIDE DEF x
  <2>4. Spelt(u[12 + d + (1 + 1)], X, 8 + d + 1)
    BY <1>2, <1>3, <1>10, <2>1, <2>2, <2>3, StreamSpelt
  <2> QED
    BY <2>2, <2>4
<1>12. Spelt(u[21 + d], X, 16 + d)
  <2>1. 14 + d \in Nat /\ 14 + d + 7 <= Len(s) /\ 14 + d + 7 = 21 + d /\ 9 + d \in Nat /\ 9 + d + 7 = 16 + d
    BY <1>1, <1>2
  <2>2. Spelt(u[14 + d + 7], X, 9 + d + 7)
    BY <1>1, <1>2, <1>3, <1>11, <2>1, StepsSpelt
  <2> QED
    BY <2>1, <2>2
<1>13. Spelt(u[22 + d], X, 17 + d)
  <2>1. /\ 21 + d \in Nat /\ 21 + d + 1 <= Len(s) /\ 21 + d + 1 = 22 + d /\ 16 + d \in Nat /\ 16 + d + 1 = 17 + d
    BY <1>1, <1>2
  <2>2. ~StreamWrite(s[21 + d + 1]) /\ TokenOf(s[21 + d + 1]) = X[16 + d + 1]
    BY <1>1, <1>2, <2>1, PlainTokens
  <2>3. Spelt(u[21 + d + 1], X, 16 + d + 1)
    BY <1>2, <1>3, <1>12, <2>1, <2>2, PlainSpelt
  <2> QED
    BY <2>1, <2>3
<1>14. u[Len(s)] = X
  <2>1. 17 + d \in Nat
    BY <1>1
  <2> QED
    BY <1>1, <1>2, <1>13, <2>1, SpeltIs
<1> QED
  BY <1>3, <1>14 DEF X

\* The transactions of a read plan.
DmaReady(a, T) == a \in DmaState /\ a.pending = << >> /\ a.txs = T /\ a.ordered

\* The next register in order is taken, and the fourth makes a transaction.
LEMMA DmaNext ==
  ASSUME NEW a \in DmaState, NEW c \in Command, IsDma(c), NEW k \in 0 .. 3, Len(a.pending) = k,
         c.reg = DmaOrder[k + 1], a.ordered
  PROVE  /\ DmaStep(a, c) \in DmaState /\ DmaStep(a, c).ordered
         /\ k < 3 => DmaStep(a, c).pending = Append(a.pending, c.value) /\ DmaStep(a, c).txs = a.txs
         /\ k = 3 => DmaStep(a, c).pending = << >> /\ DmaStep(a, c).txs = Append(a.txs, Append(a.pending, c.value))
<1> DEFINE b == DmaStep(a, c)
<1>0. c.reg = DmaOrder[Len(a.pending) + 1]
  OBVIOUS
<1>1. \/ b = [a EXCEPT !.pending = Append(a.pending, c.value)]
      \/ b = [a EXCEPT !.pending = << >>, !.txs = Append(a.txs, Append(a.pending, c.value))]
  BY <1>0 DEF DmaStep, IsDma
<1>2. b.ordered = a.ordered
  BY <1>1 DEF DmaState
<1>3. b \in DmaState /\ (DmaRefused(a, b) \/ DmaPended(a, b, c) \/ DmaFired(a, b, c))
  BY DmaStepIs
<1> HIDE DEF b
<1>4. DmaPended(a, b, c) \/ DmaFired(a, b, c)
  BY <1>2, <1>3 DEF DmaRefused
<1>5. (DmaPended(a, b, c) => k < 3) /\ (DmaFired(a, b, c) => k >= 3)
  BY DEF DmaPended, DmaFired
<1>6. /\ k < 3 => DmaPended(a, b, c)
      /\ k = 3 => DmaFired(a, b, c)
  BY <1>4, <1>5
<1> QED
  BY <1>2, <1>3, <1>6 DEF DmaPended, DmaFired, b

\* A sequence of four elements is those four appended.
LEMMA FourOf ==
  ASSUME NEW S, NEW x \in Seq(S), Len(x) = 4
  PROVE  /\ \A i \in 1 .. 4 : x[i] \in S
         /\ Append(Append(Append(Append(<< >>, x[1]), x[2]), x[3]), x[4]) = x
<1> DEFINE q1 == Append(<< >>, x[1])
<1> DEFINE q2 == Append(q1, x[2])
<1> DEFINE q3 == Append(q2, x[3])
<1> DEFINE q == Append(q3, x[4])
<1>1. \A i \in 1 .. 4 : x[i] \in S
  BY ElementOfSeq
<1>2. Len(q) = 4 /\ q[1] = x[1] /\ q[2] = x[2] /\ q[3] = x[3] /\ q[4] = x[4]
  BY <1>1, FourIs
<1>3. q \in Seq(S)
  <2>1. << >> \in Seq(S)
    OBVIOUS
  <2>2. q1 \in Seq(S)
    BY <1>1, <2>1, GrownIs
  <2> HIDE DEF q1
  <2>3. q2 \in Seq(S)
    BY <1>1, <2>2, GrownIs
  <2> HIDE DEF q2
  <2>4. q3 \in Seq(S)
    BY <1>1, <2>3, GrownIs
  <2> HIDE DEF q3
  <2> QED
    BY <1>1, <2>4, GrownIs
<1> HIDE DEF q
<1>4. q = x
  <2>1. q = [i \in 1 .. 4 |-> q[i]] /\ x = [i \in 1 .. 4 |-> x[i]]
    BY <1>2, <1>3
  <2>2. \A i \in 1 .. 4 : q[i] = x[i]
    BY <1>2
  <2> QED
    BY <2>1, <2>2
<1> QED
  BY <1>1, <1>4 DEF q, q1, q2, q3

\* A transaction is four words.
LEMMA TransactionIs ==
  ASSUME NEW x \in {"command", "readback", "cleanup", "bidirectional"}
  PROVE  Transaction[x] \in Seq(Word) /\ Len(Transaction[x]) = 4
<1>1. StreamWords \in Nat /\ CleanupWords \in Nat /\ ReadWords \in Nat
  BY PlanAssumption DEF StreamWords, CleanupWords
<1>2. \A n \in Nat : Length(n) \in Word
  BY WordsAre
<1>3. CmdBuf \in Word /\ DstBuf \in Word /\ Pcap \in Word
  BY WordsAre
<1>4. /\ Length(StreamWords) \in Word /\ Length(CleanupWords) \in Word /\ Length(ReadWords) \in Word /\ Length(0) \in Word
  BY <1>1, <1>2
<1>5. /\ Transaction["command"] = <<CmdBuf, Pcap, Length(StreamWords), Length(0)>>
      /\ Transaction["readback"] = <<Pcap, DstBuf, Length(0), Length(ReadWords)>>
      /\ Transaction["cleanup"] = <<CmdBuf, Pcap, Length(CleanupWords), Length(0)>>
      /\ Transaction["bidirectional"] = <<CmdBuf, DstBuf, Length(StreamWords), Length(ReadWords)>>
  BY DEF Transaction
<1>6. \A a, b, c, d \in Word : <<a, b, c, d>> \in Seq(Word) /\ Len(<<a, b, c, d>>) = 4
  OBVIOUS
<1>7. /\ Transaction["command"] \in Seq(Word) /\ Len(Transaction["command"]) = 4
      /\ Transaction["readback"] \in Seq(Word) /\ Len(Transaction["readback"]) = 4
  BY <1>3, <1>4, <1>5, <1>6
<1>8. /\ Transaction["cleanup"] \in Seq(Word) /\ Len(Transaction["cleanup"]) = 4
      /\ Transaction["bidirectional"] \in Seq(Word) /\ Len(Transaction["bidirectional"]) = 4
  BY <1>3, <1>4, <1>5, <1>6
<1> QED
  BY <1>7, <1>8

\* Four register writes between a clear and a wait collect one transaction.
LEMMA StepsDma ==
  ASSUME NEW s \in Seq(Command), NEW b \in Nat, b + 7 <= Len(s), NEW x \in Seq(Word), Len(x) = 4, StepsAt(s, b, x),
         NEW u, DmaWalk(u, s), NEW T, DmaReady(u[b], T)
  PROVE  DmaReady(u[b + 7], Append(T, x))
<1> DEFINE a(k) == u[b + k]
<1> DEFINE c(k) == s[b + k]
<1>1. \A k \in 1 .. 7 : a(k) = DmaStep(a(k - 1), c(k)) /\ c(k) \in Command
  <2> TAKE k \in 1 .. 7
  <2>1. b + k \in 1 .. Len(s) /\ b + k - 1 = b + (k - 1)
    OBVIOUS
  <2>2. u[b + k] = DmaStep(u[b + k - 1], s[b + k])
    BY <2>1 DEF DmaWalk
  <2> QED
    BY <2>1, <2>2, ElementOfSeq
<1>2. b + 0 = b
  OBVIOUS
<1>3. ~IsDma(c(1)) /\ ~IsDma(c(2)) /\ ~IsDma(c(7))
  <2>1. "INT_STS" \notin DmaRegs
    BY DmaRegsAre
  <2>2. ~IsDma(Write("INT_STS", 0, ClearMask, 1)) /\ ~IsDma(Read("INT_STS", 1))
    BY <2>1 DEF IsDma, Read, Write
  <2> QED
    BY <2>2 DEF StepsAt
<1>4. ASSUME NEW j \in 1 .. 4 PROVE IsDma(c(2 + j)) /\ c(2 + j).reg = DmaOrder[j] /\ c(2 + j).value = x[j]
  <2>1. s[b + 2 + j] = Write(DmaOrder[j], 0, x[j], 1) /\ b + 2 + j = b + (2 + j)
    <3>1. s[b + 2 + j] = Write(DmaOrder[j], 0, x[j], 1)
      BY DEF StepsAt
    <3>2. b + 2 + j = b + (2 + j)
      OBVIOUS
    <3> QED
      BY <3>1, <3>2
  <2>2. DmaOrder[j] \in DmaRegs
    BY DmaRegsAre DEF DmaOrder
  <2> QED
    BY <2>1, <2>2 DEF IsDma, Write
<1>5. /\ a(1) = DmaStep(a(0), c(1)) /\ a(2) = DmaStep(a(1), c(2)) /\ a(3) = DmaStep(a(2), c(3)) /\ a(4) = DmaStep(a(3), c(4))
      /\ a(5) = DmaStep(a(4), c(5)) /\ a(6) = DmaStep(a(5), c(6)) /\ a(7) = DmaStep(a(6), c(7))
      /\ c(1) \in Command /\ c(2) \in Command /\ c(3) \in Command /\ c(4) \in Command /\ c(5) \in Command
      /\ c(6) \in Command /\ c(7) \in Command
  BY <1>1
<1>6. /\ IsDma(c(3)) /\ c(3).reg = DmaOrder[1] /\ c(3).value = x[1]
      /\ IsDma(c(4)) /\ c(4).reg = DmaOrder[2] /\ c(4).value = x[2]
      /\ IsDma(c(5)) /\ c(5).reg = DmaOrder[3] /\ c(5).value = x[3]
      /\ IsDma(c(6)) /\ c(6).reg = DmaOrder[4] /\ c(6).value = x[4]
  <2>1. 2 + 1 = 3 /\ 2 + 2 = 4 /\ 2 + 3 = 5 /\ 2 + 4 = 6
    OBVIOUS
  <2> QED
    BY <1>4, <2>1
<1>7. DmaReady(a(0), T)
  BY <1>2
<1> HIDE DEF a, c
<1> DEFINE q1 == Append(<< >>, x[1])
<1> DEFINE q2 == Append(q1, x[2])
<1> DEFINE q3 == Append(q2, x[3])
<1>8. a(2) = a(0) /\ DmaReady(a(2), T)
  <2>1. a(0) \in DmaState
    BY <1>7 DEF DmaReady
  <2>2. a(1) = a(0)
    BY <1>3, <1>5, <2>1, DmaStepIs
  <2>3. a(2) = a(1)
    BY <1>3, <1>5, <2>1, <2>2, DmaStepIs
  <2> QED
    BY <1>7, <2>2, <2>3
<1>9. x[1] \in Word /\ x[2] \in Word /\ x[3] \in Word /\ x[4] \in Word /\ Append(q3, x[4]) = x
  BY FourOf
<1>10. /\ q1 \in Seq(Word) /\ Len(q1) = 1 /\ q2 \in Seq(Word) /\ Len(q2) = 2 /\ q3 \in Seq(Word) /\ Len(q3) = 3
       /\ << >> \in Seq(Word) /\ Len(<< >>) = 0
  <2>1. << >> \in Seq(Word) /\ Len(<< >>) = 0
    OBVIOUS
  <2>2. q1 \in Seq(Word) /\ Grown(<< >>, q1, x[1])
    BY <1>9, <2>1, GrownIs
  <2> HIDE DEF q1
  <2>3. q2 \in Seq(Word) /\ Grown(q1, q2, x[2])
    BY <1>9, <2>2, GrownIs
  <2> HIDE DEF q2
  <2>4. q3 \in Seq(Word) /\ Grown(q2, q3, x[3])
    BY <1>9, <2>3, GrownIs
  <2> HIDE DEF q3
  <2> QED
    BY <2>1, <2>2, <2>3, <2>4 DEF Grown
<1> HIDE DEF q1, q2, q3
<1>11. a(3) \in DmaState /\ a(3).ordered /\ a(3).pending = q1 /\ a(3).txs = T
  <2>1. a(2) \in DmaState /\ a(2).ordered /\ a(2).pending = << >> /\ a(2).txs = T /\ Len(a(2).pending) = 0
    BY <1>8, <1>10 DEF DmaReady
  <2>2. 0 \in 0 .. 3 /\ 0 + 1 = 1
    OBVIOUS
  <2>3. c(3).reg = DmaOrder[0 + 1] /\ IsDma(c(3)) /\ c(3) \in Command
    BY <1>5, <1>6, <2>2
  <2>4. /\ DmaStep(a(2), c(3)) \in DmaState /\ DmaStep(a(2), c(3)).ordered
        /\ DmaStep(a(2), c(3)).pending = Append(a(2).pending, c(3).value) /\ DmaStep(a(2), c(3)).txs = a(2).txs
    BY <2>1, <2>2, <2>3, DmaNext
  <2> QED
    BY <1>5, <1>6, <2>1, <2>4 DEF q1
<1>12. a(4) \in DmaState /\ a(4).ordered /\ a(4).pending = q2 /\ a(4).txs = T
  <2>1. a(3) \in DmaState /\ a(3).ordered /\ a(3).pending = q1 /\ a(3).txs = T /\ Len(a(3).pending) = 1
    BY <1>11, <1>10
  <2>2. 1 \in 0 .. 3 /\ 1 + 1 = 2
    OBVIOUS
  <2>3. c(4).reg = DmaOrder[1 + 1] /\ IsDma(c(4)) /\ c(4) \in Command
    BY <1>5, <1>6, <2>2
  <2>4. /\ DmaStep(a(3), c(4)) \in DmaState /\ DmaStep(a(3), c(4)).ordered
        /\ DmaStep(a(3), c(4)).pending = Append(a(3).pending, c(4).value) /\ DmaStep(a(3), c(4)).txs = a(3).txs
    BY <2>1, <2>2, <2>3, DmaNext
  <2> QED
    BY <1>5, <1>6, <2>1, <2>4 DEF q2
<1>13. a(5) \in DmaState /\ a(5).ordered /\ a(5).pending = q3 /\ a(5).txs = T
  <2>1. a(4) \in DmaState /\ a(4).ordered /\ a(4).pending = q2 /\ a(4).txs = T /\ Len(a(4).pending) = 2
    BY <1>12, <1>10
  <2>2. 2 \in 0 .. 3 /\ 2 + 1 = 3
    OBVIOUS
  <2>3. c(5).reg = DmaOrder[2 + 1] /\ IsDma(c(5)) /\ c(5) \in Command
    BY <1>5, <1>6, <2>2
  <2>4. /\ DmaStep(a(4), c(5)) \in DmaState /\ DmaStep(a(4), c(5)).ordered
        /\ DmaStep(a(4), c(5)).pending = Append(a(4).pending, c(5).value) /\ DmaStep(a(4), c(5)).txs = a(4).txs
    BY <2>1, <2>2, <2>3, DmaNext
  <2> QED
    BY <1>5, <1>6, <2>1, <2>4 DEF q3
<1>14. a(6) \in DmaState /\ a(6).ordered /\ a(6).pending = << >> /\ a(6).txs = Append(T, x)
  <2>1. a(5) \in DmaState /\ a(5).ordered /\ a(5).pending = q3 /\ a(5).txs = T /\ Len(a(5).pending) = 3
    BY <1>13, <1>10
  <2>2. 3 \in 0 .. 3 /\ 3 + 1 = 4
    OBVIOUS
  <2>3. c(6).reg = DmaOrder[3 + 1] /\ IsDma(c(6)) /\ c(6) \in Command
    BY <1>5, <1>6, <2>2
  <2>4. /\ DmaStep(a(5), c(6)) \in DmaState /\ DmaStep(a(5), c(6)).ordered
        /\ DmaStep(a(5), c(6)).pending = << >> /\ DmaStep(a(5), c(6)).txs = Append(a(5).txs, Append(a(5).pending, c(6).value))
    BY <2>1, <2>2, <2>3, DmaNext
  <2>5. Append(a(5).pending, c(6).value) = x
    BY <1>6, <1>9, <2>1
  <2> QED
    BY <1>5, <2>1, <2>4, <2>5
<1>15. a(7) = a(6)
  BY <1>3, <1>5, <1>14, DmaStepIs
<1> QED
  BY <1>14, <1>15 DEF DmaReady, a

\* Commands that write no register leave the transactions as they are.
LEMMA DmaKeeps ==
  ASSUME NEW s \in Seq(Command), NEW u, DmaWalk(u, s), NEW b \in Nat, NEW n \in Nat, b + n <= Len(s),
         \A i \in 1 .. n : ~IsDma(s[b + i]), u[b] \in DmaState
  PROVE  u[b + n] = u[b]
<1> DEFINE P == {i \in 0 .. n : u[b + i] = u[b]}
<1>1. 0 \in P
  OBVIOUS
<1>2. ASSUME NEW i \in 1 .. n, i - 1 \in P PROVE i \in P
  <2>1. b + i \in 1 .. Len(s) /\ b + i - 1 = b + (i - 1) /\ i \in 0 .. n
    OBVIOUS
  <2>2. u[b + i] = DmaStep(u[b + i - 1], s[b + i]) /\ s[b + i] \in Command
    BY <2>1, ElementOfSeq DEF DmaWalk
  <2>3. u[b + (i - 1)] = u[b]
    BY <1>2
  <2>4. u[b + i] = u[b]
    BY <2>1, <2>2, <2>3, DmaStepIs
  <2> QED
    BY <2>1, <2>4
<1> HIDE DEF P
<1>3. n \in P
  <2>1. 0 .. n \subseteq P
    BY <1>1, <1>2, UpTo
  <2> QED
    BY <2>1
<1> QED
  BY <1>3 DEF P

\* The commands of a built plan that write no register of the engine.
LEMMA PlainDma ==
  /\ ~IsDma(CacheOff) /\ \A r, n : ~IsDma(Read(r, n))
  /\ \A r, x, v, n : r \notin DmaRegs => ~IsDma(Write(r, x, v, n))
  /\ "DST" \notin DmaRegs /\ "CMD" \notin DmaRegs /\ "WR" \notin DmaRegs /\ "INT_STS" \notin DmaRegs
BY DmaRegsAre DEF IsDma, CacheOff, Read, Write

\* Where the commands of a built plan are that are no part of a transfer.
LEMMA BuiltOpening ==
  ASSUME NEW v \in Nat, NEW s, Laid(s, 0, Opening(v))
  PROVE  /\ s[1] = CacheOff /\ s[2] = Read("CTRL", 1) /\ s[3] = Read("MCTRL", 1) /\ s[4] = Read("INT_STS", 1)
         /\ s[5] = Write("DST", 0, Sentinel(v), ReadWords) /\ s[6] = Read("DST", ReadWords)
<1>1. Len(Opening(v)) = 6
  BY OpeningAt
<1>2. \A i \in 1 .. 6 : s[0 + i] = Opening(v)[i]
  BY <1>1 DEF Laid
<1>3. /\ s[1] = Opening(v)[1] /\ s[2] = Opening(v)[2] /\ s[3] = Opening(v)[3]
      /\ s[4] = Opening(v)[4] /\ s[5] = Opening(v)[5] /\ s[6] = Opening(v)[6]
  BY <1>2
<1> QED
  BY <1>3 DEF Opening

\* Three elements appended one after another, and two.
LEMMA AppendedThrice ==
  ASSUME NEW S, NEW a \in S, NEW b \in S, NEW c \in S
  PROVE  /\ \A t : Len(t) = 3 /\ t[1] = a /\ t[2] = b /\ t[3] = c /\ t = [i \in 1 .. 3 |-> t[i]]
                     => Append(Append(Append(<< >>, a), b), c) = t
         /\ \A t : Len(t) = 2 /\ t[1] = a /\ t[2] = b /\ t = [i \in 1 .. 2 |-> t[i]]
                     => Append(Append(<< >>, a), b) = t
<1> DEFINE q1 == Append(<< >>, a)
<1> DEFINE q2 == Append(q1, b)
<1> DEFINE q3 == Append(q2, c)
<1>1. << >> \in Seq(S) /\ Len(<< >>) = 0
  OBVIOUS
<1>2. q1 \in Seq(S) /\ Grown(<< >>, q1, a)
  BY <1>1, GrownIs
<1> HIDE DEF q1
<1>3. q2 \in Seq(S) /\ Grown(q1, q2, b)
  BY <1>2, GrownIs
<1> HIDE DEF q2
<1>4. q3 \in Seq(S) /\ Grown(q2, q3, c)
  BY <1>3, GrownIs
<1> HIDE DEF q3
<1>5. Len(q1) = 1 /\ q1[1] = a
  BY <1>1, <1>2 DEF Grown
<1>6. Len(q2) = 2 /\ q2[1] = a /\ q2[2] = b
  BY <1>3, <1>5 DEF Grown
<1>7. Len(q3) = 3 /\ q3[1] = a /\ q3[2] = b /\ q3[3] = c
  BY <1>4, <1>6 DEF Grown
<1>8. q2 = [i \in 1 .. 2 |-> q2[i]] /\ q3 = [i \in 1 .. 3 |-> q3[i]]
  BY <1>3, <1>4, <1>6, <1>7
<1>9. ASSUME NEW t, t[1] = a, t[2] = b, t[3] = c, t = [i \in 1 .. 3 |-> t[i]] PROVE q3 = t
  <2>1. \A i \in 1 .. 3 : q3[i] = t[i]
    BY <1>7, <1>9
  <2> QED
    BY <1>8, <1>9, <2>1
<1>10. ASSUME NEW t, t[1] = a, t[2] = b, t = [i \in 1 .. 2 |-> t[i]] PROVE q2 = t
  <2>1. \A i \in 1 .. 2 : q2[i] = t[i]
    BY <1>6, <1>10
  <2> QED
    BY <1>8, <1>10, <2>1
<1> QED
  BY <1>9, <1>10 DEF q1, q2, q3

\* The transactions of a built plan are complete, in order and the wanted ones.
LEMMA BuiltTransfers ==
  ASSUME NEW o \in Orders, NEW v \in Nat, NEW far \in Nat, NEW s, BuiltAs(s, far, o, v)
  PROVE  LET dma == DmaTransactions(s) IN dma.ordered /\ dma.pending = << >> /\ dma.txs = Wanted(o)
<1> DEFINE d == DmaLen(o)
<1> DEFINE S == Seq(Word)
<1>1. /\ s \in Seq(ReadCommand) /\ s \in Seq(Command) /\ Len(s) = 22 + d
      /\ Laid(s, 0, Opening(v)) /\ Laid(s, 6, Words(ReadbackStream(far))) /\ Laid(s, 11, DmaOf(o))
      /\ s[12 + d] = Read("DST", ReadWords) /\ Laid(s, 12 + d, Words(CleanupStream))
      /\ StepsAt(s, 14 + d, Transaction["cleanup"]) /\ s[22 + d] = Read("INT_STS", 1)
  BY DEF BuiltAs, ReadCommand
<1>d. (o = "two-unidirectional" /\ d = 14) \/ (o = "one-bidirectional" /\ d = 7)
  BY DEF Orders, DmaLen
<1> HIDE DEF d
<1>2. PICK u : DmaWalk(u, s) /\ DmaTransactions(s) = u[Len(s)]
  <2>1. Len(s) \in Nat
    BY <1>1
  <2> QED
    BY <2>1, DmaUnfolds
<1>3. DmaReady(u[0], << >>)
  <2>1. << >> \in S /\ << >> \in Seq(S) /\ TRUE \in BOOLEAN /\ u[0] = DmaStart
    BY <1>2 DEF DmaWalk
  <2> QED
    BY <2>1 DEF DmaReady, DmaStart, DmaState
<1>4. \A i \in 1 .. 11 : ~IsDma(s[i])
  <2>1. ASSUME NEW i \in 1 .. 5 PROVE ~IsDma(s[6 + i])
    <3>1. ReadbackStream(far) \in Seq(Word) /\ i \in 1 .. Len(ReadbackStream(far)) /\ 6 \in Nat
      BY StreamsTyped
    <3>2. s[6 + i] = Write("CMD", i - 1, ReadbackStream(far)[i], 1)
      BY <1>1, <3>1, WordsLaid
    <3> QED
      BY <3>2, PlainDma
  <2>2. ~IsDma(s[1]) /\ ~IsDma(s[2]) /\ ~IsDma(s[3]) /\ ~IsDma(s[4]) /\ ~IsDma(s[5]) /\ ~IsDma(s[6])
    <3>1. /\ s[1] = CacheOff /\ s[2] = Read("CTRL", 1) /\ s[3] = Read("MCTRL", 1) /\ s[4] = Read("INT_STS", 1)
          /\ s[5] = Write("DST", 0, Sentinel(v), ReadWords) /\ s[6] = Read("DST", ReadWords)
      BY <1>1, BuiltOpening
    <3> QED
      BY <3>1, PlainDma
  <2>3. ~IsDma(s[6 + 1]) /\ ~IsDma(s[6 + 2]) /\ ~IsDma(s[6 + 3]) /\ ~IsDma(s[6 + 4]) /\ ~IsDma(s[6 + 5])
    BY <2>1
  <2> TAKE i \in 1 .. 11
  <2>4. i = 1 \/ i = 2 \/ i = 3 \/ i = 4 \/ i = 5 \/ i = 6 \/ i = 6 + 1 \/ i = 6 + 2 \/ i = 6 + 3 \/ i = 6 + 4 \/ i = 6 + 5
    OBVIOUS
  <2> QED
    BY <2>2, <2>3, <2>4
<1>5. DmaReady(u[11], << >>)
  <2>1. u[0] \in DmaState /\ 0 + 11 <= Len(s) /\ 0 \in Nat /\ 11 \in Nat /\ \A i \in 1 .. 11 : ~IsDma(s[0 + i])
    BY <1>1, <1>3, <1>4, <1>d DEF DmaReady
  <2>2. u[0 + 11] = u[0]
    <3>1. PICK b \in Nat : b = 0
      OBVIOUS
    <3>2. PICK n \in Nat : n = 11
      OBVIOUS
    <3>3. b + n <= Len(s) /\ u[b] \in DmaState /\ \A i \in 1 .. n : ~IsDma(s[b + i])
      BY <2>1, <3>1, <3>2
    <3>4. u[b + n] = u[b]
      BY <1>1, <1>2, <3>3, DmaKeeps
    <3> QED
      BY <3>1, <3>2, <3>4
  <2> QED
    BY <1>3, <2>2
<1> DEFINE T1 == Append(<< >>, Transaction["command"])
<1> DEFINE T2 == IF o = "two-unidirectional" THEN Append(T1, Transaction["readback"])
                 ELSE Append(<< >>, Transaction["bidirectional"])
<1>6. DmaReady(u[11 + d], T2)
  <2>1. CASE o = "one-bidirectional"
    <3>1. d = 7 /\ 11 \in Nat /\ 11 + 7 <= Len(s)
      BY <1>1, <1>d, <2>1
    <3>2. StepsAt(s, 11, Transaction["bidirectional"])
      BY <1>1, <2>1, TransfersLaid
    <3>3. DmaReady(u[11 + 7], Append(<< >>, Transaction["bidirectional"]))
      BY <1>1, <1>2, <1>5, <3>1, <3>2, StepsDma, TransactionIs
    <3> QED
      BY <2>1, <3>1, <3>3
  <2>2. CASE o = "two-unidirectional"
    <3>1. d = 14 /\ 11 \in Nat /\ 18 \in Nat /\ 11 + 7 <= Len(s) /\ 18 + 7 <= Len(s) /\ 11 + 7 = 18 /\ 18 + 7 = 11 + 14
      BY <1>1, <1>d, <2>2
    <3>2. StepsAt(s, 11, Transaction["command"]) /\ StepsAt(s, 18, Transaction["readback"])
      BY <1>1, <2>2, TransfersLaid
    <3>3. DmaReady(u[11 + 7], T1)
      BY <1>1, <1>2, <1>5, <3>1, <3>2, StepsDma, TransactionIs
    <3>4. DmaReady(u[18], T1)
      BY <3>1, <3>3
    <3>5. DmaReady(u[18 + 7], Append(T1, Transaction["readback"]))
      <4> HIDE DEF T1
      <4> QED
        BY <1>1, <1>2, <3>1, <3>2, <3>4, StepsDma, TransactionIs
    <3> QED
      BY <2>2, <3>1, <3>5
  <2> QED
    BY <1>d, <2>1, <2>2
<1> HIDE DEF T2
<1>7. DmaReady(u[14 + d], T2)
  <2>1. u[11 + d] \in DmaState /\ 11 + d \in Nat /\ 3 \in Nat /\ 11 + d + 3 <= Len(s) /\ 11 + d + 3 = 14 + d
    BY <1>1, <1>6, <1>d DEF DmaReady
  <2>2. /\ 11 + d + 1 = 12 + d /\ 11 + d + 2 = 12 + d + 1 /\ 11 + d + 3 = 12 + d + 2 /\ 12 + d \in Nat
        /\ \A i \in 1 .. 3 : i = 1 \/ i = 2 \/ i = 3
    BY <1>d
  <2>3. ~IsDma(s[12 + d])
    BY <1>1, PlainDma
  <2>4. ASSUME NEW i \in 1 .. 2 PROVE ~IsDma(s[12 + d + i])
    <3>1. CleanupStream \in Seq(Word) /\ i \in 1 .. Len(CleanupStream)
      BY StreamsTyped
    <3>2. s[12 + d + i] = Write("CMD", i - 1, CleanupStream[i], 1)
      BY <1>1, <2>2, <3>1, WordsLaid
    <3> QED
      BY <3>2, PlainDma
  <2>5. ~IsDma(s[12 + d + 1]) /\ ~IsDma(s[12 + d + 2])
    BY <2>4
  <2>6. \A i \in 1 .. 3 : ~IsDma(s[11 + d + i])
    BY <2>2, <2>3, <2>5
  <2> DEFINE k == 11 + d
  <2>a. k \in Nat /\ k + 3 <= Len(s) /\ u[k] \in DmaState /\ \A i \in 1 .. 3 : ~IsDma(s[k + i])
    BY <2>1, <2>6
  <2> HIDE DEF k
  <2>b. u[k + 3] = u[k]
    <3>1. s \in Seq(Command) /\ DmaWalk(u, s) /\ 3 \in Nat
      BY <1>1, <1>2
    <3> QED
      BY <2>a, <3>1, DmaKeeps
  <2>7. u[11 + d + 3] = u[11 + d]
    BY <2>b DEF k
  <2> QED
    BY <1>6, <2>1, <2>7
<1>8. DmaReady(u[21 + d], Append(T2, Transaction["cleanup"]))
  <2>1. 14 + d \in Nat /\ 14 + d + 7 <= Len(s) /\ 14 + d + 7 = 21 + d
    BY <1>1, <1>d
  <2>2. DmaReady(u[14 + d + 7], Append(T2, Transaction["cleanup"]))
    BY <1>1, <1>2, <1>7, <2>1, StepsDma, TransactionIs
  <2> QED
    BY <2>1, <2>2
<1> DEFINE T3 == Append(T2, Transaction["cleanup"])
<1>9. DmaReady(u[22 + d], T3)
  <2> HIDE DEF T3
  <2>0. DmaReady(u[21 + d], T3)
    BY <1>8 DEF T3
  <2>1. u[21 + d] \in DmaState /\ 21 + d \in Nat /\ 1 \in Nat /\ 21 + d + 1 <= Len(s) /\ 21 + d + 1 = 22 + d
    BY <1>1, <1>d, <2>0 DEF DmaReady
  <2>2. \A i \in 1 .. 1 : ~IsDma(s[21 + d + i])
    BY <1>1, <2>1, PlainDma
  <2>3. u[21 + d + 1] = u[21 + d]
    BY <1>1, <1>2, <2>1, <2>2, DmaKeeps
  <2> QED
    BY <2>0, <2>1, <2>3
<1>10. T3 = Wanted(o)
  <2>0. /\ Transaction["command"] \in S /\ Transaction["readback"] \in S /\ Transaction["cleanup"] \in S
        /\ Transaction["bidirectional"] \in S
    BY TransactionIs
  <2> HIDE DEF S
  <2>1. CASE o = "one-bidirectional"
    <3> DEFINE W == Wanted(o)
    <3>1. Len(W) = 2 /\ W[1] = Transaction["bidirectional"] /\ W[2] = Transaction["cleanup"]
      BY <2>1, WantedIs
    <3>2. W = [i \in 1 .. 2 |-> W[i]]
      <4>1. DOMAIN ExpectedTransactions(o) = 1 .. 2
        BY <2>1 DEF ExpectedTransactions
      <4> QED
        BY <4>1 DEF Wanted
    <3> HIDE DEF W
    <3>3. T3 = Append(Append(<< >>, Transaction["bidirectional"]), Transaction["cleanup"])
      BY <2>1 DEF T2
    <3>4. Append(Append(<< >>, Transaction["bidirectional"]), Transaction["cleanup"]) = W
      BY <2>0, <3>1, <3>2, AppendedThrice
    <3> QED
      BY <3>3, <3>4 DEF W
  <2>2. CASE o = "two-unidirectional"
    <3> DEFINE W == Wanted(o)
    <3>1. Len(W) = 3 /\ W[1] = Transaction["command"] /\ W[2] = Transaction["readback"] /\ W[3] = Transaction["cleanup"]
      BY <2>2, WantedIs
    <3>2. W = [i \in 1 .. 3 |-> W[i]]
      <4>1. DOMAIN ExpectedTransactions(o) = 1 .. 3
        BY <2>2 DEF ExpectedTransactions
      <4> QED
        BY <4>1 DEF Wanted
    <3> HIDE DEF W
    <3>3. T3 = Append(Append(Append(<< >>, Transaction["command"]), Transaction["readback"]), Transaction["cleanup"])
      BY <2>2 DEF T2
    <3>4. Append(Append(Append(<< >>, Transaction["command"]), Transaction["readback"]), Transaction["cleanup"]) = W
      BY <2>0, <3>1, <3>2, AppendedThrice
    <3> QED
      BY <3>3, <3>4 DEF W
  <2> QED
    BY <1>d, <2>1, <2>2
<1> QED
  BY <1>1, <1>2, <1>9, <1>10 DEF DmaReady

\* The streams of a read plan: ph are the streams before, and the k first
\* words of x are being collected.
Drawn(a, ph, x, k) ==
    /\ Collected(a) /\ a.phases = ph /\ DOMAIN a.current = 0 .. (k - 1)
    /\ \A i \in 1 .. k : a.current[i - 1] = x[i]

\* What one command does to the streams collected.
LEMMA DrawnSteps ==
  ASSUME NEW a, Collected(a), NEW c \in ReadCommand
  PROVE  /\ Collected(PhaseStep(a, c))
         /\ ~StreamWrite(c) => PhaseKept(a, PhaseStep(a, c))
         /\ StreamWrite(c) => PhaseOpened(a, PhaseStep(a, c), c) \/ PhaseGrown(a, PhaseStep(a, c), c)
<1> DEFINE S == {a.phases}
<1> DEFINE S2 == {a.current}
<1>1. a \in [phases : S, current : S2]
  BY DEF Collected
<1> HIDE DEF S, S2
<1> QED
  BY <1>1, PhaseSteps

\* A command that writes no stream keeps the stream being collected.
LEMMA DrawnKept ==
  ASSUME NEW a, NEW ph, NEW x, NEW k \in Nat, Drawn(a, ph, x, k), NEW c \in ReadCommand, ~StreamWrite(c)
  PROVE  Drawn(PhaseStep(a, c), ph, x, k)
<1> DEFINE b == PhaseStep(a, c)
<1>1. Collected(b) /\ PhaseKept(a, b)
  BY DrawnSteps DEF Drawn
<1> HIDE DEF b
<1> QED
  BY <1>1 DEF Drawn, PhaseKept, b

\* The next word of a stream is collected.
LEMMA DrawnOn ==
  ASSUME NEW a, NEW ph, NEW x, NEW k \in Nat, Drawn(a, ph, x, k), NEW c \in ReadCommand, StreamWrite(c),
         c.at = k, c.value = x[k + 1]
  PROVE  Drawn(PhaseStep(a, c), ph, x, k + 1)
<1> DEFINE b == PhaseStep(a, c)
<1>1. Collected(b) /\ (PhaseOpened(a, b, c) \/ PhaseGrown(a, b, c))
  BY DrawnSteps DEF Drawn
<1> HIDE DEF b
<1>2. c.at \notin DOMAIN a.current
  BY DEF Drawn
<1>3. b.phases = ph /\ b.current = Extended(a.current, k, x[k + 1])
  BY <1>1, <1>2 DEF PhaseOpened, PhaseGrown, Drawn
<1>4. DOMAIN b.current = 0 .. (k - 1) \cup {k} /\ 0 .. (k - 1) \cup {k} = 0 .. (k + 1 - 1)
  BY <1>3 DEF Extended, Drawn
<1>5. ASSUME NEW i \in 1 .. (k + 1) PROVE b.current[i - 1] = x[i]
  <2>1. CASE i = k + 1
    <3>1. i - 1 = k
      BY <2>1
    <3> QED
      BY <1>3, <2>1, <3>1 DEF Extended
  <2>2. CASE i \in 1 .. k
    <3>1. i - 1 \in 0 .. (k - 1) /\ i - 1 # k
      BY <2>2
    <3> QED
      BY <1>3, <2>2, <3>1 DEF Extended, Drawn
  <2> QED
    BY <2>1, <2>2
<1> QED
  BY <1>1, <1>3, <1>4, <1>5 DEF Drawn, b

\* The first word of the next stream closes the one before.
LEMMA DrawnNext ==
  ASSUME NEW a, NEW ph, NEW x, NEW k \in Nat, k > 0, Drawn(a, ph, x, k), NEW c \in ReadCommand, StreamWrite(c),
         c.at = 0, NEW y, c.value = y[1]
  PROVE  Drawn(PhaseStep(a, c), Append(ph, a.current), y, 1)
<1> DEFINE b == PhaseStep(a, c)
<1>1. Collected(b) /\ (PhaseOpened(a, b, c) \/ PhaseGrown(a, b, c))
  BY DrawnSteps DEF Drawn
<1> HIDE DEF b
<1>2. c.at \in DOMAIN a.current
  BY DEF Drawn
<1>3. b.phases = Append(ph, a.current) /\ b.current = [i \in {0} |-> y[1]]
  BY <1>1, <1>2 DEF PhaseOpened, PhaseGrown, Drawn
<1>4. {0} = 0 .. (1 - 1) /\ \A i \in 1 .. 1 : i - 1 = 0 /\ i = 1
  OBVIOUS
<1> QED
  BY <1>1, <1>3, <1>4 DEF Drawn, b

\* Commands that write no stream keep the streams collected.
LEMMA DrawnKeeps ==
  ASSUME NEW s \in Seq(ReadCommand), NEW u, PhaseWalk(u, s), NEW b \in Nat, NEW n \in Nat, b + n <= Len(s),
         \A i \in 1 .. n : ~StreamWrite(s[b + i]), NEW ph, NEW x, NEW k \in Nat, Drawn(u[b], ph, x, k)
  PROVE  Drawn(u[b + n], ph, x, k) /\ u[b + n].current = u[b].current
<1> DEFINE P == {i \in 0 .. n : Drawn(u[b + i], ph, x, k) /\ u[b + i].current = u[b].current}
<1>1. 0 \in P
  OBVIOUS
<1>2. ASSUME NEW i \in 1 .. n, i - 1 \in P PROVE i \in P
  <2>1. b + i \in 1 .. Len(s) /\ b + i - 1 = b + (i - 1) /\ i \in 0 .. n
    OBVIOUS
  <2>2. u[b + i] = PhaseStep(u[b + i - 1], s[b + i]) /\ s[b + i] \in ReadCommand
    BY <2>1, ElementOfSeq DEF PhaseWalk
  <2>3. Drawn(u[b + (i - 1)], ph, x, k) /\ u[b + (i - 1)].current = u[b].current
    BY <1>2
  <2>4. Drawn(u[b + i], ph, x, k)
    BY <2>1, <2>2, <2>3, DrawnKept
  <2>5. PhaseKept(u[b + (i - 1)], u[b + i])
    BY <2>1, <2>2, <2>3, DrawnSteps DEF Drawn
  <2> QED
    BY <2>1, <2>3, <2>4, <2>5 DEF PhaseKept
<1> HIDE DEF P
<1>3. n \in P
  <2>1. 0 .. n \subseteq P
    BY <1>1, <1>2, UpTo
  <2> QED
    BY <2>1
<1> QED
  BY <1>3 DEF P

\* The commands of a transfer write no stream.
LEMMA StepsPlain ==
  ASSUME NEW s, NEW b \in Nat, NEW x, StepsAt(s, b, x)
  PROVE  \A i \in 1 .. 7 : ~StreamWrite(s[b + i])
<1>1. ~StreamWrite(Write("INT_STS", 0, ClearMask, 1)) /\ ~StreamWrite(Read("INT_STS", 1))
  BY PlainTokens
<1>2. ~StreamWrite(s[b + 1]) /\ ~StreamWrite(s[b + 2]) /\ ~StreamWrite(s[b + 7])
  BY <1>1 DEF StepsAt
<1>3. ASSUME NEW j \in 1 .. 4 PROVE ~StreamWrite(s[b + 2 + j])
  <2>1. DmaOrder[j] # "CMD"
    BY DEF DmaOrder
  <2>2. ~StreamWrite(Write(DmaOrder[j], 0, x[j], 1))
    BY <2>1, PlainTokens
  <2> QED
    BY <2>2 DEF StepsAt
<1>4. ~StreamWrite(s[b + 2 + 1]) /\ ~StreamWrite(s[b + 2 + 2]) /\ ~StreamWrite(s[b + 2 + 3]) /\ ~StreamWrite(s[b + 2 + 4])
  BY <1>3
<1>5. b + 2 + 1 = b + 3 /\ b + 2 + 2 = b + 4 /\ b + 2 + 3 = b + 5 /\ b + 2 + 4 = b + 6
  OBVIOUS
<1> TAKE i \in 1 .. 7
<1>6. i = 1 \/ i = 2 \/ i = 3 \/ i = 4 \/ i = 5 \/ i = 6 \/ i = 7
  OBVIOUS
<1> QED
  BY <1>2, <1>4, <1>5, <1>6

\* The words of one stream, from the first that is not yet collected.
LEMMA DrawnStream ==
  ASSUME NEW s \in Seq(ReadCommand), NEW u, PhaseWalk(u, s), NEW b \in Nat, NEW x \in Seq(Word), Laid(s, b, Words(x)),
         b + Len(x) <= Len(s), NEW ph, NEW m \in Nat, m <= Len(x), Drawn(u[b + m], ph, x, m)
  PROVE  Drawn(u[b + Len(x)], ph, x, Len(x))
<1>0. PICK n \in Nat : Len(x) = m + n
  <2>1. Len(x) \in Nat /\ Len(x) - m \in Nat /\ Len(x) = m + (Len(x) - m)
    OBVIOUS
  <2> QED
    BY <2>1
<1> DEFINE P == {i \in 0 .. n : Drawn(u[b + (m + i)], ph, x, m + i)}
<1>1. 0 \in P
  OBVIOUS
<1>2. ASSUME NEW i \in 1 .. n, i - 1 \in P PROVE i \in P
  <2> DEFINE j == m + (i - 1)
  <2>1. j \in Nat /\ j + 1 = m + i /\ j + 1 \in 1 .. Len(x) /\ j + 1 - 1 = j
    BY <1>0
  <2>2. b + (j + 1) \in 1 .. Len(s) /\ b + (j + 1) - 1 = b + j
    BY <1>0, <2>1
  <2>3. Drawn(u[b + j], ph, x, j)
    BY <1>2
  <2> HIDE DEF j
  <2>4. u[b + (j + 1)] = PhaseStep(u[b + j], s[b + (j + 1)]) /\ s[b + (j + 1)] \in ReadCommand
    <3>0. PICK r : r = b + (j + 1)
      OBVIOUS
    <3>1. r \in 1 .. Len(s) /\ r - 1 = b + j
      BY <2>1, <2>2, <3>0
    <3>2. u[r] = PhaseStep(u[r - 1], s[r]) /\ s[r] \in ReadCommand
      BY <3>1, ElementOfSeq DEF PhaseWalk
    <3> QED
      BY <2>1, <3>0, <3>1, <3>2
  <2>5. s[b + (j + 1)] = Write("CMD", j + 1 - 1, x[j + 1], 1) /\ StreamWrite(s[b + (j + 1)])
    <3>0. PICK q : q = j + 1
      OBVIOUS
    <3>1. q \in 1 .. Len(x)
      BY <2>1, <3>0
    <3>2. s[b + q] = Write("CMD", q - 1, x[q], 1) /\ StreamWrite(s[b + q])
      BY <3>1, WordsLaid
    <3> QED
      BY <2>1, <3>0, <3>2
  <2>6. s[b + (j + 1)].at = j /\ s[b + (j + 1)].value = x[j + 1]
    BY <2>1, <2>5 DEF Write
  <2>7. Drawn(u[b + (j + 1)], ph, x, j + 1)
    BY <2>1, <2>3, <2>4, <2>5, <2>6, DrawnOn
  <2>8. Drawn(u[b + (m + i)], ph, x, m + i) /\ i \in 0 .. n
    <3>1. Drawn(u[b + (m + i)], ph, x, m + i)
      BY <2>1, <2>7, Zenon
    <3> QED
      BY <3>1
  <2> QED
    BY <2>8
<1> HIDE DEF P
<1>3. n \in P
  <2>1. 0 .. n \subseteq P
    BY <1>1, <1>2, UpTo
  <2> QED
    BY <2>1
<1> QED
  BY <1>0, <1>3 DEF P

\* The streams of a built plan are the two expected ones.
LEMMA BuiltStreams ==
  ASSUME NEW o \in Orders, NEW v \in Nat, NEW far \in Nat, NEW s, BuiltAs(s, far, o, v)
  PROVE  LET phases == CommandBufferPhases(s)
         IN  Len(phases) = 2 /\ IsStream(phases[1], ReadbackStream(far)) /\ IsStream(phases[2], CleanupStream)
<1> DEFINE d == DmaLen(o)
<1> DEFINE x == ReadbackStream(far)
<1> DEFINE y == CleanupStream
<1>1. /\ s \in Seq(ReadCommand) /\ Len(s) = 22 + d
      /\ Laid(s, 0, Opening(v)) /\ Laid(s, 6, Words(x)) /\ Laid(s, 11, DmaOf(o))
      /\ s[12 + d] = Read("DST", ReadWords) /\ Laid(s, 12 + d, Words(y))
      /\ StepsAt(s, 14 + d, Transaction["cleanup"]) /\ s[22 + d] = Read("INT_STS", 1)
  BY DEF BuiltAs
<1>2. x \in Seq(Word) /\ Len(x) = 5 /\ y \in Seq(Word) /\ Len(y) = 2
  BY StreamsTyped
<1>d. (o = "two-unidirectional" /\ d = 14) \/ (o = "one-bidirectional" /\ d = 7)
  BY DEF Orders, DmaLen
<1> HIDE DEF d, x, y
<1>n. Len(s) = 22 + d /\ Len(x) = 5 /\ Len(y) = 2 /\ (d = 14 \/ d = 7)
  BY <1>1, <1>2, <1>d
<1>3. PICK u : PhaseWalk(u, s) /\ Walk(PhaseStep, PhaseStart, s) = u[Len(s)]
  <2>1. Len(s) \in Nat
    BY <1>1
  <2> QED
    BY <2>1, PhaseUnfolds
<1>4. Drawn(u[0], << >>, x, 0)
  <2>1. u[0] = PhaseStart
    BY <1>3 DEF PhaseWalk
  <2>2. 1 .. 0 = {} /\ 0 .. (0 - 1) = {} /\ DOMAIN << >> = {}
    OBVIOUS
  <2> QED
    BY <2>1, <2>2 DEF Drawn, PhaseStart, Collected
<1>5. Drawn(u[6], << >>, x, 0)
  <2>1. ~StreamWrite(s[1]) /\ ~StreamWrite(s[2]) /\ ~StreamWrite(s[3]) /\ ~StreamWrite(s[4]) /\ ~StreamWrite(s[5]) /\ ~StreamWrite(s[6])
    <3>1. /\ s[1] = CacheOff /\ s[2] = Read("CTRL", 1) /\ s[3] = Read("MCTRL", 1) /\ s[4] = Read("INT_STS", 1)
          /\ s[5] = Write("DST", 0, Sentinel(v), ReadWords) /\ s[6] = Read("DST", ReadWords)
      BY <1>1, BuiltOpening
    <3> QED
      BY <3>1, PlainTokens
  <2>2. ASSUME NEW i \in 1 .. 6 PROVE ~StreamWrite(s[0 + i])
    <3>1. 0 + i = 1 \/ 0 + i = 2 \/ 0 + i = 3 \/ 0 + i = 4 \/ 0 + i = 5 \/ 0 + i = 6
      OBVIOUS
    <3> QED
      BY <2>1, <3>1
  <2>3. 0 \in Nat /\ 6 \in Nat /\ 0 + 6 <= Len(s)
    BY <1>n
  <2>4. Drawn(u[0 + 6], << >>, x, 0)
    BY <1>1, <1>3, <1>4, <2>2, <2>3, DrawnKeeps
  <2> QED
    BY <2>4
<1>6. Drawn(u[11], << >>, x, 5)
  <2>1. 6 \in Nat /\ 0 \in Nat /\ 6 + Len(x) <= Len(s) /\ 0 <= Len(x) /\ 6 + 0 = 6
    BY <1>n
  <2>2. Drawn(u[6 + 0], << >>, x, 0)
    BY <1>5, <2>1
  <2>3. Drawn(u[6 + Len(x)], << >>, x, Len(x))
    BY <1>1, <1>2, <1>3, <2>1, <2>2, DrawnStream
  <2> QED
    BY <1>2, <2>3
<1>7. Drawn(u[12 + d], << >>, x, 5)
  <2>1. \A i \in 1 .. (d + 1) : ~StreamWrite(s[11 + i])
    <3>1. ~StreamWrite(s[11 + (d + 1)])
      <4>1. 11 + (d + 1) = 12 + d
        BY <1>d
      <4> QED
        BY <1>1, <4>1, PlainTokens
    <3>2. CASE o = "one-bidirectional"
      <4>1. d = 7 /\ 11 \in Nat /\ \A i \in 1 .. (d + 1) : i \in 1 .. 7 \/ i = d + 1
        BY <1>d, <3>2
      <4>2. StepsAt(s, 11, Transaction["bidirectional"])
        BY <1>1, <3>2, TransfersLaid
      <4>3. \A i \in 1 .. 7 : ~StreamWrite(s[11 + i])
        BY <4>1, <4>2, StepsPlain
      <4> QED
        BY <3>1, <4>1, <4>3
    <3>3. CASE o = "two-unidirectional"
      <4>1. d = 14 /\ 11 \in Nat /\ 18 \in Nat /\ \A i \in 1 .. (d + 1) : i \in 1 .. 7 \/ i = d + 1 \/ i - 7 \in 1 .. 7
        BY <1>d, <3>3
      <4>2. StepsAt(s, 11, Transaction["command"]) /\ StepsAt(s, 18, Transaction["readback"])
        BY <1>1, <3>3, TransfersLaid
      <4>3. \A i \in 1 .. 7 : ~StreamWrite(s[11 + i])
        BY <4>1, <4>2, StepsPlain
      <4>4. \A i \in 1 .. 7 : ~StreamWrite(s[18 + i])
        BY <4>1, <4>2, StepsPlain
      <4>5. \A i \in 1 .. (d + 1) : i - 7 \in 1 .. 7 => 11 + i = 18 + (i - 7)
        BY <4>1
      <4> QED
        BY <3>1, <4>1, <4>3, <4>4, <4>5
    <3> QED
      BY <1>d, <3>2, <3>3
  <2>2. PICK n : n = d + 1
    OBVIOUS
  <2>3. n \in Nat /\ 11 \in Nat /\ 5 \in Nat /\ 11 + n <= Len(s) /\ 11 + n = 12 + d
    BY <1>1, <1>d, <2>2
  <2>4. \A i \in 1 .. n : ~StreamWrite(s[11 + i])
    BY <2>1, <2>2
  <2>5. Drawn(u[11 + n], << >>, x, 5)
    BY <1>1, <1>3, <1>6, <2>3, <2>4, DrawnKeeps
  <2> QED
    BY <2>3, <2>5
<1> DEFINE c1 == u[12 + d].current
<1> DEFINE ph == Append(<< >>, c1)
<1>8. Drawn(u[13 + d], ph, y, 1)
  <2>1. /\ 12 + d \in Nat /\ 1 \in 1 .. Len(y) /\ 12 + d + 1 = 13 + d /\ 13 + d \in 1 .. Len(s) /\ 13 + d - 1 = 12 + d
        /\ 5 \in Nat /\ 5 > 0 /\ 1 - 1 = 0
    BY <1>n
  <2>2. s[12 + d + 1] = Write("CMD", 1 - 1, y[1], 1) /\ StreamWrite(s[12 + d + 1])
    BY <1>1, <1>2, <2>1, WordsLaid
  <2>3. StreamWrite(s[13 + d]) /\ s[13 + d].at = 0 /\ s[13 + d].value = y[1]
    BY <2>1, <2>2 DEF Write
  <2>4. PICK r : r = 13 + d
    OBVIOUS
  <2>5. r \in 1 .. Len(s) /\ r - 1 = 12 + d
    BY <1>d, <2>1, <2>4
  <2>6. u[r] = PhaseStep(u[r - 1], s[r]) /\ s[r] \in ReadCommand
    BY <1>1, <1>3, <2>5, ElementOfSeq DEF PhaseWalk
  <2>7. u[13 + d] = PhaseStep(u[12 + d], s[13 + d]) /\ s[13 + d] \in ReadCommand
    BY <1>d, <2>4, <2>5, <2>6
  <2> QED
    BY <1>7, <2>1, <2>3, <2>7, DrawnNext
<1>9. Drawn(u[14 + d], ph, y, 2)
  <2>1. 12 + d \in Nat /\ 1 \in Nat /\ 1 <= Len(y) /\ 12 + d + Len(y) <= Len(s) /\ 12 + d + 1 = 13 + d /\ 12 + d + 2 = 14 + d
    BY <1>n
  <2>2. Drawn(u[12 + d + 1], ph, y, 1)
    BY <1>8, <2>1
  <2> HIDE DEF ph
  <2>3. Drawn(u[12 + d + Len(y)], ph, y, Len(y))
    BY <1>1, <1>2, <1>3, <2>1, <2>2, DrawnStream
  <2> QED
    BY <1>2, <2>1, <2>3
<1>10. Drawn(u[22 + d], ph, y, 2)
  <2>1. 14 + d \in Nat /\ 8 \in Nat /\ 2 \in Nat /\ 14 + d + 8 <= Len(s) /\ 14 + d + 8 = 22 + d
    BY <1>n
  <2>2. \A i \in 1 .. 7 : ~StreamWrite(s[14 + d + i])
    BY <1>1, <2>1, StepsPlain
  <2>3. ~StreamWrite(s[22 + d])
    BY <1>1, PlainTokens
  <2>4. \A i \in 1 .. 8 : i \in 1 .. 7 \/ i = 8
    OBVIOUS
  <2>5. PICK b : b = 14 + d
    OBVIOUS
  <2>6. b \in Nat /\ b + 8 <= Len(s) /\ b + 8 = 22 + d /\ Drawn(u[b], ph, y, 2)
    BY <1>9, <1>d, <2>1, <2>5
  <2>7. \A i \in 1 .. 8 : ~StreamWrite(s[b + i])
    BY <2>2, <2>3, <2>4, <2>5, <2>6
  <2> HIDE DEF ph
  <2>8. Drawn(u[b + 8], ph, y, 2)
    BY <1>1, <1>3, <2>1, <2>6, <2>7, DrawnKeeps
  <2> QED
    BY <2>6, <2>8
<1> DEFINE c2 == u[22 + d].current
<1>11. DOMAIN c1 = 0 .. 4 /\ (\A i \in 1 .. 5 : c1[i - 1] = x[i]) /\ DOMAIN c2 = 0 .. 1 /\ \A i \in 1 .. 2 : c2[i - 1] = y[i]
  BY <1>7, <1>10 DEF Drawn
<1>12. u[22 + d].phases = ph
  BY <1>10 DEF Drawn
<1> HIDE DEF c1, c2
<1>13. IsStream(c1, x) /\ IsStream(c2, y)
  <2>1. DOMAIN x = 1 .. 5 /\ DOMAIN y = 1 .. 2 /\ 5 - 1 = 4 /\ 2 - 1 = 1
    BY <1>2
  <2> QED
    BY <1>2, <1>11, <2>1 DEF IsStream
<1>14. c2 # << >>
  <2>1. 0 \in DOMAIN c2 /\ 0 \notin DOMAIN << >>
    BY <1>11
  <2> QED
    BY <2>1
<1>15. CommandBufferPhases(s) = Append(Append(<< >>, c1), c2)
  BY <1>1, <1>3, <1>12, <1>14 DEF CommandBufferPhases, PhaseStart, c2
<1> DEFINE q == Append(<< >>, c1)
<1> DEFINE S == {c1, c2}
<1>16. << >> \in Seq(S) /\ Len(<< >>) = 0 /\ c1 \in S /\ c2 \in S
  OBVIOUS
<1> HIDE DEF S
<1>17. q \in Seq(S) /\ Grown(<< >>, q, c1)
  BY <1>16, GrownIs
<1> HIDE DEF q
<1>18. Grown(q, Append(q, c2), c2)
  BY <1>16, <1>17, GrownIs
<1> DEFINE t == Append(q, c2)
<1> HIDE DEF t
<1>19. Len(t) = 2 /\ t[1] = c1 /\ t[2] = c2
  <2>1. Len(q) = 1 /\ q[1] = c1
    BY <1>16, <1>17 DEF Grown
  <2> QED
    BY <1>18, <2>1 DEF Grown, t
<1>20. CommandBufferPhases(s) = t
  BY <1>15 DEF q, t
<1> QED
  BY <1>13, <1>19, <1>20 DEF x, y

\* The commands the planner uses, for the guards that look at each alone.
BuiltCommand(v) ==
    {CacheOff, Read("CTRL", 1), Read("MCTRL", 1), Read("INT_STS", 1), Read("DST", ReadWords),
     Write("DST", 0, Sentinel(v), ReadWords), Write("INT_STS", 0, ClearMask, 1)}
    \cup {Write("CMD", k, w, 1) : k \in 0 .. 4, w \in Word}
    \cup {Write(r, 0, w, 1) : r \in DmaRegs, w \in Word}

\* The commands of a transfer are commands of built plans.
LEMMA StepsBuilt ==
  ASSUME NEW v, NEW s, NEW b \in Nat, NEW x \in Seq(Word), Len(x) = 4, StepsAt(s, b, x)
  PROVE  \A i \in 1 .. 7 : s[b + i] \in BuiltCommand(v)
<1>1. s[b + 1] \in BuiltCommand(v) /\ s[b + 2] \in BuiltCommand(v) /\ s[b + 7] \in BuiltCommand(v)
  BY DEF StepsAt, BuiltCommand
<1>2. ASSUME NEW j \in 1 .. 4 PROVE s[b + 2 + j] \in BuiltCommand(v)
  <2>1. DmaOrder[j] \in DmaRegs
    BY DmaRegsAre DEF DmaOrder
  <2>2. x[j] \in Word
    BY FourOf
  <2>3. s[b + 2 + j] = Write(DmaOrder[j], 0, x[j], 1)
    BY DEF StepsAt
  <2>4. s[b + 2 + j] \in {Write(r, 0, w, 1) : r \in DmaRegs, w \in Word}
    BY <2>1, <2>2, <2>3
  <2> QED
    BY <2>4 DEF BuiltCommand
<1>3. /\ s[b + 2 + 1] \in BuiltCommand(v) /\ s[b + 2 + 2] \in BuiltCommand(v)
      /\ s[b + 2 + 3] \in BuiltCommand(v) /\ s[b + 2 + 4] \in BuiltCommand(v)
  BY <1>2
<1>4. b + 2 + 1 = b + 3 /\ b + 2 + 2 = b + 4 /\ b + 2 + 3 = b + 5 /\ b + 2 + 4 = b + 6
  OBVIOUS
<1> TAKE i \in 1 .. 7
<1>5. i = 1 \/ i = 2 \/ i = 3 \/ i = 4 \/ i = 5 \/ i = 6 \/ i = 7
  OBVIOUS
<1> QED
  BY <1>1, <1>3, <1>4, <1>5

\* The words of a stream are written by commands of built plans.
LEMMA WordsBuilt ==
  ASSUME NEW v, NEW s, NEW b \in Nat, NEW x \in Seq(Word), Laid(s, b, Words(x)), NEW i \in 1 .. Len(x), i <= 5
  PROVE  s[b + i] \in BuiltCommand(v)
<1>1. s[b + i] = Write("CMD", i - 1, x[i], 1)
  BY WordsLaid
<1>2. i - 1 \in 0 .. 4 /\ x[i] \in Word
  BY ElementOfSeq
<1>3. s[b + i] \in {Write("CMD", k, w, 1) : k \in 0 .. 4, w \in Word}
  BY <1>1, <1>2
<1> QED
  BY <1>3 DEF BuiltCommand

\* Every command of a built plan is one of a few kinds.
LEMMA EachBuilt ==
  ASSUME NEW o \in Orders, NEW v \in Nat, NEW far \in Nat, NEW s, BuiltAs(s, far, o, v), NEW i \in 1 .. Len(s)
  PROVE  s[i] \in BuiltCommand(v)
<1> DEFINE d == DmaLen(o)
<1> DEFINE x == ReadbackStream(far)
<1> DEFINE y == CleanupStream
<1>1. /\ s \in Seq(ReadCommand) /\ Len(s) = 22 + d
      /\ Laid(s, 0, Opening(v)) /\ Laid(s, 6, Words(x)) /\ Laid(s, 11, DmaOf(o))
      /\ s[12 + d] = Read("DST", ReadWords) /\ Laid(s, 12 + d, Words(y))
      /\ StepsAt(s, 14 + d, Transaction["cleanup"]) /\ s[22 + d] = Read("INT_STS", 1)
  BY DEF BuiltAs
<1>2. x \in Seq(Word) /\ Len(x) = 5 /\ y \in Seq(Word) /\ Len(y) = 2
  BY StreamsTyped
<1>d. (o = "two-unidirectional" /\ d = 14) \/ (o = "one-bidirectional" /\ d = 7)
  BY DEF Orders, DmaLen
<1> HIDE DEF d, x, y
<1>3. \/ i \in 1 .. 6 \/ i - 6 \in 1 .. 5 \/ i - 11 \in 1 .. 7 \/ (d = 14 /\ i - 18 \in 1 .. 7) \/ i = 12 + d
      \/ i - (12 + d) \in 1 .. 2 \/ i - (14 + d) \in 1 .. 7 \/ i = 22 + d
  <2>1. CASE d = 14
    <3>1. Len(s) = 36
      BY <1>1, <2>1
    <3>2. i \in 1 .. 36
      BY <3>1
    <3>3. \/ i \in 1 .. 6 \/ i - 6 \in 1 .. 5 \/ i - 11 \in 1 .. 7 \/ i - 18 \in 1 .. 7 \/ i = 26
          \/ i - 26 \in 1 .. 2 \/ i - 28 \in 1 .. 7 \/ i = 36
      BY <3>2
    <3> QED
      BY <2>1, <3>3
  <2>2. CASE d = 7
    <3>1. Len(s) = 29
      BY <1>1, <2>2
    <3>2. i \in 1 .. 29
      BY <3>1
    <3>3. \/ i \in 1 .. 6 \/ i - 6 \in 1 .. 5 \/ i - 11 \in 1 .. 7 \/ i = 19
          \/ i - 19 \in 1 .. 2 \/ i - 21 \in 1 .. 7 \/ i = 29
      BY <3>2
    <3> QED
      BY <2>2, <3>3
  <2> QED
    BY <1>d, <2>1, <2>2
<1>4. CASE i \in 1 .. 6
  <2>1. i = 1 \/ i = 2 \/ i = 3 \/ i = 4 \/ i = 5 \/ i = 6
    BY <1>4
  <2>2. /\ s[1] = CacheOff /\ s[2] = Read("CTRL", 1) /\ s[3] = Read("MCTRL", 1) /\ s[4] = Read("INT_STS", 1)
        /\ s[5] = Write("DST", 0, Sentinel(v), ReadWords) /\ s[6] = Read("DST", ReadWords)
    BY <1>1, BuiltOpening
  <2>3. s[i] \in {CacheOff, Read("CTRL", 1), Read("MCTRL", 1), Read("INT_STS", 1), Read("DST", ReadWords),
                  Write("DST", 0, Sentinel(v), ReadWords)}
    BY <2>1, <2>2
  <2> QED
    BY <2>3 DEF BuiltCommand
<1>5. CASE i - 6 \in 1 .. 5
  <2>1. PICK k : k = i - 6
    OBVIOUS
  <2>2. k \in 1 .. Len(x) /\ k <= 5 /\ 6 \in Nat /\ 6 + k = i
    BY <1>2, <1>5, <2>1
  <2>3. s[6 + k] \in BuiltCommand(v)
    BY <1>1, <1>2, <2>2, WordsBuilt
  <2> QED
    BY <2>2, <2>3
<1>6. CASE i - 11 \in 1 .. 7
  <2>1. PICK t \in Seq(Word) : Len(t) = 4 /\ StepsAt(s, 11, t)
    <3>1. CASE o = "one-bidirectional"
      BY <1>1, <3>1, TransfersLaid, TransactionIs
    <3>2. CASE o = "two-unidirectional"
      BY <1>1, <3>2, TransfersLaid, TransactionIs
    <3> QED
      BY <1>d, <3>1, <3>2
  <2>2. \A k \in 1 .. 7 : s[11 + k] \in BuiltCommand(v)
    BY <2>1, StepsBuilt
  <2>3. 11 + (i - 11) = i
    OBVIOUS
  <2> QED
    BY <1>6, <2>2, <2>3
<1>7. CASE d = 14 /\ i - 18 \in 1 .. 7
  <2>1. StepsAt(s, 18, Transaction["readback"])
    BY <1>1, <1>7, <1>d, TransfersLaid
  <2>2. \A k \in 1 .. 7 : s[18 + k] \in BuiltCommand(v)
    BY <2>1, StepsBuilt, TransactionIs
  <2>3. 18 + (i - 18) = i
    OBVIOUS
  <2> QED
    BY <1>7, <2>2, <2>3
<1>8. CASE i = 12 + d
  BY <1>1, <1>8 DEF BuiltCommand
<1>9. CASE i - (12 + d) \in 1 .. 2
  <2>1. PICK b : b = 12 + d
    OBVIOUS
  <2>2. b \in Nat /\ i \in Nat /\ i - b \in 1 .. 2
    BY <1>9, <1>d, <2>1
  <2>3. PICK k : k = i - b
    OBVIOUS
  <2>4. k \in 1 .. 2 /\ b + k = i
    BY <2>2, <2>3
  <2>5. k \in 1 .. Len(y) /\ k <= 5
    BY <1>2, <2>4
  <2>6. Laid(s, b, Words(y))
    BY <1>1, <2>1
  <2>7. s[b + k] \in BuiltCommand(v)
    BY <1>2, <2>2, <2>5, <2>6, WordsBuilt
  <2> QED
    BY <2>4, <2>7
<1>10. CASE i - (14 + d) \in 1 .. 7
  <2>1. PICK b : b = 14 + d
    OBVIOUS
  <2>4. StepsAt(s, b, Transaction["cleanup"])
    BY <1>1, <2>1
  <2>2. b \in Nat /\ StepsAt(s, b, Transaction["cleanup"]) /\ b + (i - b) = i /\ i - b \in 1 .. 7
    BY <1>10, <1>d, <2>1, <2>4
  <2>3. \A k \in 1 .. 7 : s[b + k] \in BuiltCommand(v)
    BY <2>2, StepsBuilt, TransactionIs
  <2> QED
    BY <2>2, <2>3
<1>11. CASE i = 22 + d
  BY <1>1, <1>11 DEF BuiltCommand
<1> QED
  BY <1>3, <1>4, <1>5, <1>6, <1>7, <1>8, <1>9, <1>10, <1>11

\* What the guards ask of each command.
Fits(c, regions) ==
    \/ c.form = "dcache-off"
    \/ c.form \in {"md.l", "mw.l"} /\ c.reg \in regions /\ c.count >= 1 /\ c.at + c.count <= RegionSize(c.reg)
Lawful(c) == c.form = "mw.l" => c.reg \notin ReadOnlyRegs /\ (c.reg = "INT_STS" => c.value = ClearMask)

\* The sizes of the regions and what may be written.
LEMMA RegionsAre ==
  /\ RegionSize("CMD") = 5 /\ RegionSize("DST") = ReadWords /\ RegionSize("WR") = 12
  /\ \A r \in {"CTRL", "MCTRL", "INT_STS"} \cup DmaRegs : RegionSize(r) = 1
  /\ {"CTRL", "MCTRL", "INT_STS", "CMD", "DST"} \cup DmaRegs \subseteq ReadRegions
  /\ {"CTRL", "MCTRL", "INT_STS", "WR"} \cup DmaRegs \subseteq WriteRegions
  /\ \A r \in DmaRegs \cup {"INT_STS", "CMD", "DST", "WR"} : r \notin ReadOnlyRegs
<1>1. RegionSize("CMD") = 5 /\ RegionSize("DST") = ReadWords /\ RegionSize("WR") = 12
  BY DEF RegionSize, StreamWords, WriteWords
<1>2. \A r \in {"CTRL", "MCTRL", "INT_STS"} \cup DmaRegs : RegionSize(r) = 1
  BY DmaRegsAre DEF RegionSize
<1>3. /\ {"CTRL", "MCTRL", "INT_STS", "CMD", "DST"} \cup DmaRegs \subseteq ReadRegions
      /\ {"CTRL", "MCTRL", "INT_STS", "WR"} \cup DmaRegs \subseteq WriteRegions
  BY DEF ReadRegions, WriteRegions, ReadOnlyRegs
<1>4. \A r \in DmaRegs \cup {"INT_STS", "CMD", "DST", "WR"} : r \notin ReadOnlyRegs
  BY DmaRegsAre DEF ReadOnlyRegs
<1> QED
  BY <1>1, <1>2, <1>3, <1>4

\* The commands of built plans lie inside the regions and write what may be written.
LEMMA BuiltFits ==
  ASSUME NEW v \in Nat, NEW c \in BuiltCommand(v)
  PROVE  Fits(c, ReadRegions) /\ Lawful(c) /\ (v # 0 => ~ZeroFill(c))
<1>0. ReadWords \in Nat /\ ReadWords >= 1 /\ 0 + ReadWords <= ReadWords /\ 0 + 1 <= 1 /\ 1 >= 1
  BY PlanAssumption
<1>1. CASE c = CacheOff
  BY <1>1 DEF CacheOff, Fits, Lawful, ZeroFill, Write
<1>2. CASE c \in {Read("CTRL", 1), Read("MCTRL", 1), Read("INT_STS", 1)}
  <2>1. PICK r \in {"CTRL", "MCTRL", "INT_STS"} : c = Read(r, 1)
    BY <1>2
  <2>2. c.form = "md.l" /\ c.reg = r /\ c.at = 0 /\ c.count = 1
    BY <2>1 DEF Read
  <2>3. r \in ReadRegions /\ RegionSize(r) = 1
    BY RegionsAre
  <2> QED
    BY <1>0, <2>2, <2>3 DEF Fits, Lawful, ZeroFill, Write
<1>3. CASE c = Read("DST", ReadWords)
  <2>2. c.form = "md.l" /\ c.reg = "DST" /\ c.at = 0 /\ c.count = ReadWords
    BY <1>3 DEF Read
  <2> QED
    BY <1>0, <2>2, RegionsAre DEF Fits, Lawful, ZeroFill, Write
<1>4. CASE c = Write("DST", 0, Sentinel(v), ReadWords)
  <2>2. c.form = "mw.l" /\ c.reg = "DST" /\ c.at = 0 /\ c.count = ReadWords /\ c.value = Sentinel(v)
    BY <1>4 DEF Write
  <2>3. Fits(c, ReadRegions) /\ Lawful(c)
    BY <1>0, <2>2, RegionsAre DEF Fits, Lawful
  <2>4. Sentinel(v)[2] = v
    BY WordsAre
  <2> QED
    BY <2>2, <2>3, <2>4 DEF ZeroFill
<1>5. CASE c = Write("INT_STS", 0, ClearMask, 1)
  <2>2. c.form = "mw.l" /\ c.reg = "INT_STS" /\ c.at = 0 /\ c.count = 1 /\ c.value = ClearMask
    BY <1>5 DEF Write
  <2> QED
    BY <1>0, <2>2, RegionsAre DEF Fits, Lawful, ZeroFill, Write
<1>6. CASE \E k \in 0 .. 4, w \in Word : c = Write("CMD", k, w, 1)
  <2>1. PICK k \in 0 .. 4, w \in Word : c = Write("CMD", k, w, 1)
    BY <1>6
  <2>2. c.form = "mw.l" /\ c.reg = "CMD" /\ c.at = k /\ c.count = 1
    BY <2>1 DEF Write
  <2>3. k + 1 <= 5
    OBVIOUS
  <2> QED
    BY <1>0, <2>2, <2>3, RegionsAre DEF Fits, Lawful, ZeroFill, Write
<1>7. CASE \E r \in DmaRegs, w \in Word : c = Write(r, 0, w, 1)
  <2>1. PICK r \in DmaRegs, w \in Word : c = Write(r, 0, w, 1)
    BY <1>7
  <2>2. c.form = "mw.l" /\ c.reg = r /\ c.at = 0 /\ c.count = 1
    BY <2>1 DEF Write
  <2>3. r \in ReadRegions /\ RegionSize(r) = 1 /\ r \notin ReadOnlyRegs /\ r # "INT_STS" /\ r # "DST"
    BY RegionsAre, DmaRegsAre
  <2> QED
    BY <1>0, <2>2, <2>3 DEF Fits, Lawful, ZeroFill, Write
<1> QED
  BY <1>1, <1>2, <1>3, <1>4, <1>5, <1>6, <1>7 DEF BuiltCommand

\* The guards accept the read plans the planner builds, for every frame
\* address and every sentinel that is not 0.
LEMMA BuiltAdjudicated ==
  ASSUME NEW p, p.order \in Orders, p.far \in Nat, p.sentinel \in 1 .. (WordLimit - 1),
         p.script = BuildPlan(p.far, p.order, p.sentinel)
  PROVE  Adjudicated(p) /\ ~ZeroFilled(p.script) /\ p.script \in Seq(ReadCommand)
<1> DEFINE s == p.script
<1>1. p.sentinel \in Nat /\ p.sentinel # 0
  BY PlanAssumption
<1>2. BuiltAs(s, p.far, p.order, p.sentinel)
  BY <1>1, BuiltAt
<1>3. s \in Seq(ReadCommand) /\ Len(s) \in Nat /\ DOMAIN s = 1 .. Len(s)
  BY <1>2 DEF BuiltAs
<1>4. \A i \in 1 .. Len(s) : Fits(s[i], ReadRegions) /\ Lawful(s[i]) /\ ~ZeroFill(s[i])
  <2> TAKE i \in 1 .. Len(s)
  <2>1. s[i] \in BuiltCommand(p.sentinel)
    BY <1>1, <1>2, EachBuilt
  <2> QED
    BY <1>1, <2>1, BuiltFits
<1>5. Tokens(s) = ExpectedSchedule(p.order, p.sentinel)
  BY <1>1, <1>2, BuiltTokens
<1>6. LET dma == DmaTransactions(s) IN dma.ordered /\ dma.pending = << >> /\ dma.txs = Wanted(p.order)
  BY <1>1, <1>2, BuiltTransfers
<1>7. LET phases == CommandBufferPhases(s)
      IN  Len(phases) = 2 /\ IsStream(phases[1], ReadbackStream(p.far)) /\ IsStream(phases[2], CleanupStream)
  BY <1>1, <1>2, BuiltStreams
<1>8. ~ZeroFilled(s)
  BY <1>3, <1>4 DEF ZeroFilled
<1> HIDE DEF s
<1>9. CheckAllowlist(s, ReadRegions)
  BY <1>3, <1>4 DEF CheckAllowlist, Fits
<1>10. CheckRegisterWrites(s)
  BY <1>3, <1>4 DEF CheckRegisterWrites, Lawful
<1>11. \A i \in DOMAIN Wanted(p.order) : \E n \in DOMAIN Transaction : Wanted(p.order)[i] = Transaction[n]
  <2>1. DOMAIN Transaction = {"command", "readback", "cleanup", "bidirectional"}
    BY DEF Transaction
  <2>2. CASE p.order = "two-unidirectional"
    <3>1. ExpectedTransactions(p.order) = <<"command", "readback", "cleanup">>
      BY <2>2 DEF ExpectedTransactions
    <3>2. \A i \in DOMAIN ExpectedTransactions(p.order) : ExpectedTransactions(p.order)[i] \in {"command", "readback", "cleanup"}
      BY <3>1
    <3> QED
      BY <2>1, <3>2 DEF Wanted
  <2>3. CASE p.order = "one-bidirectional"
    <3>1. ExpectedTransactions(p.order) = <<"bidirectional", "cleanup">>
      BY <2>3 DEF ExpectedTransactions
    <3>2. \A i \in DOMAIN ExpectedTransactions(p.order) : ExpectedTransactions(p.order)[i] \in {"bidirectional", "cleanup"}
      BY <3>1
    <3> QED
      BY <2>1, <3>2 DEF Wanted
  <2> QED
    BY <2>2, <2>3 DEF Orders
<1>12. CheckSchedule(p)
  BY <1>5, <1>6 DEF CheckSchedule, Wanted, s
<1>13. CheckValuePolicy(p)
  BY <1>6, <1>7, <1>10, <1>11, <1>12 DEF CheckValuePolicy, s
<1>14. CheckSentinel(p.sentinel)
  BY DEF CheckSentinel
<1> QED
  BY <1>3, <1>8, <1>9, <1>13, <1>14 DEF Adjudicated, s

-----------------------------------------------------------------------------
(* The guards accept the write plans that are built.                        *)

\* The guards accept the write plan.  First which command stands where.
WriteSplit(s, p, i) ==
    \/ i \in {1, 21} /\ s[i] = Read("CTRL", 1)
    \/ i \in 2 .. 13 /\ s[i] = Write("WR", i - 2, WriteStream(p)[i - 1], 1)
    \/ i = 14 /\ s[i] = Write("INT_STS", 0, ClearMask, 1)
    \/ i \in {15, 20} /\ s[i] = Read("INT_STS", 1)
    \/ i \in 16 .. 19 /\ s[i] = Write(DmaOrder[i - 15], 0, WriteTransaction[i - 15], 1)

\* The 21 commands of a built write plan by their place.
LEMMA WriteSplitAt ==
  ASSUME NEW p \in Patterns, NEW s, WriteBuiltAs(s, p), NEW i \in 1 .. 21
  PROVE  WriteSplit(s, p, i)
<1>1. /\ s[1] = Read("CTRL", 1) /\ s[21] = Read("CTRL", 1)
      /\ \A j \in 1 .. 12 : s[1 + j] = Write("WR", j - 1, WriteStream(p)[j], 1)
      /\ StepsAt(s, 13, WriteTransaction)
  BY DEF WriteBuiltAs
<1>2. s[14] = Write("INT_STS", 0, ClearMask, 1) /\ s[15] = Read("INT_STS", 1) /\ s[20] = Read("INT_STS", 1)
  <2>1. 13 + 1 = 14 /\ 13 + 2 = 15 /\ 13 + 7 = 20
    OBVIOUS
  <2> QED
    BY <1>1, <2>1 DEF StepsAt
<1>3. CASE i \in {1, 14, 15, 20, 21}
  BY <1>1, <1>2, <1>3 DEF WriteSplit
<1>4. CASE i \in 2 .. 13
  <2>1. PICK j : j = i - 1
    OBVIOUS
  <2>2. j \in 1 .. 12 /\ 1 + j = i /\ j - 1 = i - 2
    BY <1>4, <2>1
  <2>3. s[1 + j] = Write("WR", j - 1, WriteStream(p)[j], 1)
    BY <1>1, <2>2
  <2>4. s[i] = Write("WR", i - 2, WriteStream(p)[i - 1], 1)
    BY <2>1, <2>2, <2>3
  <2> QED
    BY <1>4, <2>4 DEF WriteSplit
<1>5. CASE i \in 16 .. 19
  <2>1. PICK j : j = i - 15
    OBVIOUS
  <2>2. j \in 1 .. 4 /\ 13 + 2 + j = i
    BY <1>5, <2>1
  <2>3. s[13 + 2 + j] = Write(DmaOrder[j], 0, WriteTransaction[j], 1)
    BY <1>1, <2>2 DEF StepsAt
  <2>4. s[i] = Write(DmaOrder[i - 15], 0, WriteTransaction[i - 15], 1)
    BY <2>1, <2>2, <2>3
  <2> QED
    BY <1>5, <2>4 DEF WriteSplit
<1> QED
  BY <1>3, <1>4, <1>5

\* What each command is to the guards.
WriteMeets(c) ==
    /\ Fits(c, WriteRegions)
    /\ c.form = "mw.l" => /\ c.reg \in {"WR", "INT_STS"} \cup DmaRegs
                          /\ c.reg = "INT_STS" => c.value = ClearMask

\* The commands of a built write plan lie inside the regions, by their place.
LEMMA WriteFits ==
  ASSUME NEW p \in Patterns, NEW s, NEW i \in 1 .. 21, WriteSplit(s, p, i)
  PROVE  /\ WriteMeets(s[i])
         /\ WordWrite(s[i]) <=> i \in 2 .. 13
         /\ IsDma(s[i]) <=> i \in 16 .. 19
<1> DEFINE c == s[i]
<1>0. 0 + 1 <= 1 /\ 1 >= 1
  OBVIOUS
<1>1. CASE (i \in {1, 21} /\ c = Read("CTRL", 1)) \/ (i \in {15, 20} /\ c = Read("INT_STS", 1))
  <2>1. PICK r \in {"CTRL", "INT_STS"} : c = Read(r, 1)
    BY <1>1
  <2>2. c.form = "md.l" /\ c.reg = r /\ c.at = 0 /\ c.count = 1
    BY <2>1 DEF Read
  <2>3. r \in WriteRegions /\ RegionSize(r) = 1
    BY RegionsAre
  <2>4. i \notin 2 .. 13 /\ i \notin 16 .. 19
    BY <1>1
  <2> HIDE DEF c
  <2>5. WriteMeets(c) /\ ~WordWrite(c) /\ ~IsDma(c)
    BY <1>0, <2>2, <2>3 DEF WriteMeets, Fits, WordWrite, IsDma
  <2> QED
    BY <2>4, <2>5 DEF c
<1>2. CASE i \in 2 .. 13 /\ c = Write("WR", i - 2, WriteStream(p)[i - 1], 1)
  <2>2. c.form = "mw.l" /\ c.reg = "WR" /\ c.at = i - 2 /\ c.count = 1
    BY <1>2 DEF Write
  <2>3. i - 2 + 1 <= 12 /\ i \notin 16 .. 19
    BY <1>2
  <2>4. "WR" \notin DmaRegs /\ "WR" \in WriteRegions /\ RegionSize("WR") = 12
    BY DmaRegsAre, RegionsAre
  <2> HIDE DEF c
  <2>5. WriteMeets(c) /\ WordWrite(c) /\ ~IsDma(c)
    BY <1>0, <2>2, <2>3, <2>4 DEF WriteMeets, Fits, WordWrite, IsDma
  <2> QED
    BY <1>2, <2>3, <2>5 DEF c
<1>3. CASE i = 14 /\ c = Write("INT_STS", 0, ClearMask, 1)
  <2>2. c.form = "mw.l" /\ c.reg = "INT_STS" /\ c.at = 0 /\ c.count = 1 /\ c.value = ClearMask
    BY <1>3 DEF Write
  <2>4. "INT_STS" \notin DmaRegs /\ "INT_STS" \in WriteRegions /\ RegionSize("INT_STS") = 1
    BY DmaRegsAre, RegionsAre
  <2>3. i \notin 2 .. 13 /\ i \notin 16 .. 19
    BY <1>3
  <2> HIDE DEF c
  <2>5. WriteMeets(c) /\ ~WordWrite(c) /\ ~IsDma(c)
    BY <1>0, <2>2, <2>4 DEF WriteMeets, Fits, WordWrite, IsDma
  <2> QED
    BY <2>3, <2>5 DEF c
<1>4. CASE i \in 16 .. 19 /\ c = Write(DmaOrder[i - 15], 0, WriteTransaction[i - 15], 1)
  <2>1. PICK r : r = DmaOrder[i - 15]
    OBVIOUS
  <2>2. c.form = "mw.l" /\ c.reg = r /\ c.at = 0 /\ c.count = 1
    BY <1>4, <2>1 DEF Write
  <2>3. i - 15 \in 1 .. 4 /\ i \notin 2 .. 13
    BY <1>4
  <2>4. r \in DmaRegs
    BY <2>1, <2>3, DmaRegsAre DEF DmaOrder
  <2>5. r \in WriteRegions /\ RegionSize(r) = 1 /\ r # "INT_STS" /\ r # "WR"
    BY <2>4, RegionsAre, DmaRegsAre
  <2> HIDE DEF c
  <2>6. WriteMeets(c) /\ ~WordWrite(c) /\ IsDma(c)
    BY <1>0, <2>2, <2>4, <2>5 DEF WriteMeets, Fits, WordWrite, IsDma
  <2> QED
    BY <1>4, <2>3, <2>6 DEF c
<1> QED
  BY <1>1, <1>2, <1>3, <1>4 DEF WriteSplit

\* Each word of the buffer is written once, and the stream is that of the pattern.
LEMMA WordsPlaced ==
  ASSUME NEW p \in Patterns, NEW s, WriteBuiltAs(s, p)
  PROVE  WrittenOnce(s) /\ StreamOf(s) = WriteStream(p)
<1> DEFINE At(i) == IF s[i].form = "mw.l" /\ s[i].reg = "WR" THEN s[i].at..(s[i].at + s[i].count - 1) ELSE {}
<1> DEFINE Writes(i, x) == s[i].form = "mw.l" /\ s[i].reg = "WR" /\ x - 1 \in s[i].at..(s[i].at + s[i].count - 1)
<1>1. DOMAIN s = 1 .. 21
  BY DEF WriteBuiltAs
<1>2. \A i \in 1 .. 21 : WriteSplit(s, p, i) /\ (WordWrite(s[i]) <=> i \in 2 .. 13)
  BY WriteSplitAt, WriteFits
<1>3. ASSUME NEW i \in 2 .. 13 PROVE s[i] = Write("WR", i - 2, WriteStream(p)[i - 1], 1)
  <2>1. i \in 1 .. 21 /\ i \notin {1, 21} /\ i # 14 /\ i \notin {15, 20} /\ i \notin 16 .. 19
    OBVIOUS
  <2> QED
    BY <1>2, <2>1 DEF WriteSplit
<1>4. ASSUME NEW i \in 2 .. 13 PROVE At(i) = {i - 2}
  <2>1. s[i].form = "mw.l" /\ s[i].reg = "WR" /\ s[i].at = i - 2 /\ s[i].count = 1
    BY <1>3 DEF Write
  <2>2. (i - 2) .. (i - 2 + 1 - 1) = {i - 2}
    OBVIOUS
  <2> QED
    BY <2>1, <2>2
<1>5. ASSUME NEW i \in 1 .. 21, i \notin 2 .. 13 PROVE At(i) = {}
  BY <1>2, <1>5 DEF WordWrite
<1>6. \A i \in 1 .. 21 : \A x \in 1 .. 12 : Writes(i, x) <=> i = x + 1
  <2> TAKE i \in 1 .. 21
  <2> TAKE x \in 1 .. 12
  <2>0. Writes(i, x) <=> x - 1 \in At(i)
    OBVIOUS
  <2>1. CASE i \in 2 .. 13
    <3>1. x - 1 \in {i - 2} <=> i = x + 1
      OBVIOUS
    <3> QED
      BY <1>4, <2>0, <2>1, <3>1
  <2>2. CASE i \notin 2 .. 13
    <3>1. i # x + 1
      BY <2>2
    <3> QED
      BY <1>5, <2>0, <2>2, <3>1
  <2> QED
    BY <2>1, <2>2
<1>7. WrittenOnce(s)
  <2> HIDE DEF At
  <2>1. ASSUME NEW i \in 1 .. 21, NEW j \in 1 .. 21, i # j PROVE At(i) \cap At(j) = {}
    <3>1. CASE i \in 2 .. 13 /\ j \in 2 .. 13
      <4>1. i - 2 # j - 2
        BY <2>1
      <4> QED
        BY <1>4, <3>1, <4>1
    <3>2. CASE i \notin 2 .. 13 \/ j \notin 2 .. 13
      BY <1>5, <3>2
    <3> QED
      BY <3>1, <3>2
  <2>2. ASSUME NEW y \in 0 .. 11 PROVE y \in UNION {At(i) : i \in 1 .. 21}
    <3>1. y + 2 \in 2 .. 13 /\ y + 2 \in 1 .. 21 /\ y + 2 - 2 = y
      OBVIOUS
    <3>2. y \in At(y + 2)
      BY <1>4, <3>1
    <3> QED
      BY <3>1, <3>2
  <2>3. ASSUME NEW y \in UNION {At(i) : i \in 1 .. 21} PROVE y \in 0 .. 11
    <3>1. PICK i \in 1 .. 21 : y \in At(i)
      OBVIOUS
    <3>2. i \in 2 .. 13
      BY <1>5, <3>1
    <3>3. y = i - 2 /\ i - 2 \in 0 .. 11
      BY <1>4, <3>1, <3>2
    <3> QED
      BY <3>3
  <2>4. (UNION {At(i) : i \in 1 .. 21}) = 0 .. 11
    BY <2>2, <2>3
  <2>5. WriteWords - 1 = 11
    BY DEF WriteWords
  <2>6. (\A i, j \in DOMAIN s : i # j => At(i) \cap At(j) = {}) /\ (UNION {At(i) : i \in DOMAIN s}) = 0 .. (WriteWords - 1)
    BY <1>1, <2>1, <2>4, <2>5
  <2> QED
    BY <2>6 DEF WrittenOnce, At
<1>8. StreamOf(s) = WriteStream(p)
  <2> DEFINE S == StreamOf(s)
  <2> DEFINE W == WriteStream(p)
  <2>1. S = [x \in 1 .. 12 |-> s[CHOOSE i \in DOMAIN s : Writes(i, x)].value]
    BY DEF StreamOf, WriteWords
  <2>2. W = [x \in 1 .. 12 |-> W[x]]
    <3>1. W \in Seq(Word) /\ Len(W) = 12
      BY WriteStreamAt
    <3> HIDE DEF W
    <3> QED
      BY <3>1
  <2> HIDE DEF Writes, At
  <2>3. ASSUME NEW x \in 1 .. 12 PROVE S[x] = W[x]
    <3> DEFINE i == CHOOSE i \in DOMAIN s : Writes(i, x)
    <3>1. x + 1 \in 1 .. 21 /\ x + 1 \in 2 .. 13 /\ x + 1 - 1 = x
      OBVIOUS
    <3>2. \E j \in DOMAIN s : Writes(j, x)
      BY <1>1, <1>6, <3>1
    <3>3. i \in DOMAIN s /\ Writes(i, x)
      BY <3>2
    <3>4. S[x] = s[i].value
      BY <2>1
    <3> HIDE DEF i
    <3>5. i = x + 1
      BY <1>1, <1>6, <3>3
    <3>6. s[x + 1].value = W[x]
      <4>1. s[x + 1] = Write("WR", x + 1 - 2, W[x + 1 - 1], 1)
        BY <1>3, <3>1
      <4> QED
        BY <3>1, <4>1 DEF Write
    <3> QED
      BY <3>4, <3>5, <3>6
  <2> HIDE DEF S, W
  <2>4. S = W
    <3>1. S = [x \in 1 .. 12 |-> S[x]]
      BY <2>1
    <3> QED
      BY <2>2, <2>3, <3>1
  <2> QED
    BY <2>4 DEF S, W
<1> QED
  BY <1>7, <1>8

\* The walk over the words of that stream.
Walked(k, d, c, f, b) == [skip |-> k, data |-> d, cmds |-> c, far |-> f, bursts |-> b, legal |-> TRUE]

Bare(x) == <<x, 0>>
Added(q, x) == Append(q, x)
Lessened(k) == k - 1

\* A NOOP and the device code leave the reading of a stream as it is.
LEMMA QuietOn ==
  ASSUME NEW d, NEW c, NEW f, NEW b
  PROVE  /\ StreamStep(Walked(0, d, c, f, b), Noop) = Walked(0, d, c, f, b)
         /\ StreamStep(Walked(0, d, c, f, b), <<"IDCODE", 0>>) = Walked(0, d, c, f, b)
<1> DEFINE a == Walked(0, d, c, f, b)
<1>0. ~(a.skip > 0)
  BY DEF Walked
<1> HIDE DEF a
<1>1. StreamStep(a, Noop) = a
  BY <1>0 DEF StreamStep, Noop, FarWord
<1>2. StreamStep(a, <<"IDCODE", 0>>) = a
  BY <1>0 DEF StreamStep, FarWord, Noop
<1> QED
  BY <1>1, <1>2 DEF a

\* A bare command is noted when a stream is read.
LEMMA CommandOn ==
  ASSUME NEW d, NEW c, NEW f, NEW b, NEW x \in {"RCRC", "WCFG", "DESYNC"}
  PROVE  StreamStep(Walked(0, d, c, f, b), Bare(x)) = Walked(0, d, Added(c, x), f, b)
<1> DEFINE a == Walked(0, d, c, f, b)
<1>0. ~(a.skip > 0) /\ a.cmds = c
  BY DEF Walked
<1>1. StreamStep(a, Bare(x)) = [a EXCEPT !.cmds = Append(c, x)]
  <2> HIDE DEF a
  <2> QED
    BY <1>0 DEF StreamStep, FarWord, Noop, Bare
<1> QED
  BY <1>1 DEF Walked, Added

\* The frame address of the target is noted when a stream is read.
LEMMA FarOn ==
  ASSUME NEW d, NEW c, NEW f, NEW b
  PROVE  StreamStep(Walked(0, d, c, f, b), FarWord(TargetFar)) = Walked(0, d, c, TRUE, b)
<1> DEFINE a == Walked(0, d, c, f, b)
<1>0. ~(a.skip > 0)
  BY DEF Walked
<1>1. StreamStep(a, FarWord(TargetFar)) = [a EXCEPT !.far = TRUE]
  <2> HIDE DEF a
  <2> QED
    BY <1>0 DEF StreamStep, FarWord, Noop
<1> QED
  BY <1>1 DEF Walked

\* The burst of four opens once the address is known.
LEMMA BurstOn ==
  ASSUME NEW d, NEW c
  PROVE  StreamStep(Walked(0, d, c, TRUE, 0), <<"FDRI", 4>>) = Walked(4, d, c, TRUE, 1)
<1> DEFINE a == Walked(0, d, c, TRUE, 0)
<1>0. ~(a.skip > 0) /\ a.far /\ a.bursts = 0 /\ 0 + 1 = 1
  BY DEF Walked
<1>1. StreamStep(a, <<"FDRI", 4>>) = [a EXCEPT !.skip = 4, !.bursts = 1]
  <2> HIDE DEF a
  <2>1. StreamStep(a, <<"FDRI", 4>>) = [a EXCEPT !.skip = 4, !.bursts = a.bursts + 1]
    BY <1>0 DEF StreamStep, FarWord, Noop
  <2> QED
    BY <1>0, <2>1
<1> QED
  BY <1>1 DEF Walked

\* A word of the burst is data.
LEMMA DataOn ==
  ASSUME NEW d, NEW c, NEW f, NEW b, NEW k \in 1 .. 4, NEW w
  PROVE  StreamStep(Walked(k, d, c, f, b), w) = Walked(Lessened(k), Added(d, w), c, f, b)
<1> DEFINE a == Walked(k, d, c, f, b)
<1>0. a.skip > 0 /\ a.skip = k /\ a.data = d
  BY DEF Walked
<1>1. StreamStep(a, w) = [a EXCEPT !.skip = k - 1, !.data = Append(d, w)]
  <2> HIDE DEF a
  <2> QED
    BY <1>0 DEF StreamStep
<1> QED
  BY <1>1 DEF Walked, Lessened, Added

\* The stream of a pattern is legal.
LEMMA StreamAccepted ==
  ASSUME NEW p \in Patterns
  PROVE  ValidateWriteStream(WriteStream(p))
<1> DEFINE W == WriteStream(p)
<1>1. /\ W \in Seq(Word) /\ Len(W) = 12
      /\ W[1] = <<"SYNC", 0>> /\ W[2] = <<"RCRC", 0>> /\ W[3] = <<"IDCODE", 0>> /\ W[4] = <<"WCFG", 0>>
      /\ W[5] = FarWord(TargetFar) /\ W[6] = <<"FDRI", 4>> /\ W[7] = <<"init", p>> /\ W[8] = <<"ecc", p>>
      /\ W[9] = <<"rest", 0>> /\ W[10] = PadFrame /\ W[11] = <<"DESYNC", 0>> /\ W[12] = Noop
  BY WriteStreamAt
<1> HIDE DEF W
<1> DEFINE s == Tail(W)
<1>2. Len(s) = 11 /\ \A x \in 1 .. 11 : s[x] = W[x + 1]
  <2>0. W \in Seq(Word)
    BY <1>1
  <2>1. W # << >> /\ Len(W) = 12
    <3>1. W = << >> => Len(W) = 0
      OBVIOUS
    <3> QED
      BY <1>1, <3>1
  <2>2. s \in Seq(Word) /\ Len(s) = 11
    BY <2>0, <2>1
  <2>3. \A x \in 1 .. 11 : s[x] = W[x + 1]
    BY <2>0, <2>1, <2>2, HeadTailProperties
  <2> QED
    BY <2>2, <2>3
<1>3. PICK u : StreamWalk(u, s) /\ Walk(StreamStep, StreamStart, s) = u[Len(s)]
  <2>1. Len(s) \in Nat
    BY <1>2
  <2> QED
    BY <2>1, StreamUnfolds
<1>4. u[0] = StreamStart /\ \A x \in 1 .. 11 : u[x] = StreamStep(u[x - 1], W[x + 1])
  BY <1>2, <1>3 DEF StreamWalk
<1>5. /\ u[1] = StreamStep(u[0], W[2]) /\ u[2] = StreamStep(u[1], W[3]) /\ u[3] = StreamStep(u[2], W[4])
      /\ u[4] = StreamStep(u[3], W[5]) /\ u[5] = StreamStep(u[4], W[6]) /\ u[6] = StreamStep(u[5], W[7])
      /\ u[7] = StreamStep(u[6], W[8]) /\ u[8] = StreamStep(u[7], W[9]) /\ u[9] = StreamStep(u[8], W[10])
      /\ u[10] = StreamStep(u[9], W[11]) /\ u[11] = StreamStep(u[10], W[12])
  BY <1>4
<1> DEFINE no == FALSE
<1> DEFINE yes == TRUE
<1> DEFINE c1 == Append(<< >>, "RCRC")
<1> DEFINE c2 == Append(c1, "WCFG")
<1> DEFINE c3 == Append(c2, "DESYNC")
<1> DEFINE d1 == Append(<< >>, W[7])
<1> DEFINE d2 == Append(d1, W[8])
<1> DEFINE d3 == Append(d2, W[9])
<1> DEFINE d4 == Append(d3, W[10])
<1> HIDE DEF no, yes, c1, c2, c3, d1, d2, d3, d4, s
<1>6. u[0] = Walked(0, << >>, << >>, no, 0)
  BY <1>4 DEF StreamStart, Walked, no
<1>7. u[1] = Walked(0, << >>, c1, no, 0)
  <2>1. StreamStep(Walked(0, << >>, << >>, no, 0), <<"RCRC", 0>>) = Walked(0, << >>, c1, no, 0)
    <3>1. "RCRC" \in {"RCRC", "WCFG", "DESYNC"}
      OBVIOUS
    <3>2. StreamStep(Walked(0, << >>, << >>, no, 0), Bare("RCRC")) = Walked(0, << >>, Added(<< >>, "RCRC"), no, 0)
      BY <3>1, CommandOn
    <3> QED
      BY <3>2 DEF Bare, Added, c1
  <2> QED
    BY <1>1, <1>5, <1>6, <2>1
<1>8. u[2] = Walked(0, << >>, c1, no, 0)
  <2>1. StreamStep(Walked(0, << >>, c1, no, 0), <<"IDCODE", 0>>) = Walked(0, << >>, c1, no, 0)
    BY QuietOn
  <2> QED
    BY <1>1, <1>5, <1>7, <2>1
<1>9. u[3] = Walked(0, << >>, c2, no, 0)
  <2>1. StreamStep(Walked(0, << >>, c1, no, 0), <<"WCFG", 0>>) = Walked(0, << >>, c2, no, 0)
    <3>1. "WCFG" \in {"RCRC", "WCFG", "DESYNC"}
      OBVIOUS
    <3>2. StreamStep(Walked(0, << >>, c1, no, 0), Bare("WCFG")) = Walked(0, << >>, Added(c1, "WCFG"), no, 0)
      BY <3>1, CommandOn
    <3> QED
      BY <3>2 DEF Bare, Added, c2
  <2> QED
    BY <1>1, <1>5, <1>8, <2>1
<1>10. u[4] = Walked(0, << >>, c2, yes, 0)
  <2>1. StreamStep(Walked(0, << >>, c2, no, 0), FarWord(TargetFar)) = Walked(0, << >>, c2, yes, 0)
    BY FarOn DEF yes
  <2> QED
    BY <1>1, <1>5, <1>9, <2>1
<1>11. u[5] = Walked(4, << >>, c2, yes, 1)
  <2>1. StreamStep(Walked(0, << >>, c2, yes, 0), <<"FDRI", 4>>) = Walked(4, << >>, c2, yes, 1)
    BY BurstOn DEF yes
  <2> QED
    BY <1>1, <1>5, <1>10, <2>1
<1>12. u[6] = Walked(3, d1, c2, yes, 1)
  <2>1. StreamStep(Walked(4, << >>, c2, yes, 1), W[7]) = Walked(3, d1, c2, yes, 1)
    <3>1. 4 \in 1 .. 4
      OBVIOUS
    <3>2. StreamStep(Walked(4, << >>, c2, yes, 1), W[7]) = Walked(Lessened(4), Added(<< >>, W[7]), c2, yes, 1)
      BY <3>1, DataOn
    <3>3. Lessened(4) = 3
      BY DEF Lessened
    <3> QED
      BY <3>2, <3>3 DEF Added, d1
  <2> QED
    BY <1>1, <1>5, <1>11, <2>1
<1>13. u[7] = Walked(2, d2, c2, yes, 1)
  <2>1. StreamStep(Walked(3, d1, c2, yes, 1), W[8]) = Walked(2, d2, c2, yes, 1)
    <3>1. 3 \in 1 .. 4
      OBVIOUS
    <3>2. StreamStep(Walked(3, d1, c2, yes, 1), W[8]) = Walked(Lessened(3), Added(d1, W[8]), c2, yes, 1)
      BY <3>1, DataOn
    <3>3. Lessened(3) = 2
      BY DEF Lessened
    <3> QED
      BY <3>2, <3>3 DEF Added, d2
  <2> QED
    BY <1>1, <1>5, <1>12, <2>1
<1>14. u[8] = Walked(1, d3, c2, yes, 1)
  <2>1. StreamStep(Walked(2, d2, c2, yes, 1), W[9]) = Walked(1, d3, c2, yes, 1)
    <3>1. 2 \in 1 .. 4
      OBVIOUS
    <3>2. StreamStep(Walked(2, d2, c2, yes, 1), W[9]) = Walked(Lessened(2), Added(d2, W[9]), c2, yes, 1)
      BY <3>1, DataOn
    <3>3. Lessened(2) = 1
      BY DEF Lessened
    <3> QED
      BY <3>2, <3>3 DEF Added, d3
  <2> QED
    BY <1>1, <1>5, <1>13, <2>1
<1>15. u[9] = Walked(0, d4, c2, yes, 1)
  <2>1. StreamStep(Walked(1, d3, c2, yes, 1), W[10]) = Walked(0, d4, c2, yes, 1)
    <3>1. 1 \in 1 .. 4
      OBVIOUS
    <3>2. StreamStep(Walked(1, d3, c2, yes, 1), W[10]) = Walked(Lessened(1), Added(d3, W[10]), c2, yes, 1)
      BY <3>1, DataOn
    <3>3. Lessened(1) = 0
      BY DEF Lessened
    <3> QED
      BY <3>2, <3>3 DEF Added, d4
  <2> QED
    BY <1>1, <1>5, <1>14, <2>1
<1>16. u[10] = Walked(0, d4, c3, yes, 1)
  <2>1. StreamStep(Walked(0, d4, c2, yes, 1), <<"DESYNC", 0>>) = Walked(0, d4, c3, yes, 1)
    <3>1. "DESYNC" \in {"RCRC", "WCFG", "DESYNC"}
      OBVIOUS
    <3>2. StreamStep(Walked(0, d4, c2, yes, 1), Bare("DESYNC")) = Walked(0, d4, Added(c2, "DESYNC"), yes, 1)
      BY <3>1, CommandOn
    <3> QED
      BY <3>2 DEF Bare, Added, c3
  <2> QED
    BY <1>1, <1>5, <1>15, <2>1
<1>17. u[11] = Walked(0, d4, c3, yes, 1)
  <2>1. StreamStep(Walked(0, d4, c3, yes, 1), Noop) = Walked(0, d4, c3, yes, 1)
    BY QuietOn
  <2> QED
    BY <1>1, <1>5, <1>16, <2>1
<1>18. d4 = Append(FrameOf(p), PadFrame)
  <2> DEFINE a == <<"init", p>>
  <2> DEFINE b == <<"ecc", p>>
  <2> DEFINE c == <<"rest", 0>>
  <2>1. a \in Word /\ b \in Word /\ c \in Word /\ PadFrame \in Word
    BY DEF Word, Names, Patterns, PadFrame
  <2>2. W[7] = a /\ W[8] = b /\ W[9] = c /\ W[10] = PadFrame
    BY <1>1
  <2>3. FrameOf(p) = <<a, b, c>>
    BY DEF FrameOf
  <2> HIDE DEF a, b, c
  <2> DEFINE r == <<a, b, c>>
  <2> DEFINE q == Append(r, PadFrame)
  <2>4. Len(q) = 4 /\ q[1] = a /\ q[2] = b /\ q[3] = c /\ q[4] = PadFrame
    BY <2>1, FourIs
  <2>5. q \in Seq(Word)
    <3>1. r \in Seq(Word)
      BY <2>1
    <3> HIDE DEF r
    <3> QED
      BY <2>1, <3>1, GrownIs
  <2> HIDE DEF q
  <2>6. Append(Append(Append(Append(<< >>, q[1]), q[2]), q[3]), q[4]) = q
    BY <2>4, <2>5, FourOf
  <2>7. d4 = q
    BY <2>2, <2>4, <2>6 DEF d1, d2, d3, d4
  <2> QED
    BY <2>3, <2>7 DEF q
<1>19. c3 = <<"RCRC", "WCFG", "DESYNC">>
  <2> DEFINE t == <<"RCRC", "WCFG", "DESYNC">>
  <2>1. Len(t) = 3 /\ t[1] = "RCRC" /\ t[2] = "WCFG" /\ t[3] = "DESYNC" /\ t = [i \in 1 .. 3 |-> t[i]]
    OBVIOUS
  <2>2. "RCRC" \in {"RCRC", "WCFG", "DESYNC"} /\ "WCFG" \in {"RCRC", "WCFG", "DESYNC"} /\ "DESYNC" \in {"RCRC", "WCFG", "DESYNC"}
    OBVIOUS
  <2> HIDE DEF t
  <2>3. Append(Append(Append(<< >>, "RCRC"), "WCFG"), "DESYNC") = t
    BY <2>1, <2>2, AppendedThrice
  <2> QED
    BY <2>3 DEF t, c1, c2, c3
<1>20. SubSeq(W, 11, 12) = << <<"DESYNC", 0>>, Noop >>
  <2> DEFINE a == W[11]
  <2> DEFINE b == W[12]
  <2>1. a = <<"DESYNC", 0>> /\ b = Noop
    BY <1>1
  <2>2. SubSeq(W, 11, 12) = [i \in 1 .. 2 |-> W[i + 10]]
    BY <1>1
  <2>3. <<W[11], W[12]>> = [i \in 1 .. 2 |-> W[i + 10]]
    OBVIOUS
  <2> HIDE DEF a, b
  <2> QED
    BY <2>1, <2>2, <2>3 DEF a, b
<1>21. Walk(StreamStep, StreamStart, Tail(W)) = Walked(0, d4, c3, yes, 1)
  BY <1>2, <1>3, <1>17 DEF s
<1>22. CheckFrames(d4)
  BY <1>18 DEF CheckFrames
<1>23. /\ WriteWords = 12 /\ WriteWords - 1 = 11
       /\ LET end == Walked(0, d4, c3, yes, 1) IN
          end.legal /\ end.bursts = 1 /\ end.data = d4 /\ end.cmds = c3
  BY DEF WriteWords, Walked
<1>24. ValidateWriteStream(W)
  BY <1>1, <1>19, <1>20, <1>21, <1>22, <1>23 DEF ValidateWriteStream, StreamStart
<1> QED
  BY <1>24 DEF W

\* The register writes of the plan, in their order.
LEMMA RegistersBuilt ==
  ASSUME NEW p \in Patterns, NEW s, WriteBuiltAs(s, p)
  PROVE  Walk(RegisterStep, << >>, s) = [i \in 1..4 |-> Write(DmaOrder[i], 0, WriteTransaction[i], 1)]
<1> DEFINE C == [i \in 1..4 |-> Write(DmaOrder[i], 0, WriteTransaction[i], 1)]
<1>1. Len(s) = 21 /\ s \in Seq(WriteCommand)
  BY DEF WriteBuiltAs
<1>2. PICK u : RegisterWalk(u, s) /\ Walk(RegisterStep, NoToken, s) = u[21]
  <2>1. Len(s) \in Nat
    BY <1>1
  <2>2. PICK v : RegisterWalk(v, s) /\ Walk(RegisterStep, NoToken, s) = v[Len(s)]
    BY <2>1, RegisterUnfolds
  <2> QED
    BY <1>1, <2>2
<1>3. \A i \in 1 .. 21 : WriteSplit(s, p, i) /\ (IsDma(s[i]) <=> i \in 16 .. 19)
  BY WriteSplitAt, WriteFits
<1>4. u[0] = << >> /\ \A i \in 1 .. 21 : u[i] = IF i \in 16 .. 19 THEN Append(u[i - 1], s[i]) ELSE u[i - 1]
  <2>1. u[0] = << >> /\ \A i \in 1 .. 21 : u[i] = RegisterStep(u[i - 1], s[i])
    BY <1>1, <1>2 DEF RegisterWalk, NoToken
  <2>2. \A a, c : RegisterStep(a, c) = IF IsDma(c) THEN Append(a, c) ELSE a
    BY DEF RegisterStep, IsDma
  <2> QED
    BY <1>3, <2>1, <2>2
<1> DEFINE P == {i \in 0 .. 15 : u[i] = << >>}
<1>5. u[15] = << >>
  <2>1. 0 \in P
    BY <1>4
  <2>2. ASSUME NEW i \in 1 .. 15, i - 1 \in P PROVE i \in P
    <3>1. i \in 1 .. 21 /\ i \notin 16 .. 19 /\ i \in 0 .. 15
      OBVIOUS
    <3> QED
      BY <1>4, <2>2, <3>1
  <2> HIDE DEF P
  <2>3. 0 .. 15 \subseteq P
    BY <2>1, <2>2, UpTo
  <2>4. 15 \in P
    BY <2>3
  <2> QED
    BY <2>4 DEF P
<1>6. /\ u[16] = Append(u[15], s[16]) /\ u[17] = Append(u[16], s[17])
      /\ u[18] = Append(u[17], s[18]) /\ u[19] = Append(u[18], s[19]) /\ u[20] = u[19] /\ u[21] = u[20]
  <2>1. /\ 16 \in 16 .. 19 /\ 17 \in 16 .. 19 /\ 18 \in 16 .. 19 /\ 19 \in 16 .. 19
        /\ 16 - 1 = 15 /\ 17 - 1 = 16 /\ 18 - 1 = 17 /\ 19 - 1 = 18
    OBVIOUS
  <2>2. 20 \notin 16 .. 19 /\ 21 \notin 16 .. 19 /\ 20 - 1 = 19 /\ 21 - 1 = 20
    OBVIOUS
  <2>3. /\ 16 \in 1 .. 21 /\ 17 \in 1 .. 21 /\ 18 \in 1 .. 21
        /\ 19 \in 1 .. 21 /\ 20 \in 1 .. 21 /\ 21 \in 1 .. 21
    OBVIOUS
  <2>4. \A i \in 1 .. 21 : i \in 16 .. 19 => u[i] = Append(u[i - 1], s[i])
    BY <1>4
  <2>5. \A i \in 1 .. 21 : i \notin 16 .. 19 => u[i] = u[i - 1]
    BY <1>4
  <2>6. u[20] = u[19] /\ u[21] = u[20]
    BY <2>2, <2>3, <2>5
  <2>7. u[16] = Append(u[15], s[16]) /\ u[17] = Append(u[16], s[17])
    BY <2>1, <2>3, <2>4
  <2>8. u[18] = Append(u[17], s[18]) /\ u[19] = Append(u[18], s[19])
    BY <2>1, <2>3, <2>4
  <2> QED
    BY <2>6, <2>7, <2>8
<1>7. C \in Seq(Command) /\ Len(C) = 4 /\ \A j \in 1 .. 4 : C[j] = Write(DmaOrder[j], 0, WriteTransaction[j], 1)
  <2>1. ASSUME NEW j \in 1 .. 4 PROVE Write(DmaOrder[j], 0, WriteTransaction[j], 1) \in Command
    <3>1. DmaOrder[j] \in Regs /\ DmaOrder[j] # "WR"
      BY DEF DmaOrder, Regs
    <3>2. WriteTransaction[j] \in Word
      BY TransactionsTyped
    <3> QED
      BY <3>1, <3>2 DEF Write, Command, Forms
  <2> QED
    BY <2>1
<1> HIDE DEF C
<1>8. s[16] = C[1] /\ s[17] = C[2] /\ s[18] = C[3] /\ s[19] = C[4]
  <2>1. StepsAt(s, 13, WriteTransaction)
    BY DEF WriteBuiltAs
  <2>2. \A j \in 1 .. 4 : s[13 + 2 + j] = C[j]
    BY <1>7, <2>1 DEF StepsAt
  <2>3. /\ s[13 + 2 + 1] = C[1] /\ s[13 + 2 + 2] = C[2] /\ s[13 + 2 + 3] = C[3] /\ s[13 + 2 + 4] = C[4]
    BY <2>2
  <2> QED
    BY <2>3
<1>9. Append(Append(Append(Append(<< >>, C[1]), C[2]), C[3]), C[4]) = C
  BY <1>7, FourOf
<1>10. u[21] = C
  BY <1>5, <1>6, <1>8, <1>9
<1> QED
  BY <1>2, <1>10 DEF C, NoToken

\* The tokens of the plan: a is the first m of X, or the first and a stream of k words.
WriteSpelt(a, X, m) == a \in Seq(WriteToken) /\ Len(a) = m /\ \A j \in 1 .. m : a[j] = X[j]

\* A command outside the stream spells the next token of a write plan.
LEMMA WriteSpeltOn ==
  ASSUME NEW a, NEW X, NEW m \in Nat, WriteSpelt(a, X, m), NEW c \in Command, ~WordWrite(c), PairTok(c.form, c.reg) = X[m + 1]
  PROVE  WriteSpelt(WriteTokenStep(a, c), X, m + 1)
<1> DEFINE b == WriteTokenStep(a, c)
<1>1. b \in Seq(WriteToken) /\ Grown(a, b, PairTok(c.form, c.reg))
  BY WriteTokenGrows DEF WriteSpelt
<1> HIDE DEF b
<1>2. Len(b) = m + 1 /\ b[m + 1] = X[m + 1] /\ \A j \in 1 .. m : b[j] = X[j]
  BY <1>1 DEF Grown, WriteSpelt
<1>3. \A j \in 1 .. (m + 1) : j \in 1 .. m \/ j = m + 1
  OBVIOUS
<1> QED
  BY <1>1, <1>2, <1>3 DEF WriteSpelt, b

Counting(a, x, k) == a \in Seq(WriteToken) /\ Len(a) = 2 /\ a[1] = x /\ a[2] = CountTok(k)

\* The first word of the stream begins its count.
LEMMA CountingStarts ==
  ASSUME NEW a \in Seq(WriteToken), Len(a) = 1, a[1][1] # "STREAM", NEW c \in Command, WordWrite(c), c.count = 1
  PROVE  Counting(WriteTokenStep(a, c), a[1], 1)
<1> DEFINE b == Append(a, CountTok(1))
<1>1. ~(a # << >> /\ Last(a)[1] = "STREAM")
  BY DEF Last
<1>2. WriteTokenStep(a, c) = b
  BY <1>1 DEF WriteTokenStep, WordWrite, CountTok
<1>3. CountTok(1) \in WriteToken
  BY DEF WriteToken
<1>4. b \in Seq(WriteToken) /\ Grown(a, b, CountTok(1))
  BY <1>3, GrownIs
<1> HIDE DEF b
<1> QED
  BY <1>2, <1>4 DEF Counting, Grown

\* One more word of the stream is counted.
LEMMA CountingOn ==
  ASSUME NEW a, NEW x, NEW k \in Nat, Counting(a, x, k), NEW c \in Command, WordWrite(c), c.count = 1
  PROVE  Counting(WriteTokenStep(a, c), x, k + 1)
<1> DEFINE b == Append(Front(a), CountTok(k + 1))
<1>0. a \in Seq(WriteToken) /\ Len(a) = 2 /\ a[1] = x /\ a[2] = CountTok(k) /\ a # << >>
  BY DEF Counting
<1>1. Last(a)[1] = "STREAM" /\ Last(a)[2] = k
  BY <1>0, PairParts DEF Last
<1>2. WriteTokenStep(a, c) = b
  BY <1>0, <1>1 DEF WriteTokenStep, WordWrite, CountTok
<1>3. CountTok(k + 1) \in WriteToken
  BY DEF WriteToken
<1>4. b \in Seq(WriteToken) /\ Replaced(a, b, CountTok(k + 1))
  BY <1>0, <1>3, ReplacedIs
<1> HIDE DEF b
<1>5. Len(b) = 2 /\ b[2] = CountTok(k + 1) /\ b[1] = x
  BY <1>0, <1>4 DEF Replaced
<1> QED
  BY <1>2, <1>4, <1>5 DEF Counting

\* The tokens of a built write plan are the schedule of write plans.
LEMMA TokensBuilt ==
  ASSUME NEW p \in Patterns, NEW s, WriteBuiltAs(s, p)
  PROVE  WriteTokens(s) = WriteSchedule
<1> DEFINE X == WriteSchedule
<1>1. /\ X \in Seq(WriteToken) /\ Len(X) = 10
      /\ X[1] = PairTok("md.l", "CTRL") /\ X[2] = CountTok(12)
      /\ X[3] = PairTok("mw.l", "INT_STS") /\ X[4] = PairTok("md.l", "INT_STS")
      /\ \A j \in 1 .. 4 : X[4 + j] = PairTok("mw.l", DmaOrder[j])
      /\ X[9] = PairTok("md.l", "INT_STS") /\ X[10] = PairTok("md.l", "CTRL")
  BY WriteScheduleAt
<1> HIDE DEF X
<1>2. /\ Len(s) = 21 /\ \A i \in 1 .. 21 : s[i] \in Command
      /\ \A i \in 1 .. 21 : WriteSplit(s, p, i) /\ (WordWrite(s[i]) <=> i \in 2 .. 13)
  <2>1. Len(s) = 21 /\ s \in Seq(WriteCommand)
    BY DEF WriteBuiltAs
  <2>2. ASSUME NEW i \in 1 .. 21 PROVE s[i] \in Command
    <3>1. i \in 1 .. Len(s)
      BY <2>1
    <3>2. s[i] \in WriteCommand
      BY <2>1, <3>1, ElementOfSeq
    <3> QED
      BY <3>2 DEF WriteCommand
  <2> QED
    BY <2>1, <2>2, WriteSplitAt, WriteFits
<1>3. PICK u : WriteTokenWalk(u, s) /\ WriteTokens(s) = u[21]
  <2>1. Len(s) \in Nat
    BY <1>2
  <2>2. PICK v : WriteTokenWalk(v, s) /\ WriteTokens(s) = v[Len(s)]
    BY <2>1, WriteTokenUnfolds
  <2> QED
    BY <1>2, <2>2
<1>4. u[0] = << >> /\ \A i \in 1 .. 21 : u[i] = WriteTokenStep(u[i - 1], s[i])
  BY <1>2, <1>3 DEF WriteTokenWalk, NoToken
<1>5. WriteSpelt(u[1], X, 1)
  <2>1. << >> \in Seq(WriteToken) /\ Len(<< >>) = 0 /\ 1 .. 0 = {}
    OBVIOUS
  <2>2. WriteSpelt(u[0], X, 0)
    BY <1>4, <2>1 DEF WriteSpelt
  <2>3. /\ 0 \in Nat /\ 0 + 1 = 1 /\ u[1] = WriteTokenStep(u[0], s[1])
    BY <1>4
  <2>4. s[1] \in Command /\ ~WordWrite(s[1])
    BY <1>2
  <2>5. PairTok(s[1].form, s[1].reg) = X[0 + 1]
    <3>1. s[1] = Read("CTRL", 1)
      BY DEF WriteBuiltAs
    <3> QED
      BY <1>1, <3>1 DEF Read
  <2>6. WriteSpelt(WriteTokenStep(u[0], s[1]), X, 0 + 1)
    BY <2>2, <2>3, <2>4, <2>5, WriteSpeltOn
  <2> QED
    BY <2>3, <2>6
<1>6. \A i \in 2 .. 13 : WordWrite(s[i]) /\ s[i].count = 1
  <2> TAKE i \in 2 .. 13
  <2>1. i \in 1 .. 21 /\ i \notin {1, 21} /\ i # 14 /\ i \notin {15, 20} /\ i \notin 16 .. 19
    OBVIOUS
  <2> QED
    BY <1>2, <2>1 DEF WriteSplit, Write
<1> DEFINE P == {i \in 0 .. 11 : Counting(u[i + 2], X[1], i + 1)}
<1>7. 0 \in P
  <2>1. u[1] \in Seq(WriteToken) /\ Len(u[1]) = 1 /\ u[1][1] = X[1]
    BY <1>5 DEF WriteSpelt
  <2>2. X[1][1] # "STREAM"
    BY <1>1, PairParts
  <2>3. u[2] = WriteTokenStep(u[1], s[2]) /\ s[2] \in Command /\ WordWrite(s[2]) /\ s[2].count = 1
    BY <1>2, <1>4, <1>6
  <2>4. Counting(WriteTokenStep(u[1], s[2]), u[1][1], 1)
    BY <2>1, <2>2, <2>3, CountingStarts
  <2>5. 0 + 2 = 2 /\ 0 + 1 = 1 /\ 0 \in 0 .. 11
    OBVIOUS
  <2> QED
    BY <2>1, <2>3, <2>4, <2>5
<1>8. ASSUME NEW i \in 1 .. 11, i - 1 \in P PROVE i \in P
  <2>1. i - 1 + 2 = i + 1 /\ i - 1 + 1 = i /\ i + 2 \in 2 .. 13 /\ i + 2 \in 1 .. 21 /\ i + 2 - 1 = i + 1 /\ i \in 0 .. 11 /\ i \in Nat
    OBVIOUS
  <2>2. Counting(u[i + 1], X[1], i)
    BY <1>8, <2>1
  <2>3. u[i + 2] = WriteTokenStep(u[i + 1], s[i + 2])
    <3>1. PICK k : k = i + 2
      OBVIOUS
    <3>2. k \in 1 .. 21 /\ k - 1 = i + 1
      BY <2>1, <3>1
    <3>3. u[k] = WriteTokenStep(u[i + 1], s[k])
      BY <1>4, <3>2
    <3> QED
      BY <3>1, <3>3
  <2>4. s[i + 2] \in Command /\ WordWrite(s[i + 2]) /\ s[i + 2].count = 1
    BY <1>2, <1>6, <2>1
  <2>5. Counting(WriteTokenStep(u[i + 1], s[i + 2]), X[1], i + 1)
    BY <2>1, <2>2, <2>4, CountingOn
  <2> QED
    BY <2>1, <2>3, <2>5
<1>9. WriteSpelt(u[13], X, 2)
  <2>1. 11 \in P
    <3> HIDE DEF P
    <3>1. 0 .. 11 \subseteq P
      BY <1>7, <1>8, UpTo
    <3> QED
      BY <3>1
  <2>2. 11 + 2 = 13 /\ 11 + 1 = 12
    OBVIOUS
  <2>3. Counting(u[13], X[1], 12)
    BY <2>1, <2>2
  <2>4. \A j \in 1 .. 2 : j = 1 \/ j = 2
    OBVIOUS
  <2> QED
    BY <1>1, <2>3, <2>4 DEF Counting, WriteSpelt
<1>10. ASSUME NEW m \in 2 .. 9, WriteSpelt(u[m + 11], X, m) PROVE WriteSpelt(u[m + 12], X, m + 1)
  <2>1. PICK i : i = m + 12
    OBVIOUS
  <2>2. i \in 14 .. 21 /\ i \in 1 .. 21 /\ i - 1 = m + 11 /\ m \in Nat /\ i \notin 2 .. 13 /\ m + 1 = i - 11
    BY <2>1
  <2>3. u[i] = WriteTokenStep(u[m + 11], s[i]) /\ s[i] \in Command /\ ~WordWrite(s[i])
    BY <1>2, <1>4, <2>2
  <2>4. PairTok(s[i].form, s[i].reg) = X[m + 1]
    <3>1. CASE i = 14 /\ s[i] = Write("INT_STS", 0, ClearMask, 1)
      <4>1. m + 1 = 3
        BY <2>2, <3>1
      <4> QED
        BY <1>1, <3>1, <4>1 DEF Write
    <3>2. CASE i \in {15, 20} /\ s[i] = Read("INT_STS", 1)
      <4>1. m + 1 = 4 \/ m + 1 = 9
        BY <2>2, <3>2
      <4> QED
        BY <1>1, <3>2, <4>1 DEF Read
    <3>3. CASE i \in 16 .. 19 /\ s[i] = Write(DmaOrder[i - 15], 0, WriteTransaction[i - 15], 1)
      <4>1. PICK j : j = i - 15
        OBVIOUS
      <4>2. j \in 1 .. 4 /\ m + 1 = 4 + j
        BY <2>2, <3>3, <4>1
      <4>3. X[4 + j] = PairTok("mw.l", DmaOrder[j])
        BY <1>1, <4>2
      <4>4. s[i].form = "mw.l" /\ s[i].reg = DmaOrder[j]
        BY <3>3, <4>1 DEF Write
      <4> QED
        BY <4>2, <4>3, <4>4
    <3>4. CASE i \in {1, 21} /\ s[i] = Read("CTRL", 1)
      <4>1. m + 1 = 10
        BY <2>2, <3>4
      <4> QED
        BY <1>1, <3>4, <4>1 DEF Read
    <3>5. WriteSplit(s, p, i)
      BY <1>2, <2>2
    <3> QED
      BY <2>2, <3>1, <3>2, <3>3, <3>4, <3>5 DEF WriteSplit
  <2>5. WriteSpelt(WriteTokenStep(u[m + 11], s[i]), X, m + 1)
    BY <1>10, <2>2, <2>3, <2>4, WriteSpeltOn
  <2> QED
    BY <2>1, <2>3, <2>5
<1>11. WriteSpelt(u[21], X, 10)
  <2>1. /\ WriteSpelt(u[13], X, 2) => WriteSpelt(u[14], X, 3)
        /\ WriteSpelt(u[14], X, 3) => WriteSpelt(u[15], X, 4)
        /\ WriteSpelt(u[15], X, 4) => WriteSpelt(u[16], X, 5)
        /\ WriteSpelt(u[16], X, 5) => WriteSpelt(u[17], X, 6)
    <3>1. /\ 2 + 11 = 13 /\ 2 + 12 = 14 /\ 2 + 1 = 3 /\ 3 + 11 = 14 /\ 3 + 12 = 15 /\ 3 + 1 = 4
          /\ 4 + 11 = 15 /\ 4 + 12 = 16 /\ 4 + 1 = 5 /\ 5 + 11 = 16 /\ 5 + 12 = 17 /\ 5 + 1 = 6
          /\ 2 \in 2 .. 9 /\ 3 \in 2 .. 9 /\ 4 \in 2 .. 9 /\ 5 \in 2 .. 9
      OBVIOUS
    <3> QED
      BY <1>10, <3>1
  <2>2. /\ WriteSpelt(u[17], X, 6) => WriteSpelt(u[18], X, 7)
        /\ WriteSpelt(u[18], X, 7) => WriteSpelt(u[19], X, 8)
        /\ WriteSpelt(u[19], X, 8) => WriteSpelt(u[20], X, 9)
        /\ WriteSpelt(u[20], X, 9) => WriteSpelt(u[21], X, 10)
    <3>1. /\ 6 + 11 = 17 /\ 6 + 12 = 18 /\ 6 + 1 = 7 /\ 7 + 11 = 18 /\ 7 + 12 = 19 /\ 7 + 1 = 8
          /\ 8 + 11 = 19 /\ 8 + 12 = 20 /\ 8 + 1 = 9 /\ 9 + 11 = 20 /\ 9 + 12 = 21 /\ 9 + 1 = 10
          /\ 6 \in 2 .. 9 /\ 7 \in 2 .. 9 /\ 8 \in 2 .. 9 /\ 9 \in 2 .. 9
      OBVIOUS
    <3> QED
      BY <1>10, <3>1
  <2> QED
    BY <1>9, <2>1, <2>2
<1>12. u[21] = X
  <2>1. PICK a : a = u[21]
    OBVIOUS
  <2>2. a \in Seq(WriteToken) /\ Len(a) = 10 /\ \A j \in 1 .. 10 : a[j] = X[j]
    BY <1>11, <2>1 DEF WriteSpelt
  <2>3. a = [j \in 1 .. 10 |-> a[j]] /\ X = [j \in 1 .. 10 |-> X[j]]
    BY <1>1, <2>2
  <2> QED
    BY <2>1, <2>2, <2>3
<1> QED
  BY <1>3, <1>12 DEF X

\* The guards accept the write plan of every pattern.
LEMMA BuiltWriteAccepted ==
  ASSUME NEW p \in Patterns
  PROVE  BuildWritePlan(p) \in Seq(WriteCommand) /\ CheckCommands(BuildWritePlan(p)) /\ StreamOf(BuildWritePlan(p)) = WriteStream(p)
<1> DEFINE s == BuildWritePlan(p)
<1>1. WriteBuiltAs(s, p)
  BY WriteBuiltAt
<1> HIDE DEF s
<1>2. s \in Seq(WriteCommand) /\ DOMAIN s = 1 .. 21
  BY <1>1 DEF WriteBuiltAs
<1>3. \A i \in 1 .. 21 : WriteMeets(s[i])
  BY <1>1, WriteSplitAt, WriteFits
<1>4. CheckAllowlist(s, WriteRegions)
  BY <1>2, <1>3 DEF CheckAllowlist, WriteMeets, Fits
<1>5. \A i \in DOMAIN s : s[i].form = "mw.l" =>
         /\ s[i].reg \in {"WR", "INT_STS"} \cup DmaRegs
         /\ s[i].reg = "INT_STS" => s[i].value = ClearMask
  BY <1>2, <1>3 DEF WriteMeets
<1>6. WrittenOnce(s) /\ ValidateWriteStream(StreamOf(s)) /\ StreamOf(s) = WriteStream(p)
  BY <1>1, WordsPlaced, StreamAccepted
<1>7. Walk(RegisterStep, <<>>, s) = [i \in 1..4 |-> Write(DmaOrder[i], 0, WriteTransaction[i], 1)]
  BY <1>1, RegistersBuilt
<1>8. WriteTokens(s) =
         << <<"md.l", "CTRL">>, <<"STREAM", WriteWords>>, <<"mw.l", "INT_STS">>, <<"md.l", "INT_STS">> >>
         \o [i \in 1..4 |-> <<"mw.l", DmaOrder[i]>>]
         \o << <<"md.l", "INT_STS">>, <<"md.l", "CTRL">> >>
  BY <1>1, TokensBuilt DEF WriteSchedule, PairTok, CountTok
<1>9. CheckCommands(s)
  BY <1>4, <1>5, <1>6, <1>7, <1>8 DEF CheckCommands
<1> QED
  BY <1>2, <1>6, <1>9 DEF s

\* The stream of a pattern has none of the holes, and its frame in its place.
LEMMA WriteStreamSafe ==
  ASSUME NEW p \in Patterns
  PROVE  ~Unready(WriteStream(p)) /\ ~Miscounted(WriteStream(p)) /\ FrameIn(WriteStream(p)) = FrameOf(p)
<1> DEFINE W == WriteStream(p)
<1>1. /\ W \in Seq(Word) /\ Len(W) = 12
      /\ W[1] = <<"SYNC", 0>> /\ W[2] = <<"RCRC", 0>> /\ W[3] = <<"IDCODE", 0>> /\ W[4] = <<"WCFG", 0>>
      /\ W[5] = FarWord(TargetFar) /\ W[6] = <<"FDRI", 4>> /\ W[7] = <<"init", p>> /\ W[8] = <<"ecc", p>>
      /\ W[9] = <<"rest", 0>> /\ W[10] = PadFrame /\ W[11] = <<"DESYNC", 0>> /\ W[12] = Noop
  BY WriteStreamAt
<1> HIDE DEF W
<1>2. DOMAIN W = 1 .. 12
  BY <1>1
<1>3. \A i \in 1 .. 12 : \/ i = 1 \/ i = 2 \/ i = 3 \/ i = 4 \/ i = 5 \/ i = 6
                         \/ i = 7 \/ i = 8 \/ i = 9 \/ i = 10 \/ i = 11 \/ i = 12
  OBVIOUS
<1>4. \A i \in 1 .. 12 : (W[i][1] \in CommandWords => W[i][2] = 0) /\ (W[i][1] = "FDRI" => i = 6)
  <2> TAKE i \in 1 .. 12
  <2> QED
    BY <1>1, <1>3 DEF CommandWords, FarWord, PadFrame, Noop
<1>5. 1 \in 1 .. (6 - 1) /\ 3 \in 1 .. (6 - 1) /\ 4 \in 1 .. (6 - 1)
  OBVIOUS
<1>6. Readiness \subseteq {W[i] : i \in 1 .. (6 - 1)}
  BY <1>1, <1>5 DEF Readiness
<1>7. SubSeq(W, 7, 9) = FrameOf(p)
  <2> DEFINE F == SubSeq(W, 7, 9)
  <2>1. Len(F) = 3 /\ F = [i \in 1 .. 3 |-> W[i + 6]]
    BY <1>1
  <2>2. 1 + 6 = 7 /\ 2 + 6 = 8 /\ 3 + 6 = 9
    OBVIOUS
  <2> HIDE DEF F
  <2>a. F[1] = W[7] /\ F[2] = W[8] /\ F[3] = W[9] /\ DOMAIN F = 1 .. 3
    BY <2>1, <2>2
  <2>b. <<W[7], W[8], W[9]>> = [i \in 1 .. 3 |-> <<W[7], W[8], W[9]>>[i]]
    OBVIOUS
  <2>c. \A i \in 1 .. 3 : i = 1 \/ i = 2 \/ i = 3
    OBVIOUS
  <2>3. F = <<W[7], W[8], W[9]>>
    BY <2>1, <2>a, <2>b, <2>c
  <2> QED
    BY <1>1, <2>3 DEF F, FrameOf
<1> QED
  BY <1>2, <1>4, <1>6, <1>7 DEF Unready, Miscounted, FrameIn, W

\* BuiltIsAccepted for any size of the destination buffer: the guards of
\* scripts/pcap_probe_plan.py and scripts/pcap_write_plan.py accept the plans
\* that the planners build, and those drive the engine as the probe needs.
THEOREM BuiltPlansAreAccepted == PlanSpec => []BuiltIsAccepted
<1>1. ASSUME PlanInv PROVE BuiltIsAccepted
  <2> SUFFICES ASSUME edits = 0 PROVE Accepted /\ Harmless
    BY DEF BuiltIsAccepted
  <2>1. plan \in Built
    BY <1>1 DEF PlanInv
  <2>2. ASSUME NEW o \in Orders,
               plan = [kind |-> "read", far |-> 1, order |-> o, sentinel |-> 3, script |-> BuildPlan(1, o, 3)]
        PROVE  Accepted /\ Harmless
    <3>1. /\ plan.kind = "read" /\ plan.order = o /\ plan.far = 1 /\ plan.sentinel = 3
          /\ plan.script = BuildPlan(1, o, 3)
      BY <2>2
    <3>2. /\ plan.order \in Orders /\ plan.far \in Nat /\ plan.sentinel \in Nat /\ plan.sentinel \in 1 .. (WordLimit - 1)
          /\ plan.script = BuildPlan(plan.far, plan.order, plan.sentinel)
      BY <3>1, PlanAssumption, SentinelAssumption
    <3>3. Adjudicated(plan) /\ ~ZeroFilled(plan.script) /\ plan.script \in Seq(ReadCommand)
      BY <3>2, BuiltAdjudicated
    <3>4. Sound(plan)
      BY <3>2, <3>3, ReadSound
    <3> QED
      BY <3>1, <3>3, <3>4 DEF Accepted, Harmless
  <2>3. ASSUME plan = [kind |-> "write", far |-> 1, order |-> "", sentinel |-> 3, script |-> BuildWritePlan(1),
                       stream |-> WriteStream(1), frame_after |-> FrameOf(1)]
        PROVE  Accepted /\ Harmless
    <3>1. /\ plan.kind = "write" /\ plan.script = BuildWritePlan(1)
          /\ plan.stream = WriteStream(1) /\ plan.frame_after = FrameOf(1)
      BY <2>3
    <3>a. /\ plan.script \in Seq(WriteCommand) /\ CheckCommands(plan.script) /\ StreamOf(plan.script) = plan.stream
          /\ ~Unready(plan.stream) /\ ~Miscounted(plan.stream) /\ FrameIn(plan.stream) = plan.frame_after
      BY <3>1, BuiltWriteAccepted, WriteStreamSafe DEF Patterns
    <3>2. /\ plan.script \in Seq(WriteCommand) /\ CheckWritePlan(plan)
          /\ ~Unready(plan.stream) /\ ~Miscounted(plan.stream)
      BY <3>a DEF CheckWritePlan
    <3>3. SoundWrite(plan)
      BY <3>2, WriteSound
    <3> QED
      BY <3>1, <3>2, <3>3 DEF Accepted, Harmless
  <2> QED
    BY <2>1, <2>2, <2>3 DEF Built, Orders
<1> QED
  BY <1>1, PlanInvHolds, PTL

==============================================================================
