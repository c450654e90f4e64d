------------------------------ MODULE Schedule ------------------------------
(* What a session of N candidates is before it runs: the arm each candidate *)
(* belongs to, the candidates that are audited, the frames it must emit and *)
(* the losses it may have (host/l6_schedule.py).  Records are numbered 1 to *)
(* N + 2; the first and the last are the blank baselines.                   *)
EXTENDS Integers, FiniteSets

Arms == {"random_safe", "map_guided"}
Modes == {"abba", "random_safe_forced", "map_guided_forced"}

(* Successive pairs run in opposite orders: A B, B A, A B, ... *)
arm_abba(index) ==
  LET firstIsA == (index \div 2) % 2 = 0
      second == index % 2 = 1
  IN  IF firstIsA # second THEN "random_safe" ELSE "map_guided"

(* The scheduled arm of each candidate's record. *)
schedule(n, mode) ==
  [seq \in 2 .. n + 1 |->
     CASE mode = "abba" -> arm_abba(seq - 2)
       [] mode = "random_safe_forced" -> "random_safe"
       [] mode = "map_guided_forced" -> "map_guided"]

baseline_seqs(n) == {1, n + 2}
all_seqs(n) == 1 .. n + 2

(* The sampled audits: the brackets, the first and last candidate and every *)
(* every-th record.                                                         *)
sampled_audit_seqs(n, every) ==
  baseline_seqs(n) \cup {2, n + 1} \cup {s \in all_seqs(n) : s % every = 0}

(* Frames of a completed session: three of its own, a request, sixteen      *)
(* heartbeats and a record each, and nine more for each audited record.     *)
expected_frames(n, audited) ==
  3 + 18 * (n + 2) + 9 * Cardinality(audited \cap all_seqs(n))

crc_budget(expected) == (4 * expected + 999) \div 1000

(* The SCORED records that may miss heartbeats, one in a thousand. *)
hb_missing_budget(scored, per) == scored \div per
=============================================================================
