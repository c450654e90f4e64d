------------------------------- MODULE MCBooks -------------------------------
(* A small instance of Books: three candidates, of which the sampled policy *)
(* leaves the middle one unaudited.                                         *)
EXTENDS Books

Sampled == [mode |-> "abba", policy |-> "sampled", hb |-> "v07"]
Calibration == [mode |-> "random_safe_forced", policy |-> "all-self-reporting", hb |-> "v06"]
MCPlans == {Sampled, Calibration}

MCFaults ==
  [kind : {"staged", "read", "junk", "link2", "nonce", "hw", "tables", "brief", "skip", "forged",
           "operator", "label", "scores", "beat", "beats"},
   seq : 1 .. N + 2]
    \cup [kind : {"refusal", "ident", "control", "drops", "count", "unsigned"}, seq : {1}]
    \cup [kind : {"short"}, seq : {1, 2}]

MCUnsigned == [kind : {"unsigned"}, seq : {1}]
==============================================================================
