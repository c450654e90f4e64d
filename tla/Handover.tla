------------------------------ MODULE Handover ------------------------------
(***************************************************************************)
(* What a session promises, whatever the link does: each candidate is      *)
(* answered once by the notary, recorded once by the host, and confirmed   *)
(* to the board, strictly in that order and one candidate at a time.  A    *)
(* session may stop anywhere; a record that is a stop is the last one.     *)
(***************************************************************************)
EXTENDS Naturals, Sequences

CONSTANT NCand  \* candidates of the session

VARIABLES
  notary,     \* the notary's answers, by seq
  records,    \* the host's records, by seq
  confirmed   \* the records the board knows the host has

vars == <<notary, records, confirmed>>

Stops == {"STOP_SIGN", "STOP_DEVICE"}

\* The outcomes a record may have after each answer.
Fitting == [SIGNOK |-> {"SCORED"} \cup Stops, SIGNREF |-> {"REFUSED_BY_GATE", "STOP_SIGN"}]

Init == notary = << >> /\ records = << >> /\ confirmed = << >>

Answer ==
  /\ Len(notary) = Len(confirmed)
  /\ Len(notary) < NCand
  /\ \A i \in DOMAIN confirmed : confirmed[i] \notin Stops
  /\ \E a \in {"SIGNOK", "SIGNREF"} : notary' = Append(notary, a)
  /\ UNCHANGED <<records, confirmed>>

Record ==
  /\ Len(records) < Len(notary)
  /\ \E o \in Fitting[notary[Len(records) + 1]] : records' = Append(records, o)
  /\ UNCHANGED <<notary, confirmed>>

Confirm ==
  /\ Len(confirmed) < Len(records)
  /\ confirmed' = Append(confirmed, records[Len(confirmed) + 1])
  /\ UNCHANGED <<notary, records>>

Next == Answer \/ Record \/ Confirm
Spec == Init /\ [][Next]_vars
=============================================================================
