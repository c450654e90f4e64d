------------------------------ MODULE MCBoardRun ------------------------------
(* The instance: every control of L3, L4, a short L2 and the diagnostic.      *)
EXTENDS BoardRun
MCPrograms == {L3(n) : n \in {None} \cup PreControls \cup PostControls} \cup {L4, L2(1), Diag}
=============================================================================
