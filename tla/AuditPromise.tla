---------------------------- MODULE AuditPromise ----------------------------
(***************************************************************************)
(* What an audit promises: the board's record says `audited` only of words *)
(* the host holds in full, the mark is final, and a candidate whose ARM    *)
(* waits for its audit is armed under that mark only.                      *)
(***************************************************************************)
EXTENDS Naturals

CONSTANT N      \* chunks of the span

VARIABLES
  held,   \* chunks of the candidate the host holds
  mark,   \* the board's own mark: "open" until the pull ends
  armed   \* the ARM that waited for the audit was issued

Hold == /\ \E c \in 0 .. N - 1 : held' = held \cup {c}
        /\ UNCHANGED <<mark, armed>>

Confirm == /\ mark = "open"
           /\ held = 0 .. N - 1
           /\ mark' = "audited"
           /\ UNCHANGED <<held, armed>>

GiveUp == /\ mark = "open"
          /\ mark' = "replayed-only"
          /\ UNCHANGED <<held, armed>>

Arm == /\ mark = "audited" /\ ~armed
       /\ armed' = TRUE
       /\ UNCHANGED <<held, mark>>

Init == held = {} /\ mark = "open" /\ armed = FALSE

Next == Hold \/ Confirm \/ GiveUp \/ Arm

Spec == Init /\ [][Next]_<<held, mark, armed>>

=============================================================================
