---------------------------- MODULE MCBoardProbe ----------------------------
(* The instance: the three chains, shortened to two repetitions each.         *)
EXTENDS BoardProbe
MCPrograms == {ProbeChain(2), P1Chain, P2Chain(1)}
=============================================================================
