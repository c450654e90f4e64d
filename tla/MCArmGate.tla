----------------------------- MODULE MCArmGate ------------------------------
(***************************************************************************)
(* A small carrier for TLC: three vectors, two of them train, and three    *)
(* genomes, two of which compute different functions.                      *)
(***************************************************************************)
EXTENDS ArmGate

CONSTANTS blank, g1, g2

MCGenomes == {blank, g1, g2}
MCOrder == [v \in 0 .. 2 |-> (v + 1) % 3]
MCTarget == [v \in 0 .. 2 |-> v # 1]
MCFunction == [g \in MCGenomes |-> [v \in 0 .. 2 |-> CASE g = blank -> FALSE [] g = g1 -> v = 2 [] OTHER -> v # 1]]
=============================================================================
