-------------------------- MODULE MCHarnessRuntime --------------------------
(* Small instances of HarnessRuntime for TLC.                              *)
EXTENDS HarnessRuntime

CONSTANTS TopTurns, SubTurns

MCLevels == {0, 1}
MCCells == 1..TopTurns
MCTurns == [d \in MCLevels |-> IF d = 0 THEN TopTurns ELSE SubTurns]
=============================================================================
