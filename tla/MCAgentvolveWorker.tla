------------------------ MODULE MCAgentvolveWorker ------------------------
(* Small instances of AgentvolveWorker for TLC.                            *)
EXTENDS AgentvolveWorker, TLC

CONSTANTS p1, p2

SolutionOnly == <<"solution">>
HarnessFirst == <<"harness", "solution">>
MCSymmetry == Permutations(Processes)
=============================================================================
