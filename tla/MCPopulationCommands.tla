------------------------- MODULE MCPopulationCommands -------------------------
EXTENDS PopulationCommands

\* Skills of two files; 3 mixes the files of 1 and 2, 4 is unrelated.
MCCandidate == 1..4
MCFiles ==
    [c \in MCCandidate |->
        CASE c = 1 -> [doc |-> "a", tool |-> "a"]
          [] c = 2 -> [doc |-> "b", tool |-> "b"]
          [] c = 3 -> [doc |-> "a", tool |-> "b"]
          [] OTHER -> [doc |-> "c", tool |-> "c"]]

MCResource == <<"cost">>
MCBudget == [name \in {"cost"} |-> 1]
MCRole == [e \in {"dev", "fin"} |-> IF e = "dev" THEN "development" ELSE "final"]

MCDeviation(R) ==
    LET passed == {r.ev.passed : r \in R} IN Max(passed) - Min(passed)
MCDivergence(p, q) == IF p = q THEN 0 ELSE 1

Evidence(passed, safety) ==
    [protectedPassed |-> TRUE, safetyFailures |-> safety, passed |-> passed,
     surprisal |-> 0, behaviour |-> [b \in {"x"} |-> 1], cost |-> [name \in {"cost"} |-> 1]]

CandidateRequest(c, P, v) ==
    [command |-> "candidate", cand |-> c, parents |-> P, variation |-> v, loci |-> << >>]
Recombine(first, second) ==
    [command |-> "recombine", parents |-> {1, 2}, variation |-> "recombination",
     loci |-> [doc |-> first, tool |-> second]]
RunRequest(c, e, rep, ev) ==
    [command |-> "run", cand |-> c, exp |-> e, rep |-> rep, ev |-> ev]

Draw == [numerator |-> 1, denominator |-> 2]

\* Every command: lineage by mutation and recombination, an experiment with
\* a run, its archive and an allocation, and the readers beside them.
OverlapRequests ==
    {[command |-> "init"],
     CandidateRequest(1, {}, "seed"), CandidateRequest(2, {1}, "mutation"),
     Recombine(1, 2),
     [command |-> "experiment", exp |-> "dev"],
     RunRequest(1, "dev", 1, Evidence(1, 0)), RunRequest(1, "dev", 2, Evidence(1, 1)),
     [command |-> "archive", exp |-> "dev"],
     [command |-> "allocate", archive |-> 5, draw |-> Draw],
     [command |-> "verify"], [command |-> "verify-index"],
     [command |-> "rebuild"],
     [command |-> "query", type |-> "summary"],
     [command |-> "query", type |-> "candidates"],
     [command |-> "query", type |-> "lineage", cand |-> 1],
     [command |-> "query", type |-> "archive", archive |-> 0]}
=============================================================================
