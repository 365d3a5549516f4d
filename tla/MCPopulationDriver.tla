------------------------- MODULE MCPopulationDriver -------------------------
EXTENDS PopulationDriver

MCCandidate == 1..3
TwoCandidates == 1..2
MCFiles == [c \in MCCandidate |-> [skill |-> c]]
MCResource == <<"cost">>
MCBudget == [name \in {"cost"} |-> 1]
MCRole == [e \in {"dev", "fin"} |-> IF e = "dev" THEN "development" ELSE "final"]
MCDeviation(R) == 0
MCDivergence(p, q) == IF p = q THEN 0 ELSE 1
MCMaxCost == [name \in {"cost"} |-> 4]

Ev(passed, protected) ==
    [protectedPassed |-> protected, safetyFailures |-> 0, passed |-> passed,
     surprisal |-> 0, behaviour |-> [b \in {"x"} |-> 1], cost |-> [name \in {"cost"} |-> 1]]

\* The challenger is better, or worse and unfeasible.
MCEvidence == {<<Ev(0, TRUE), Ev(1, TRUE)>>, <<Ev(1, TRUE), Ev(0, FALSE)>>}
BetterOnly == {<<Ev(0, TRUE), Ev(1, TRUE)>>}
Infeasible == {<<Ev(0, TRUE), Ev(1, TRUE)>>, <<Ev(0, FALSE), Ev(0, FALSE)>>}

MCDraw == [numerator |-> 1, denominator |-> 2]
OneDraw == <<MCDraw>>
NoDraws == << >>

NoRecords == {}
MCOperatorRecord ==
    {[kind |-> "experiment", exp |-> "fin"],
     [kind |-> "run", cand |-> 1, exp |-> "fin", rep |-> <<0, "operator">>, ev |-> Ev(1, TRUE)],
     [kind |-> "run", cand |-> 1, exp |-> "dev", rep |-> <<0, "operator">>, ev |-> Ev(1, FALSE)],
     [kind |-> "candidate", cand |-> 2, parents |-> {1}, variation |-> "mutation",
      loci |-> << >>, choice |-> 0]}
=============================================================================
