---------------------------- MODULE ArchivePolicy ----------------------------
(***************************************************************************)
(* The archive policy of the Population: how the runs of one development   *)
(* experiment become a bounded set of selectable parents.  It is the pure  *)
(* part of apps/population/population_policy.py (_candidate_aggregate,     *)
(* _dominates, _archive_rank and the selection in _archive_body).          *)
(*                                                                         *)
(* Abstractions.  Probabilities and rates are integers: a mean over n runs *)
(* is Scale * total \div n, with Scale a multiple of every n that occurs.  *)
(* The divergence of two behaviours and the standard deviation of rates    *)
(* are constant operators.  Every objective is turned so that larger is    *)
(* better: the code's "min" objectives enter with their sign changed.      *)
(* Experiments have information_objective FALSE, as those of the driver do *)
(* (population_driver_protocol.py:281) and those of both final assays: the *)
(* sixth objective and the refusal for want of information evidence are    *)
(* left out.  The refusals of _divergence and of the aggregate (:85-90,    *)
(* :226-246) never happen to a ledger that loads, because _run_evidence    *)
(* has checked length, distribution and information of every run in it.    *)
(***************************************************************************)
EXTENDS Integers, Sequences, FiniteSets, FiniteSetsExt

CONSTANTS
    Candidate,        \* candidate ids, naturals: the code orders ids as strings
    Resource,         \* RESOURCE_NAMES, a sequence (its order is the rank order)
    Budget,           \* [Resource names -> Nat], experiment.budget
    CaseCount,        \* experiment.case_count
    Capacity,         \* archive_policy.capacity
    Scale,            \* multiple of every replicate count
    Kappa,            \* archive_policy.reliability_kappa
    Deviation(_),     \* sample deviation of the task rates of a set of runs
    Divergence(_, _)  \* KL divergence of two behaviours

ASSUME CandidateAssumption == Candidate \subseteq Nat
ASSUME CapacityAssumption == Capacity \in Nat \ {0}

\* Op(v), with v evaluated once.
With(v, Op(_)) == CHOOSE y \in {Op(x) : x \in {v}} : TRUE

ResourceNames == {Resource[i] : i \in 1..Len(Resource)}

Objective ==
    {"novelty", "task", "reliability", "surprisal"} \cup ResourceNames

\* _run_evidence: what it demands of the evidence of a run before it measures it.
IsEvidence(ev) ==
    /\ ev.protectedPassed \in BOOLEAN
    /\ ev.passed \in 0..CaseCount /\ ev.safetyFailures \in 0..CaseCount
    /\ \A name \in ResourceNames : ev.cost[name] \in Nat

\* A run survives when no protected case failed, no safety failure was seen
\* and every resource stayed within the experiment's budget.
Survives(ev) ==
    /\ ev.protectedPassed
    /\ ev.safetyFailures = 0
    /\ \A name \in ResourceNames : ev.cost[name] <= Budget[name]

\* One metric per evaluated candidate, from the non-empty set R of its runs.
CandidateAggregate(R) ==
    LET n == Cardinality(R)
        Total(Val(_)) == MapThenSumSet(Val, R)
        Mean(Val(_)) == (Scale * Total(Val)) \div n
        Passed(r) == r.ev.passed
        Surprisal(r) == r.ev.surprisal
        Cost(name) == Total(LAMBDA r : r.ev.cost[name])
    IN  [survival   |-> \A r \in R : Survives(r.ev),
         replicates |-> n,
         passed     |-> Total(Passed),
         cases      |-> n * CaseCount,
         behaviour  |-> [b \in UNION {DOMAIN r.ev.behaviour : r \in R} |->
                            Mean(LAMBDA r : r.ev.behaviour[b])],
         score      |-> [o \in Objective |->
                            CASE o = "novelty"     -> 0
                              [] o = "task"        -> Mean(Passed)
                              [] o = "reliability" ->
                                    Mean(Passed) - Kappa * (IF n >= 2 THEN Deviation(R) ELSE 0)
                              [] o = "surprisal"   -> -Mean(Surprisal)
                              [] OTHER             -> -Cost(o)]]

\* x dominates y: no worse on any objective and better on one.
Dominates(x, y) ==
    /\ \A o \in Objective : x[o] >= y[o]
    /\ \E o \in Objective : x[o] > y[o]

RankOrder == <<"novelty", "task", "reliability", "surprisal">> \o Resource

\* _archive_rank: lexicographic over RankOrder, ties broken by candidate id.
RankBefore(scores, c, d) ==
    LET Same(k) == scores[c][RankOrder[k]] = scores[d][RankOrder[k]]
        Better(k) == scores[c][RankOrder[k]] > scores[d][RankOrder[k]]
    IN  \/ \E k \in 1..Len(RankOrder) : Better(k) /\ \A j \in 1..(k-1) : Same(j)
        \/ c < d /\ \A k \in 1..Len(RankOrder) : Same(k)

\* Mutant: the survival filter is dropped.
ViableUnfiltered(agg) == DOMAIN agg

\* The evaluated candidates whose every run survived.
Viable(agg) == {c \in DOMAIN agg : agg[c].survival}

\* Scores of the viable candidates, each with its novelty: the smallest
\* divergence from another viable candidate, 0 for a lone one.
ViableScores(agg) ==
    LET Distances(c) ==
            {Divergence(agg[c].behaviour, agg[d].behaviour) : d \in Viable(agg) \ {c}}
        Novelty(c) == IF Distances(c) = {} THEN 0 ELSE Min(Distances(c))
    IN  [c \in Viable(agg) |-> [agg[c].score EXCEPT !["novelty"] = Novelty(c)]]

Frontier(scores) ==
    {c \in DOMAIN scores : ~ \E d \in DOMAIN scores \ {c} : Dominates(scores[d], scores[c])}

\* The first Capacity members of the ranked frontier.
Selected(scores) ==
    With(Frontier(scores),
         LAMBDA F : {c \in F : Cardinality({d \in F : RankBefore(scores, d, c)}) < Capacity})

\* Why a known candidate is not a member.
ExclusionReason(agg, scores, c) ==
    IF c \notin DOMAIN agg THEN "unevaluated"
    ELSE IF c \notin DOMAIN scores THEN "infeasible"
    ELSE IF c \notin Frontier(scores) THEN "dominated"
    ELSE "capacity"
=============================================================================
