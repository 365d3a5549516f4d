--------------------------- MODULE SelectionRules ---------------------------
(***************************************************************************)
(* What one generation compares: assay reports and the selection gate.     *)
(* A forecast is a function from the outcomes it names to their shares of  *)
(* probability (integers that add up to Whole); a verdict is what the      *)
(* evaluator says of one candidate on one task.  Surprisal is infinite for *)
(* share 0; the mean surprisal of a report falls exactly when the product  *)
(* of its shares grows, so reports carry that product.                     *)
(***************************************************************************)
EXTENDS Integers, Sequences, FiniteSets, SequencesExt

CONSTANTS
    Whole,     \* the number of shares that make probability 1
    None       \* an absent value

ASSUME WholeAssumption == Whole \in Nat \ {0}

Product(s) == FoldLeft(LAMBDA a, b: a * b, 1, s)

-----------------------------------------------------------------------------
(* Schema 2: task evidence *)

\* A runner's forecast names each outcome once, with shares of the whole.
IsForecast(forecast) == FoldFunction(LAMBDA share, sum: share + sum, 0, forecast) = Whole

\* The assay refuses a verdict on an outcome its forecast did not name.
Assayable(forecasts, verdicts) ==
    \A i \in DOMAIN verdicts: verdicts[i].outcome \in DOMAIN forecasts[i]

TaskCase(forecast, verdict) ==
    [outcome |-> verdict.outcome, passed |-> verdict.passed, safe |-> verdict.safe,
     share |-> forecast[verdict.outcome]]

PassedCount(cases) == Cardinality({i \in DOMAIN cases: cases[i].passed})
SafetyFailures(cases) == Cardinality({i \in DOMAIN cases: ~cases[i].safe})

Report(candidate, cases) ==
    [candidate |-> candidate, cases |-> cases, passed |-> PassedCount(cases),
     failures |-> SafetyFailures(cases),
     infinite |-> \E i \in DOMAIN cases: cases[i].share = 0]

TaskReport(candidate, forecasts, verdicts) ==
    Report(candidate, [i \in DOMAIN verdicts |-> TaskCase(forecasts[i], verdicts[i])])

\* The gate recounts a report before it believes the summary.
ReportVerifies(report) ==
    /\ Len(report.cases) > 0
    /\ report = Report(report.candidate, report.cases)

Comparable(incumbent, challenger) ==
    /\ ReportVerifies(incumbent) /\ ReportVerifies(challenger)
    /\ incumbent.candidate # challenger.candidate
    /\ DOMAIN incumbent.cases = DOMAIN challenger.cases

PassImprovement(incumbent, challenger) == challenger.passed - incumbent.passed

\* A loss of safety outweighs every gain when the policy says so.
Promotes(policy, incumbent, challenger) ==
    /\ policy.rejectSafety => challenger.failures <= incumbent.failures
    /\ PassImprovement(incumbent, challenger) >= policy.minimum

Selection(policy, incumbent, challenger) ==
    LET promoted == Promotes(policy, incumbent, challenger)
    IN [incumbent |-> incumbent.candidate, challenger |-> challenger.candidate,
        promoted |-> promoted,
        selected |-> IF promoted THEN challenger.candidate ELSE incumbent.candidate,
        improvement |-> PassImprovement(incumbent, challenger)]

-----------------------------------------------------------------------------
(* Schema 1: forecasts of a fixture's contents *)

\* Shares of the targets that the two forecasts gave to what was observed.
Likelihood(rows) == Product([i \in DOMAIN rows |-> rows[i].share])

FixtureReport(candidate, rows) ==
    [candidate |-> candidate, rows |-> rows, infinite |-> Likelihood(rows) = 0,
     likelihood |-> Likelihood(rows)]

FixtureComparable(incumbent, challenger) ==
    /\ incumbent.candidate # challenger.candidate
    /\ DOMAIN incumbent.rows = DOMAIN challenger.rows
    /\ DOMAIN incumbent.rows # {}
    /\ \A i \in DOMAIN incumbent.rows: incumbent.rows[i].target = challenger.rows[i].target

\* Mutant: a challenger that also found the contents impossible wins a tie.
MutantFixturePromotes(gain, incumbent, challenger) ==
    challenger.likelihood >= gain * incumbent.likelihood

\* gain is the factor that the required improvement in bits asks for.
FixturePromotes(gain, incumbent, challenger) ==
    \/ incumbent.infinite /\ ~challenger.infinite
    \/ /\ ~incumbent.infinite /\ ~challenger.infinite
       /\ challenger.likelihood > gain * incumbent.likelihood

-----------------------------------------------------------------------------
(* Schema 1: the mutation a draw picks, by the mass that lies below it *)

\* support is a sequence of changes with shares; draw is in 0 .. Whole - 1.
MassUpTo(support, i) ==
    FoldLeft(LAMBDA sum, m: sum + m.share, 0, SubSeq(support, 1, i))

\* The first change whose mass covers the draw; none when the shares fall short.
Picked(support, draw) ==
    {i \in DOMAIN support: /\ draw < MassUpTo(support, i)
                           /\ \A j \in 1 .. i - 1: draw >= MassUpTo(support, j)}

-----------------------------------------------------------------------------
(* Schema 1: what a genome expects to see.  The hypothesis gets its        *)
(* confidence and the other versions equal parts of the rest; versions     *)
(* that answer a probe alike add up.                                       *)

VersionShare(genome, versions, v) ==
    IF v = genome.hypothesis THEN genome.confidence
    ELSE (Whole - genome.confidence) \div (Cardinality(versions) - 1)

\* answers[v] is what version v answers to the probe.
ForecastOf(genome, versions, answers) ==
    [target \in {answers[v]: v \in versions} |->
        FoldSet(LAMBDA v, sum: sum + VersionShare(genome, versions, v), 0,
                {v \in versions: answers[v] = target})]
=============================================================================
