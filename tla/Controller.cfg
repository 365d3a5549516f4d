CONSTANTS
    Whole = 6
    Proposals = {c1, c2}
    Incumbents = {c1}
    None = None
    Malformed = Malformed
    TaskCount = 2
    Forecasts <- MCForecasts
    Verdicts <- MCVerdicts
    Policies <- MCPolicies
    ProposerTimeout = 1
    RunnerTimeout = 1
    EvaluatorTimeout = 1
    Margin = 2
    Slack = 1
    Versions = {"v", "w", "x"}
    Probes = {"a", "b"}
    Answers <- MCAnswers
    Altered <- MCAltered
    NoLine = NoLine
    Genomes <- MCGenomes
    Supports <- MCSupports
    Plans <- MCPlans
    Gain = 1
SPECIFICATION ControllerSpec
INVARIANTS
    GenerationsReplay
    DerivedTimeoutCovers
    BeliefIsWhatEvidenceLeaves
    EvidenceIsOfOneVersion
    NoObserverLeft
PROPERTY GenerationsEnd
CHECK_DEADLOCK FALSE
