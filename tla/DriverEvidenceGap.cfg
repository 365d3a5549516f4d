SPECIFICATION Spec
CONSTANTS
    Candidate <- TwoCandidates
    Files <- MCFiles
    Resource <- MCResource
    Budget <- MCBudget
    CaseCount = 1
    Capacity = 2
    Scale = 12
    Kappa = 1
    Deviation <- MCDeviation
    Divergence <- MCDivergence
    Experiment = {"dev", "fin"}
    Role <- MCRole
    Seed = 1
    Development = "dev"
    MaxRounds = 1
    MaxProposalCalls = 3
    MaxWall = 15
    MaxCost <- MCMaxCost
    Draws <- NoDraws
    MinimumReplicates = 2
    ControllerTimeout = 3
    EvidenceTimeout = 2
    Evidence <- BetterOnly
    OperatorRecord <- NoRecords
    MaxCrashes = 2
    MaxFailures = 2
    MaxAppends = 0
INVARIANTS
    EvidenceResumes
