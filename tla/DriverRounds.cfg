SPECIFICATION FairSpec
CONSTANTS
    Candidate <- TwoCandidates
    Files <- MCFiles
    Resource <- MCResource
    Budget <- MCBudget
    CaseCount = 1
    Capacity = 2
    Scale = 12
    Kappa = 1
    Deviation <- MCDeviation
    Divergence <- MCDivergence
    Experiment = {"dev", "fin"}
    Role <- MCRole
    Seed = 1
    Development = "dev"
    MaxRounds = 2
    MaxProposalCalls = 3
    MaxWall = 12
    MaxCost <- MCMaxCost
    Draws <- OneDraw
    MinimumReplicates = 2
    ControllerTimeout = 3
    EvidenceTimeout = 2
    Evidence <- Infeasible
    OperatorRecord <- MCOperatorRecord
    MaxCrashes = 2
    MaxFailures = 1
    MaxAppends = 1
INVARIANTS
    SpendWithinReservation
    StateReplays
PROPERTIES
    ImplementsProtocol
    DurableRoundsCommit
