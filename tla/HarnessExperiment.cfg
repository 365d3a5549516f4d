SPECIFICATION FairSpec
CONSTANTS
    NoProcess = NoProcess
    Process = {p1, p2}
    Assay = "coding-agent-v1"
    MaxRounds = 2
    MaxProposalCalls = 3
    CapabilityDraws <- SecondIsBest
    Cases = 1
    MaxCrashes = 1
    MaxFailures = 1
INVARIANTS
    ReportsVerify
PROPERTIES
    FinalIsOneUse FinalRunIsReported SearchIsAssayed
CHECK_DEADLOCK FALSE
