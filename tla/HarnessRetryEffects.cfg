SPECIFICATION Spec
CONSTANTS
    NoProcess = NoProcess
    Process = {p1}
    Assay = "coding-agent-v1"
    MaxRounds = 2
    MaxProposalCalls = 3
    CapabilityDraws <- SecondIsBest
    Cases = 1
    MaxCrashes = 0
    MaxFailures = 1
INVARIANTS
    ReportsAlwaysVerify
CHECK_DEADLOCK FALSE
