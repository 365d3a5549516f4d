SPECIFICATION FairSpec
CONSTANTS
    Candidate <- MCCandidate
    Files <- MCFiles
    Resource <- MCResource
    Budget <- MCBudget
    CaseCount = 1
    Capacity = 1
    Scale = 2
    Kappa = 1
    Deviation <- MCDeviation
    Divergence <- MCDivergence
    Experiment = {"dev", "fin"}
    Role <- MCRole
    Process = {p1, p2}
    NoProcess = NoProcess
    Request <- OverlapRequests
    MaxRecords = 7
    MaxCrashes = 1
INVARIANTS
    QueriesAreCurrent
    AllocationsAreFresh
PROPERTIES
    LedgerAtomic
    TornLineIsLast
    LockComesFree
