CONSTANTS
    a = a
    b = b
    c = c
    Process = {p, q}
    Requests <- MCRequests
    Candidates = {a, b, c}
    MaxDeaths = 2
    MaxFailures = 1
    Nothing = Nothing
SPECIFICATION Spec
INVARIANTS
    MemoryIsReplay
    PaidCallsAreRecorded
PROPERTIES
    ImplementsHistory
    EvolutionFinishes
