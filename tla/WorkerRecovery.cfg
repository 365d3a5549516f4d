SPECIFICATION Spec
CONSTANTS
    p1 = p1
    p2 = p2
    Null = Null
    Processes = {p1}
    Kinds = {"solution"}
    Order <- SolutionOnly
    Jobs = {1, 2}
    MaxJobs = 2
    MaxCalls = 2
    MaxDeaths = 2
    Commands = {"start", "resume", "retry", "stop"}
INVARIANTS OneDriver
PROPERTIES SearchStaysSealed
