SPECIFICATION FairSpec
CONSTANTS
    p1 = p1
    p2 = p2
    Null = Null
    Processes = {p1}
    Kinds = {"harness", "solution"}
    Order <- HarnessFirst
    Jobs = {1, 2}
    MaxJobs = 2
    MaxCalls = 2
    MaxDeaths = 0
    Commands = {"start", "retry", "stop"}
INVARIANTS RetryGoesOn
PROPERTIES JobsAreAnswered
