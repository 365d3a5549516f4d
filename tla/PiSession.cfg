SPECIFICATION FairSpec
CONSTANTS
    Attempts <- MCAttempts
    Sessions = {s1, s2}
    MaxDraftCalls = 2
    Null = Null
INVARIANTS
    LogIsTrue
    OneUnfinishedWorkflow
PROPERTIES
    OwnReportsOnly
    PreparationsEnd
CHECK_DEADLOCK FALSE
