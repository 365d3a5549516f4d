SPECIFICATION Spec
CONSTANTS
    Attempts <- MCAttempts
    Sessions = {s1, s2}
    MaxDraftCalls = 2
    Null = Null
PROPERTY CancelMeansNoWorker
CHECK_DEADLOCK FALSE
