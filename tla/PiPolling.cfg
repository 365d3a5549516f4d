SPECIFICATION FairSpec
CONSTANTS
    Attempts <- MCAttempts
    Sessions = {s1, s2}
    MaxDraftCalls = 2
    Null = Null
PROPERTY FollowedJobsArePolled
CHECK_DEADLOCK FALSE
