CONSTANTS
    Process = {p, q}
    Readers = {r}
    Requests = {"entropy", "kl"}
    Builds = {"build"}
    Response <- MCResponse
    MaxRecords = 2
    MaxDeaths = 1
    MaxFailures = 1
    None = None
SPECIFICATION Spec
INVARIANT AnswersAreTheirs
PROPERTIES
    ImplementsLog
    RecordingGoesOn
CHECK_DEADLOCK FALSE
