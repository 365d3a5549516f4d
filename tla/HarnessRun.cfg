SPECIFICATION FairSpec
CONSTANTS
    TopTurns = 3
    SubTurns = 2
    Levels <- MCLevels
    Cells <- MCCells
    RestoreAfterRestart = TRUE
    Nothing = Nothing
    MaxTurns <- MCTurns
    MaxExecutions = 3
    MaxInvalid = 1
    MaxDelegates = 1
    MaxModelCalls = 4
INVARIANTS CellsAreAllOrNothing NoKernelOutlivesItsLevel
PROPERTIES RunsEnd
CHECK_DEADLOCK FALSE
