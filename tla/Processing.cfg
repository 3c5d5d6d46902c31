SPECIFICATION FairSpec
CONSTANTS
    Tasks <- MCTasks
    Requests <- AllRequests
    MaxFaults = 2
INVARIANTS
    OutcomeJustified
    WholeInputs
    DirectoryKept
PROPERTY JobEnds
CHECK_DEADLOCK FALSE
