SPECIFICATION FairSpec
CONSTANTS
    JobIDs <- TwoJobs
    TaskIDs <- NoTaskIDs
    JobOf <- NoJobOf
    CreatedAt <- MCCreatedAt
    Backlog <- OneJob
    MaxWorkers = 1
    Shutdown = TRUE
    CountCanFail = TRUE
    MaxRetries = 0
    MaxFinishing = 1
INVARIANTS
    TokensMatchWorkers
    WaitGroupMatches
    ProcessingIsHeld
PROPERTIES
    TakenUnlessBehind
    StopEnds
CHECK_DEADLOCK FALSE
