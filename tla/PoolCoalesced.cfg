SPECIFICATION FairSpec
CONSTANTS
    JobIDs <- TwoJobs
    TaskIDs <- NoTaskIDs
    JobOf <- NoJobOf
    CreatedAt <- MCCreatedAt
    Backlog <- NoTaskIDs
    MaxWorkers = 1
    Shutdown = FALSE
    CountCanFail = FALSE
    MaxRetries = 0
    MaxFinishing = 2
PROPERTY PendingIsTaken
