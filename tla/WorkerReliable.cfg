SPECIFICATION FairSpec
CONSTANTS
    JobIDs <- MCJobs
    TaskIDs <- SmallTasks
    JobOf <- SmallJobOf
    CreatedAt <- MCCreatedAt
    Workers = {w1, w2}
    CallsThatFail = {}
    CanCrash = FALSE
    MaxFaults = 2
INVARIANTS
    ProcessingIsOwned
    FailedForGood
PROPERTY ProcessingEnds
CHECK_DEADLOCK FALSE
