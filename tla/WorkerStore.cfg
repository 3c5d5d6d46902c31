SPECIFICATION Spec
CONSTANTS
    JobIDs <- MCJobs
    TaskIDs <- MCTasks
    JobOf <- MCJobOf
    CreatedAt <- MCCreatedAt
    Workers = {w1, w2}
    CallsThatFail = {"acquire", "results", "complete", "write"}
    CanCrash = TRUE
    MaxFaults = 3
INVARIANTS
    OwnedByOne
    CompletedHasLastVariants
    NotificationsAgree
PROPERTY ImplementsLifecycle
CHECK_DEADLOCK FALSE
