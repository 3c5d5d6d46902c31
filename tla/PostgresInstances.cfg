SPECIFICATION Spec
CONSTANTS
    JobIDs <- MCJobs
    TaskIDs <- TwoTasks
    JobOf <- OfOneJob
    CreatedAt <- MCCreatedAt
    Workers <- MCWorkers
    Handlers <- MCHandlers
    Instances <- TwoInstances
    InstanceOf <- InTwoInstances
    MaxConns = 3
    Deletes = TRUE
    LeaseSweeps = FALSE
    MaxFaults = 1
INVARIANTS
    AcquiredByOne
    PendingIsAnnounced
PROPERTY ImplementsLifecycle
CHECK_DEADLOCK FALSE
