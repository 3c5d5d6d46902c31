SPECIFICATION FairSpec
CONSTANTS
    JobIDs <- MCJobs
    TaskIDs <- TwoTasks
    JobOf <- OfEachJob
    CreatedAt <- MCCreatedAt
    Workers <- MCWorkers
    Handlers <- MCHandlers
    Instances <- OneInstance
    InstanceOf <- InOneInstance
    MaxConns = 3
    Deletes = FALSE
    LeaseSweeps = FALSE
    MaxFaults = 0
PROPERTY AcquireReturns
CHECK_DEADLOCK FALSE
