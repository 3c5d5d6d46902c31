SPECIFICATION FairSpec
CONSTANTS
    JobIDs <- MCJobs
    TaskIDs <- TwoTasks
    JobOf <- OfEachJob
    CreatedAt <- MCCreatedAt
    Workers <- MCWorkers
    Handlers <- MCHandlers
    Instances <- OneInstance
    InstanceOf <- InOneInstance
    MaxConns = 5
    Deletes = FALSE
    LeaseSweeps = FALSE
    MaxFaults = 1
INVARIANT ConnectionComesFree
PROPERTY AcquireReturns
CHECK_DEADLOCK FALSE
