SPECIFICATION Spec
SYMMETRY Interchangeable
CONSTANTS
    JobIDs <- MCJobs
    TaskIDs <- TwoTasks
    JobOf <- OfOneJob
    CreatedAt <- MCCreatedAt
    Workers = {w1, w2}
    Handlers = {h1, h2}
    Instances <- OneInstance
    InstanceOf <- AllInOneInstance
    MaxConns = 3
    Deletes = TRUE
    LeaseSweeps = TRUE
    MaxFaults = 1
INVARIANTS
    ConnectionsAccounted
    LocksEnd
    CompletedIsComplete
PROPERTY ImplementsLeases
CHECK_DEADLOCK FALSE
