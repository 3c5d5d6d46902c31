SPECIFICATION Spec
CONSTANTS
    JobIDs <- MCJobs
    TaskIDs <- MCTasks
    JobOf <- MCJobOf
    CreatedAt <- MCCreatedAt
    Clients = {c1, c2}
    MaxAcquires = 3
INVARIANTS
    ResultsOfOneAttempt
    SignalKept
    HeldOnce
PROPERTIES
    FinishedIsFinal
    ImplementsLeases
CHECK_DEADLOCK FALSE
