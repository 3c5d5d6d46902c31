SPECIFICATION FairSpec
CONSTANTS
    Instances <- MCInstances
    Deployments <- AllDeployments
    LastVersion = 2
    MaxFaults = 2
INVARIANTS
    SchemaRecorded
    ServesMigrated
PROPERTIES
    SomeoneServes
    RestartsEnd
CHECK_DEADLOCK FALSE
