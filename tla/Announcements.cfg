CONSTANTS
    Builds = {b1}
    Stops = {s1}
    NotifyConfigs <- MCEither
    MaxManagers = 2
    None = None
SPECIFICATION FairSpec
CHECK_DEADLOCK FALSE
INVARIANTS
    TypeOK
    StartersAreTold
    GivenUpForCause
PROPERTIES
    TasksAreConcluded
