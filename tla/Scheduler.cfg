CONSTANTS
    Entries <- MCEntries
    Configs <- MCConfigs
    GitClients = {"github", "gitea"}
    Tasks = {t1, t2}
    None = None
    MaxVersion = 1
    MaxNotifier = 1
    MaxCron = 2
SPECIFICATION FairSpec
CHECK_DEADLOCK FALSE
INVARIANTS
    TypeOK
    OneCronRuns
    RunsUseCurrentConfig
PROPERTIES
    ImplementsSchedule
    FiringIsBuilt
