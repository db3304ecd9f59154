CONSTANTS
    Builds = {b1, b2}
    Stops = {s1}
    Indices <- MCIndices
    r1 = r1
    r2 = r2
    Repos <- MCRepos
    HasClient = {r1}
    Configs <- MCConfigs
    NoConfig = NoConfig
    NoBuild = NoBuild
    NoIndex = NoIndex
SPECIFICATION PromptSpec
INVARIANTS
    TypeOK
    OneBuildPerIndex
    SlotsAreHeld
    ContextsBelong
PROPERTIES
    OnlyOwnStopCancels
    OnlyDrainingDisplaced
    ImplementsSlots
    CanceledEarlyNeverSucceeds
    SlotFreed
    StartIsConcluded
    StopEndsBuild
