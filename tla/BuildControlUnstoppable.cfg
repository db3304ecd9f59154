CONSTANTS
    Builds = {b1, b2}
    Stops = {s1}
    Indices <- MCIndex
    r1 = r1
    r2 = r2
    Repos <- MCRepos
    HasClient = {r1}
    Configs <- MCSingleConfigs
    NoConfig = NoConfig
    NoBuild = NoBuild
    NoIndex = NoIndex
SPECIFICATION Spec
PROPERTIES
    StopFindsRunningBuild
