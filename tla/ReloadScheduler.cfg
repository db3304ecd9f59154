CONSTANTS
    Versions = {v0, v1, v2}
    FirstVersion = v0
    Updaters = {u1, u2}
    Reloaders = {}
    Editors = {}
    Watcher = Watcher
    ClientKinds = {"sequential"}
    MaxEvents = 2
    Empty = Empty
    Torn = Torn
SPECIFICATION Spec
CHECK_DEADLOCK FALSE
INVARIANTS
    SchedulerFollowsFile
