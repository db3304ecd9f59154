CONSTANTS
    Versions = {v0, v1}
    FirstVersion = v0
    Updaters = {u1}
    Reloaders = {r1}
    Editors = {e1}
    Watcher = Watcher
    ClientKinds = {"concurrent", "sequential", "patient"}
    MaxEvents = 2
    Empty = Empty
    Torn = Torn
SPECIFICATION Spec
CHECK_DEADLOCK FALSE
INVARIANTS
    TypeOK
    HandlerFollowsFile
    CopiesFollowFile
    NotifiersAgree
