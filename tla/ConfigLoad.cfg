CONSTANTS
    Raws <- MCRaws
    Required <- MCRequired
SPECIFICATION Spec
CHECK_DEADLOCK FALSE
INVARIANTS
    TypeOK
    PostedIsLoadable
    LoadedIsPostable
    EntriesAreKept
