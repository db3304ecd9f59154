CONSTANTS
    Builds = {b1}
    Dirs = {d1}
    Entries <- MCOnDev
    Refs <- MCRefs
    Branches <- MCBranches
    Tags <- MCTags
    DefaultBranch <- main
    Amd64 = Amd64
    ToLower <- MCToLower
SPECIFICATION Spec
CHECK_DEADLOCK FALSE
INVARIANTS
    DefaultIsForUnset
