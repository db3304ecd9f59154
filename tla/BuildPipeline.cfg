CONSTANTS
    Builds = {b1, b2}
    Dirs = {d1, d2, d3}
    Entries <- MCEntries
    Refs <- MCRefs
    Branches <- MCBranches
    Tags <- MCTags
    DefaultBranch <- main
    Amd64 = Amd64
    ToLower <- MCToLower
SPECIFICATION Spec
CHECK_DEADLOCK FALSE
SYMMETRY Symmetry
INVARIANTS
    TypeOK
    ImageHoldsItsSources
    
    DirsHaveOwners
PROPERTIES
    ImplementsCall
