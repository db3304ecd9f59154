CONSTANTS
    Raws <- MCShort
    Required <- MCRequired
SPECIFICATION Spec
CHECK_DEADLOCK FALSE
INVARIANTS
    DefaultsAreFilledIn
