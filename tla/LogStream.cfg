\* Two connections, an emptied file, a burst longer than a chunk.
CONSTANTS
    Conns = {c1, c2}
    NoConn = NoConn
    Buf = 2
    TailLines = 2
    MaxLines = 3
    MaxTruncations = 1
    MaxVisits = 2
SPECIFICATION Spec
CHECK_DEADLOCK FALSE
INVARIANTS
    TypeOK
    LinesInOrder
    NoLineIsSkipped
PROPERTIES
    LinesAreShown
    HandlersReturn
