\* Three commands, two of them starts, two imported files, one without a controller.
SPECIFICATION SerialSpec
CONSTANTS
    Commands = {s1, s2, c1}
    Starts = {s1, s2}
    Explicit = {c1}
    Files = {f1, f2}
    Silent = {f2}
    Absent = Absent
    Empty = Empty
    Torn = Torn
    User = User
    Down = Down
INVARIANTS TypeOK CommandsFindEngine KeptIsTheUsers EngineReadsOwn
PROPERTIES ImplementsImportedSource
CHECK_DEADLOCK FALSE
