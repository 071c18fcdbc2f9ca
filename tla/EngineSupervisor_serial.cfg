\* Two starts and two stops whose critical stretches do not overlap, one of each as
\* root: the plain user leaves root's engine alone.
SPECIFICATION SerialSpec
CONSTANTS
    Starters = {s1, s2}
    Stoppers = {k1, k2}
    Sudo = {s2, k2}
    Pids = {p1, p2}
    Reused = {p1, p2}
    None = None
    Partial = Partial
SYMMETRY Symmetry
INVARIANTS AtMostOneEngine EngineIsRecorded
PROPERTIES ImplementsSlot
CHECK_DEADLOCK FALSE
