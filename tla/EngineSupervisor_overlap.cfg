\* Two starts, one as root, and a plain stop that overlap at will, two pids, one of
\* which others may get.
SPECIFICATION FairSpec
CONSTANTS
    Starters = {s1, s2}
    Stoppers = {k1}
    Sudo = {s2}
    Pids = {p1, p2}
    Reused = {p1}
    None = None
    Partial = Partial
INVARIANTS NoStrayEngine
PROPERTIES CommandsReturn
CHECK_DEADLOCK FALSE
