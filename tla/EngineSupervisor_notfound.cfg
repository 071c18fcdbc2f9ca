\* Two starts that overlap and a stop: does stop find the engine that runs?
SPECIFICATION Spec
CONSTANTS
    Starters = {s1, s2}
    Stoppers = {k1}
    Sudo = {}
    Pids = {p1, p2}
    Reused = {p1, p2}
    None = None
    Partial = Partial
PROPERTIES StopFindsTheEngine
CHECK_DEADLOCK FALSE
