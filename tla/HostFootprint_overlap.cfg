\* Two sessions, root's in the background and one in the foreground or in the background,
\* that overlap in every way; the suffix changes.
SPECIFICATION FairSpec
CONSTANTS
    Procs = {p1, p2}
    Foreground = {p2}
    Root = {p1}
    Suffixes = {s1}
    NoProc = NoProc
    NoSuffix = NoSuffix
INVARIANTS NoResolverLeft LoneSessionKeepsResolver PidFileUnlessMeddled
PROPERTIES SignalEnds
CHECK_DEADLOCK FALSE
