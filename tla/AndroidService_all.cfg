\* Two instances, intents in any order, onDestroy at any time, a fair executor.
SPECIFICATION FairSpec
CONSTANTS
    Services = {i1, i2}
    Runs = {r1, r2, r3}
    None = None
    MaxIntents = 4
INVARIANTS SessionHasService NotRunningMeansStopped
PROPERTIES StopEndsTheSession
CHECK_DEADLOCK FALSE
