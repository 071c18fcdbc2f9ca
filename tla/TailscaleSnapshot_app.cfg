\* Two sessions of the app under the fairness of scheduler and ticker.
SPECIFICATION FairSpec
CONSTANTS
    Sessions = {s1, s2}
    Readers = {}
    Sudo = {}
    InApp = TRUE
    None = None
    Partial = Partial
INVARIANTS OneServer QuietSnapshot
PROPERTIES SnapshotFollows
CHECK_DEADLOCK FALSE
