\* Two coroutines at once, a subscription or none; a user who waits, and one who does not.
SPECIFICATION FairSpec
CONSTANTS
    Jobs = {j1, j2}
    Urls = {a}
    Blank = Blank
INVARIANTS PrefsKeepWhatIsSeen ConfigMatchesApp LoadedIsCached
PROPERTIES BusyEnds
CHECK_DEADLOCK FALSE
