\* Two start calls and two stop calls from any thread, under the fairness of the Go scheduler.
SPECIFICATION FairSpec
CONSTANTS
    Sessions = {s1, s2}
    Stops = {k1, k2}
    None = None
INVARIANTS OneSession NothingLeftBehind OtherTunIsLateWatcher EngineLostToStop
PROPERTIES ImplementsSlot StopTakesEffect
CHECK_DEADLOCK FALSE
