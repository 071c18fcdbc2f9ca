\* Two homoscale starts, one after the other, that exit and are killed at any step, and two
\* readers, one of them not root as all the others are, under the fairness of scheduler
\* and ticker.
SPECIFICATION AloneSpec
CONSTANTS
    Sessions = {s1, s2}
    Readers = {r1, r2}
    Sudo = {s1, s2, r2}
    InApp = FALSE
    None = None
    Partial = Partial
INVARIANTS NoServerLeak
PROPERTIES ComesBack
CHECK_DEADLOCK FALSE
