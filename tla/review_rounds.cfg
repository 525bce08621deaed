SPECIFICATION Spec
CONSTANTS
    p1 = p1
    p2 = p2
    w1 = w1
    w2 = w2
    Procs = {p1, p2}
    Watchers = {p2}
    Places = {w1, w2}
    Home <- Apart
    Nothing = Nothing
    STALE = 1
    MaxItems = 3
    MaxHead = 2
    MaxAnswers = 1
    MaxTime = 2
    MaxCrashes = 1
INVARIANTS LockExcludes VerdictIsItsRounds
PROPERTIES AskedOnce
CHECK_DEADLOCK FALSE
