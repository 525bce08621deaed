SPECIFICATION Spec
CONSTANTS
    Projects = {suite, other}
    other = other
    suite = suite
    Suite = suite
    Nobody = Nobody
    Names = {m, n}
    SharedNames = {n}
    Durations = {1, 2}
    MaxRuns = 2
    MaxTests = 2
    MaxStarted = 2
    MaxFrames = 2
INVARIANTS FinalCountsAll RecordingCountsAll NothingOutlivesItsRun TestInheritsNothing
CHECK_DEADLOCK FALSE
