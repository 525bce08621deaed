SPECIFICATION FairCallSpec
CONSTANTS
    OnInterrupt = TRUE
    MaxInterrupts = 4
INVARIANTS NothingLeftRunning NeverMadeLate
PROPERTY Leaves
