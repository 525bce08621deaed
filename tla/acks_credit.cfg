SPECIFICATION Spec
CONSTANTS
    Handles = {h1, h2}
    Nobody = Nobody
    Frames = {f1, f2}
    Capacity = 2
    PendingCap = 2
    Fails = TRUE
    Lossy = TRUE
    MaxSends = 3
    MaxExternal = 1
SYMMETRY Symmetry
INVARIANTS AttributionExact EverySendAccounted
PROPERTIES NoStaleCredit
