SPECIFICATION Spec
CONSTANTS
    Handles = {h1, h2}
    Reader = Reader
    Nobody = Nobody
    Scripts <- Library
    SerialCallers = TRUE
    Storms = TRUE
    Capacity = 1
    DriverQueue = 1
    BoundaryFrames = 1
SYMMETRY Symmetry
INVARIANTS GapsBookedOnce BoundaryExact
PROPERTIES DrainSparesTheOwed
