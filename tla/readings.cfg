SPECIFICATION ReadingsSpec
CONSTANTS
    Ranges = {"range"}
    BusNames = {"body", "door"}
    _QUEUE = 1
    MaxHandles = 3
    MaxRunNo = 5
    MaxMade = 3
    MaxBuses = 3
    MaxTaps = 3
INVARIANTS NothingUncounted ReadsAsStated LinReadsItsOwn
CHECK_DEADLOCK FALSE
