SPECIFICATION FairSpec
CONSTANTS
    Openers = {o1, o2}
    Specs = {a, b}
    MaxGens = 2
    Faults = {"factory", "reconcile", "reader", "joiner"}
INVARIANTS RunningIsRegistered HandlesHaveDrivers InUseOwnsTheKey
PROPERTY CloseReturns
