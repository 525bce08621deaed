SPECIFICATION FairSpec
CONSTANTS
    unlocker = unlocker
    other = other
    a = a
    b = b
    n = n
    i = i
    Threads = {unlocker, other}
    Managers = {other}
    Nobody = Nobody
    Clients = {a, b, n}
    Order <- InOrder
    Nodes = {n}
    IsoTps = {i}
    Scripts <- Library
    MaxHandles = 3
    MaxBlocks = 2
INVARIANTS KeyAnswersItsSeed AsksAsStated LaidOutByItsRun NoConnectionLost RaisedNeverChecks
PROPERTIES EveryCallEnds
CHECK_DEADLOCK FALSE
