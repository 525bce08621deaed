SPECIFICATION FairLoopSpec
CONSTANTS
    h1 = h1
    h2 = h2
    m1 = m1
    m2 = m2
    t1 = t1
    t2 = t2
    c1 = c1
    c2 = c2
    Wants <- WantAll
    Period <- Periods
    Handlers = {h1, h2}
    Monitors = {m1}
    Clocks = {t1}
    Channels = {c1}
    NeedsReader = {}
    ChannelOf <- OneChannel
    Ids = {1}
    States = {"", "ok"}
    Durations = {0, 3}
    HEALTH_POLL = 2
    LONGEST_WAIT = 9
    MaxTime = 5
    MaxDepth = 2
    MaxRuns = 2
    MaxFrames = 1
    MaxMoves = 1
    MaxRaises = 1
INVARIANTS TakenReachesAll KeepsItsGrid
PROPERTIES RunReturns
