SPECIFICATION FairSpec
CONSTANTS
    Sizes = {0, 2}
    SNs = 16
    BlockSizes = {0, 1}
    FlowStatuses = {"cts", "wait", "overflow"}
    n_wft_max = 1
    FlushMax = 4
    Ops = {"send", "recv", "drain"}
    Faults = {"tx", "stop", "impatient", "ncr", "lost", "garbage"}
    MaxSent = 2
    MaxSaid = 2
    MaxLost = 1
    MaxQueue = 2
INVARIANTS NoSplice DrainSparesReplies
PROPERTIES ClearedByItsOwn SendEnds
