SPECIFICATION FairSpec
CONSTANTS
    Openers = {o1, o2}
    Specs = {a}
    MaxGens = 2
    Faults = {"factory"}
PROPERTIES OpenReturns
