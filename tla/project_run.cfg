SPECIFICATION FairSpec
CONSTANTS
    Projects = {p1, p2}
    Threads = {main, worker}
    Managers = {main}
    Users = {worker}
    Nobody = Nobody
    Nothing = Nothing
    Layouts <- TwoRows
    Databases <- Moving
    Listings = {{"messages"}, {"generators"}, {"nodes"}}
    MaxLoads = 2
    MaxRuns = 2
    MaxObjects = 3
    MaxHandles = 2
INVARIANTS ReachesItsOwn StoppedHoldsNothing
PROPERTIES OneRunAtATime LockIsLetGo
