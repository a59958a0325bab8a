\* Each helper on its own: a role that starts against a daemon that may be
\* absent, four programs and their signals, four machines, three OpenMP threads,
\* a geopm helper with two signals, two domains and two packages.
SPECIFICATION MCSpec
CONSTANTS
    Programs = {"nrmd", "papi", "geopm", "dummy"}
    MaxInts = 2
    CanStop = TRUE
    Topologies <- MCTopologies
    OmpThreads = {w1, w2, w3}
    RateLimit = 1
    MaxDispatch = 4
    MaxClock = 5
    NumEvents = 2
    NumDomains = 2
    Packages = 2
    Powers = {100, 150}
    MaxTicks = 3
    MaxCommands = 2
INVARIANTS
    StartupSafe
    FoundScopeAlive
    PlaceFound
    DispatchesCounted
    RateLimited
PROPERTIES
    StartupEnds
    
    CommandsReachControl
CHECK_DEADLOCK FALSE
