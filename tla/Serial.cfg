SPECIFICATION WatchedSpec
CONSTANTS
    ns1 = ns1
    a = a
    b = b
    t1 = t1
    t2 = t2
    w1 = w1
    Away = Away
    NoReport = NoReport
    NoRequest = NoRequest
    Namespaces <- MCNamespaces
    Names <- MCNames
    Keys <- TwoReports
    LabelMaps <- MCLabelMaps
    Selectors <- MCLabelMaps
    Threads <- MCThreads
    Watchers <- MCWatchers
    Verbs <- MCVerbs
    SerialClients = TRUE
    ApplyCreates = FALSE
    MaxCalls = 3
    MaxEvents = 6
    QueueLimit = 1
    ResultLimit = 1
INVARIANTS
    WatchersConverge
    LastReadIsStored
PROPERTIES
    DeletedIsLastState
    NoMidwayRefusal
    VersionAdvances
SYMMETRY ThreadSymmetry
