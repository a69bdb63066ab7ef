SPECIFICATION Spec
CONSTANTS
    ns1 = ns1
    a = a
    b = b
    t1 = t1
    t2 = t2
    t3 = t3
    NoReport = NoReport
    NoRequest = NoRequest
    Namespaces <- MCNamespaces
    Names <- MCNames
    Keys <- OneReport
    LabelMaps <- OneLabelling
    Selectors <- Everything
    Threads <- TwoThreads
    Verbs <- NoApply
    SerialClients = FALSE
    ApplyCreates = FALSE
    MaxCalls = 3
INVARIANTS
    WatchersConverge
