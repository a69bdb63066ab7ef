SPECIFICATION FairWatchedSpec
CONSTANTS
    ns1 = ns1
    a = a
    b = b
    t1 = t1
    t2 = t2
    w1 = w1
    Away = Away
    NoReport = NoReport
    NoRequest = NoRequest
    Namespaces <- MCNamespaces
    Names <- MCNames
    Keys <- OneReport
    LabelMaps <- TwoLabellings
    Selectors <- SelectApp1
    Threads <- MCThreads
    Watchers <- MCWatchers
    Verbs <- NoApply
    SerialClients = FALSE
    ApplyCreates = FALSE
    MaxCalls = 2
    MaxEvents = 4
    QueueLimit = 1
    ResultLimit = 1
INVARIANTS
    NoWriteMissed
PROPERTIES
    RequestsAnswered
    ChangesArrive
    DryRunPersistsNothing
