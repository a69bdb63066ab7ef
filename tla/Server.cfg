SPECIFICATION FairServerSpec
CONSTANTS
    ns1 = ns1
    ns2 = ns2
    a = a
    t1 = t1
    t2 = t2
    i1 = i1
    NoReport = NoReport
    NoRequest = NoRequest
    Namespaces <- MCNamespaces
    Names <- MCNames
    Keys <- MCKeys
    ClusterScopes = {}
    LabelMaps <- MCLabelMaps
    Selectors <- MCLabelMaps
    Threads <- MCThreads
    Verbs <- MCVerbs
    DebugFlags <- MCDebug
    Endpoints = {}
    FirstRevision = 1
    SerialClients = TRUE
    ApplyCreates = FALSE
    MaxCalls = 2
    Informers <- MCInformers
    ScopeOf <- MCScopeOf
    MaxStarts = 2
    MaxDrops = 1
INVARIANTS
    InformedUnlessMissed
PROPERTIES
    RequestsEnd
    InformersConverge
