SPECIFICATION ApiSpec
CONSTANTS
    ns1 = ns1
    cluster = cluster
    a = a
    t1 = t1
    t2 = t2
    NoReport = NoReport
    NoRequest = NoRequest
    Namespaces <- MCNamespaces
    Names <- MCNames
    Keys <- MCKeys
    ClusterScopes <- MCScopes
    LabelMaps <- MCLabelMaps
    Selectors <- MCLabelMaps
    Threads <- MCThreads
    Verbs <- MCVerbs
    DebugFlags <- BothStores
    FirstRevision = 1
    SerialClients = FALSE
    ApplyCreates = FALSE
    MaxCalls = 4
INVARIANTS
    StoredTypeOK
    VersionsLagBehind
    ClusterEventsNeverSent
    ToldOwnWatchers
SYMMETRY ThreadSymmetry
PROPERTIES
    StoragesKeepApart
    KineReportsNeverVanish
    KineUpdatesFollow
    ClusterReportsNeverAppear
