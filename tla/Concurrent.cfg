SPECIFICATION AskedSpec
CONSTANTS
    ns1 = ns1
    a = a
    b = b
    t1 = t1
    t2 = t2
    t3 = t3
    NoReport = NoReport
    NoRequest = NoRequest
    Namespaces <- MCNamespaces
    Names <- MCNames
    Keys <- TwoReports
    LabelMaps <- OneLabelling
    Selectors <- Everything
    Threads <- ThreeThreads
    Verbs <- AllOperations
    SerialClients = FALSE
    ApplyCreates = TRUE
    MaxCalls = 4
INVARIANTS
    TypeOK
    BoundedOvertaking
    NoWriteForgotten
    AnnouncedOnce
PROPERTIES
    NoResurrection
    RequestsGetShorter
    ImplementsFeed
SYMMETRY ReportSymmetry
