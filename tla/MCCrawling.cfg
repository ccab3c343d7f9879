SPECIFICATION CrawlSpec
CONSTANTS
    None = None
    w1 = w1
    w2 = w2
    c1 = c1
    c2 = c2
    j1 = j1
    s1 = s1
    d1 = d1
    x1 = x1
    Workers = {w1, w2}
    Clients = {c1, c2}
    Jobs = {j1}
    Sources = {s1}
    SourceOf <- OneSource
    Documents = {d1}
    Texts = {x1}
    SearchEnabled = TRUE
    MaxGeneration = 1
    MaxVersions = 2
    MaxSessions = 2
SYMMETRY CrawlSymmetry
INVARIANTS NumberedInOrder OneExecutionPerSource AcknowledgedIsEnded VersionsReachIndex
PROPERTIES ReviewsStay
CHECK_DEADLOCK FALSE
