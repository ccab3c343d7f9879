SPECIFICATION RequestsSpec
CONSTANTS
    None = None
    c1 = c1
    c2 = c2
    w1 = w1
    s1 = s1
    a1 = a1
    Workers = {w1}
    Codes = {c1}
    Versions = {v1}
    CodeOf <- OneCompany
    Unbuildable = {}
    Passing = {v1}
    Configured = TRUE
    MaxBatches = 2
    Sessions = {s1}
    Actors = {a1}
    MaxOpen = 1
    MaxRequests = 2
INVARIANT BuildEndsProgress
CHECK_DEADLOCK FALSE
