SPECIFICATION RequestsSpec
CONSTANTS
    None = None
    c1 = c1
    c2 = c2
    w1 = w1
    w2 = w2
    s1 = s1
    s2 = s2
    a1 = a1
    Workers = {w1, w2}
    Codes = {c1}
    Versions = {v1, v2}
    CodeOf <- OneCompany
    Unbuildable = {}
    Passing = {v1}
    Configured = TRUE
    MaxBatches = 1
    Sessions = {s1, s2}
    Actors = {a1}
    MaxOpen = 1
    MaxRequests = 1
SYMMETRY RequestsSymmetry
INVARIANT AvailableIsServed
PROPERTY OutcomeStays
CHECK_DEADLOCK FALSE
