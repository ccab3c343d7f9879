SPECIFICATION RequestsSpec
CONSTANTS
    None = None
    c1 = c1
    c2 = c2
    w1 = w1
    s1 = s1
    s2 = s2
    a1 = a1
    a2 = a2
    Workers = {w1}
    Codes = {c1, c2}
    Versions = {}
    CodeOf <- NoVersion
    Unbuildable = {}
    Passing = {}
    Configured = TRUE
    MaxBatches = 1
    Sessions = {s1, s2}
    Actors = {a1, a2}
    MaxOpen = 1
    MaxRequests = 2
SYMMETRY RequestsSymmetry
INVARIANTS WithinLimit SharedByRequesters
CHECK_DEADLOCK FALSE
