SPECIFICATION PipelineSpec
CONSTANTS
    None = None
    c1 = c1
    w1 = w1
    w2 = w2
    Workers = {w1, w2}
    Codes = {c1}
    Versions = {v1, v2}
    CodeOf <- OneCompany
    Unbuildable = {v2}
    Passing = {v1}
    Configured = TRUE
    MaxBatches = 1
INVARIANT NextStepNotLeftOut
CHECK_DEADLOCK FALSE
