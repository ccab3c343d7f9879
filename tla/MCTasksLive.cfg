SPECIFICATION FairSpec
CONSTANTS
    None = None
    a1 = a1
    Messages <- OneMessage
    Aggregates = {a1}
    AggregateOf <- OneAggregateOf
    Scheduled = {}
    Pumps = {p1}
    Workers = {w1}
    MaxAttempts = 2
    PumpLimit = 2
    AttemptCap = 2
    MaxCorrections = 0
    MaxEpoch = 2
    p1 = p1
    w1 = w1
PROPERTIES Settled
