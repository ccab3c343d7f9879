SPECIFICATION Spec
CONSTANTS
    None = None
    a1 = a1
    Messages <- OneMessage
    Aggregates = {a1}
    AggregateOf <- OneAggregateOf
    Scheduled = {}
    Pumps = {p1}
    Workers = {w1, w2}
    MaxAttempts = 1
    PumpLimit = 1
    AttemptCap = 1
    MaxCorrections = 1
    MaxEpoch = 3
    p1 = p1
    w1 = w1
    w2 = w2
INVARIANTS EffectOnce ReleasedForGood
PROPERTIES Fencing ImplementsLeases
