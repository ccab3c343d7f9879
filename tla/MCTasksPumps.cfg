SPECIFICATION Spec
CONSTANTS
    None = None
    a1 = a1
    Messages <- OneMessage
    Aggregates = {a1}
    AggregateOf <- OneAggregateOf
    Scheduled = {1}
    Pumps = {p1, p2}
    Workers = {w1}
    MaxAttempts = 2
    PumpLimit = 1
    AttemptCap = 2
    MaxCorrections = 1
    MaxEpoch = 2
    p1 = p1
    p2 = p2
    w1 = w1
INVARIANTS NoWorkOutOfTurn
PROPERTIES GivenUpAfterAttempts ImplementsContract
