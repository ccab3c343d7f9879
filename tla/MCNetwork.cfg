SPECIFICATION NetworkSpec
CONSTANTS
    None = None
    Records = {d1}
    Workers = {w1, w2}
    MaxRetries = 1
    MaxEdits = 2
    own = own
    address = address
    internal = internal
    Fetchers = {f1, f2}
    Urls <- UrlsOfThree
    Numeric = {address, internal}
    Internal = {internal}
    Slots = 1
    MaxRedirects = 2
    MaxBytes = 2
    Chunks = {1, 2}
    Inflated = {0, 1, 4}
    Statements = 2
    Listings <- ListingsOfFour
    Totals <- TotalsUpToThree
    PeriodLists <- PeriodListsOfThree
    PeriodBatch = 2
    PageSize = 1
    MaxPages = 2
    MaxRequests = 10
    MaxAttempts = 2
    Unsized = Unsized
    NoTotal = NoTotal
    NoAnswer = NoAnswer
    Writers = {o1}
    Places <- ThreePlaces
    KeyOf <- TwoKeys
    Ambiguous = {"derived"}
    RowId <- RowIdsOfThree
    Limit = 1
    Grace = 1
    Times = {0, 1}
    MaxPasses = 1
    MaxDeletions = 1
SYMMETRY NetworkSymmetry
INVARIANTS SucceededIsReceived HistoryCoversCommands SlotsKept OwnHeadersStayHome MemoryBounded SucceededIsWhole PassCoversAll
PROPERTIES CandidatesWereUnregistered
CHECK_DEADLOCK FALSE
