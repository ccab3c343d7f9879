SPECIFICATION FiguresSpec
CONSTANTS
    None = None
    Statements = {"balance_sheet", "income_statement", "cash_flow"}
    KeyItems <- MCKeyItems
    Rules <- MCRules
    Required <- MCRequired
    CashFlow = "cash_flow"
    BeginCash = "begin"
    EndCash = "end"
    HardYears = 2
    MinItems = 2
    Tolerance = 1
    StatementData <- MCStatementData
    Reports <- MCReports
    Readings <- MCReadings
    Wanted = {"balance_sheet", "cash_flow"}
    MaxSectionPages = 2
    MinAmountLines = 1
    MaxPages = 3
    MaxLines = 6
    NoAmount = NoAmount
    Names <- MCNames
    Equations <- MCEquations
    MinPrefix = 2
    UnitTolerance = 1
    SameScale = 10
    OtherScale = 100
    Statement <- MCStatement
    Reference <- MCReference
    Unlabelled = Unlabelled
    Columns <- MCColumns
    CoarserUnit = 4
    LeastToPair = 4
    UnitFactors = {10}
    Base = 3
INVARIANTS PublishedAgrees OnlyOldPeriodsMissing BreaksAreRestatements ExtractedWhole UnitIsItsOwn RowsReadOnce ScaleIsRight EveryAmountOnce
CHECK_DEADLOCK FALSE
