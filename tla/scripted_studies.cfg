CONSTANTS
    DaySlots = 2
    Window = 2
    Lookback = 2
    None = None
    Threshold = 2
    Upper = 2
    Lower = 1
    MinReturn = 4
    MaxHold = 2
    MomentumBars = 2
    Universe <- MCUniverse
    SectorOf <- MCSectorOf
    Sources <- MCSources
    ArmLists <- MCArmLists
    MaxMove = 20
    MinBars = 6
    MinEvents = 2
    MinSymbols = 2
    MinColumn = 4
    MinTested = 3
    Orders <- MCOrders
    Fallback <- MCFallback
    PoolGapDays = 1
    Groups = 3
    MaxResults = 1000
    MaxRuns = 2
    Names = {1, 2, 3, 4, 5}
    Sectors <- MCSectors
    MomentumDays = 3
    Skip = 1
    VolWindow = 2
    Thesis <- MCThesis
    Clusters = 2
    PerCluster = 2
    NaN = NaN
    Panels <- MCPanels
    FirstDay = 6
    LastDay = 10
    MonthDays = 2
    TopN = 4
    AdvWindow = 3
    MinHistory = 3
    Horizon = 1
    GateGroups = 2
    MinNames = 2
    QuantilePct = 50
    NameCap = 144
    SectorCap = 120
    BandPct = 25
    Rate = 1
    MinIr = 75
    FeedFails = TRUE
    LogFails = TRUE
    Funds <- MCFunds
    Cash = "cash"
    MarketFund = "nifty"
    Calendars <- MCCalendars
    PricePanels <- MCPricePanels
    Plans <- MCPlans
    MomentumSpan = 2
    HoldSessions = 3
    VolSessions = 2
    RegimeWarmup = 6
    RegimeSpan = 3
    Splits = 3
    Scores <- MCScores
    MonthLength = 6
    RiskOffCash = 30
    TargetVol = 3000
    SideRate <- MCSideRate
    FlatSell = 2
    Capital = 6000
    Texts <- MCTexts
    Mechanism = "pairs"
    Absent = Absent
    MaxEdits = 3
    MaxCommits = 2
    MaxClock = 2
    NumVariants = 2
    Sharpes = {1, 4}
    StopBand = 3
SPECIFICATION StudiesSpec
INVARIANTS PurgeIsNeverLeakier
INVARIANTS AdjustedIsContinuous SettledBooks BookIsTradable ExposureBounded
INVARIANTS RotationHonest BooksBalance
INVARIANT CommittedIsJudged
CHECK_DEADLOCK FALSE
