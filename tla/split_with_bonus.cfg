CONSTANTS
    Names = {1, 2, 3, 4, 5}
    Sectors <- MCSectors
    MomentumDays = 3
    Skip = 1
    VolWindow = 2
    Thesis <- MCThesis
    Clusters = 2
    PerCluster = 2
    NaN = NaN
    Panels <- MCPanelsTwice
    FirstDay = 6
    LastDay = 10
    MonthDays = 2
    TopN = 4
    AdvWindow = 3
    MinHistory = 3
    Horizon = 1
    GateGroups = 2
    MinNames = 2
    QuantilePct = 50
    NameCap = 144
    SectorCap = 120
    BandPct = 25
    Rate = 1
    MinIr = 75
    FeedFails = TRUE
    LogFails = TRUE
SPECIFICATION GateSpec
INVARIANT AdjustedIsContinuous
CHECK_DEADLOCK FALSE
