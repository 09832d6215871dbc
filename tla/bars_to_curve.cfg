CONSTANTS
    DaySlots = 4
    Window = 2
    Lookback = 2
    None = None
    Threshold = 2
    Upper = 2
    Lower = 1
    MinReturn = 1
    MaxHold = 3
    MomentumBars = 1
    Configs <- MCConfigs
    Histories <- MCHistories
    Shapes <- MCShapes
    MaxSlots = 9
    Missing = 1
    Peers <- MCPeers
    Symbols <- MCSymbols
    Symbol = "b"
    Gap = 1
    NumBars = 5
    Delay = 2
    Shares <- Shares3
    Open <- Opens5
    Close <- Closes5
    Volume <- Volumes5
    Capital = 1000
    MinSlip = 1
    MaxSlip = 3
    FeeRate = 1
    FeeCap = 150
    BuyTax = 1
    SellTax = 2
    Unchanged = Unchanged
SPECIFICATION CurveSpec
INVARIANTS LiveIsBatch StopIsNotHidden FlatOvernight EnginesReconcile
PROPERTIES PastIsFixed ImplementsTrader
CHECK_DEADLOCK FALSE
