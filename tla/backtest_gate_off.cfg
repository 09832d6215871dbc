CONSTANTS
    NumBars = 5
    Delay = 1
    Shares <- Shares3
    Open <- Opens5
    Close <- Closes5
    Volume <- Volumes5
    Capital = 1000
    MinSlip = 1
    MaxSlip = 3
    FeeRate = 1
    FeeCap = 150
    BuyTax = 1
    SellTax = 2
    Unchanged = Unchanged
SPECIFICATION Spec
INVARIANT OffIsFlat
CHECK_DEADLOCK FALSE
