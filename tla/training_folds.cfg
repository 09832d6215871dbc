CONSTANTS
    NumObs = 10
    NumGroups = 4
    TestGroups = 2
    Embargo = 1
    MaxTime = 12
    MaxHorizon = 2
    NaN = NaN
    Windows <- MCWindows
    Tables <- MCTables
    Members = {1, 2}
    Grids <- MCGrids
    Cost = 1
    TrackerFails = TRUE
SPECIFICATION StudySpec
INVARIANTS NoLeak PurgeIsExact PathsPartition OutOfSampleIsHonest CalibrationIsIsotonic LedgerIsTrue
CHECK_DEADLOCK FALSE
