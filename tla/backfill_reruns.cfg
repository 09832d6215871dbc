CONSTANTS
    Symbols = {s1, s2}
    LastDay = 2
    ChunkDays = 1
    MaxBars = 1
    Tiers = {"parquet", "arctic", "redis"}
    Intervals = {minute}
    Starts = {1, 2}
    EndsMayLead = TRUE
    None = None
SPECIFICATION BackfillSpec
INVARIANTS ArchiveHoldsMarked EverySymbolReported
PROPERTIES RunEnds
