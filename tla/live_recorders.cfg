CONSTANTS
    Threads = {t1, t2}
    Data = {a, b}
    MaxEntries = 3
    Edits = TRUE
    Nobody = Nobody
    Nothing = Nothing
    Junk = Junk
    Partitions = {1, 2}
    Times = {1, 2}
    Books = {b1, b2}
    BatchSize = 2
    MaxSnapshots = 3
    MaxRestarts = 1
    WritesFail = TRUE
    RewritesTear = TRUE
    None = None
    Torn = Torn
    Tokens = {k1}
    Capacity = 2
    StaleTimeout = 1
    BadStamps = TRUE
    MaxTicks = 3
    MaxBatch = 2
    MaxTime = 2
    Unknown = Unknown
    Never = Never
    Listed <- MCListed
    DaySlots = 2
    PreDays = 1
    ReactionDays = 1
    DriftDays = 2
    DayPadding = 1
    Calendars <- MCCalendars
    DriftWindow = 2
    MinAbsSurprise = 60
    TornStore = TornStore
SPECIFICATION RecordersSpec
INVARIANTS VerifyTells ArchiveIsLatest RecordsSettle EveryTickAccounted NoFalseAlarm
PROPERTIES Recovers
CHECK_DEADLOCK FALSE
