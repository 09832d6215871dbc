CONSTANTS
    Writers = {t1, t2}
    Readers = {t1, t2, v1, v2}
    Artifacts = {1, 2}
    Tags = {tags}
    MaxVersion = 2
    None = None
    Torn = Torn
    Skipped = Skipped
    Undefined = Undefined
    MaxData = 2
    MaxCommands = 3
    Bars <- MCBars
    Baseline = "baseline"
    PanelOrder <- Order2
    Evidence <- MCEvidence
    Batteries <- MCBatteries
SPECIFICATION DeskSpec
INVARIANTS EveryVersionKept LoadedIsOneRegistration ReportIsAudited PassSurvivedTheBattery
CHECK_DEADLOCK FALSE
SYMMETRY Symmetry
