CONSTANTS
    Threads = {t1}
    Data = {a}
    MaxEntries = 2
    Edits = FALSE
    Nobody = Nobody
    Nothing = Nothing
    Junk = Junk
SPECIFICATION Spec
INVARIANTS OpensAgain
CHECK_DEADLOCK FALSE
