CONSTANTS
    Symbols = {s1, s2}
    Days    = {1, 2}
    Frames  = {f1, f2}
    Writers = {w1}
    Readers = {r1}
    None = None
    Torn = Torn
    NoSymbol = NoSymbol
SPECIFICATION Spec
INVARIANTS ReportsAreTrue ReadsArePermanent
PROPERTIES ImplementsWriteOnce
