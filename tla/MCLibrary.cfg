SPECIFICATION LibrarySpec
SYMMETRY Symmetry
CONSTANTS
    Threads   = {t1, t2, t3}
    Statics   = {static}
    Pools     = {pool}
    Slots     = {slot}
    Nodes     = {n1, n2}
    Strings   = {s1, s2, s3}
    None      = none
    MaxPoolRefs = 2
    Managers  = {default, own}
    NoManager = noManager
    TypeIds   = {14, 200}
    Functions = {300}
INVARIANTS
    ReferencesOwned
    BorrowedLive
PROPERTIES
    SetUpKept
CHECK_DEADLOCK FALSE
