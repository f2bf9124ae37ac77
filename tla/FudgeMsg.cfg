CONSTANTS
    Msgs = {1, 2}
    Strs = {s1, s2}
    Blobs = {b1}
    Envs = {e1}
    ClientVars = {c1, c2}
    MaxFields = 2
    Local = Local
    Locals = {Local}
    Null = Null
    LongNames = {s2}
    InitialCapacity = 1
    GrowFailsIn = {"primitive", "data"}
    UserSubmessages = FALSE
SPECIFICATION Spec
INVARIANTS
    TypeOK
    CountsExact
    NoDangling
    DestroyedOnce
    AllReclaimed
    VectorHasRoom
PROPERTIES
    FieldsKept
    CallsReturn

\* When every address has been used and freed the client has nothing to do.
CHECK_DEADLOCK FALSE
