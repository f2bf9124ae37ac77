CONSTANTS
    Msgs = {1, 2}
    Strs = {s1, s2}
    Blobs = {b1}
    Envs = {e1}
    ClientVars = {c1, c2}
    MaxFields = 2
    Local = Local
    Locals = {Local}
    Null = Null
    LongNames = {s2}
    InitialCapacity = 1
    GrowFailsIn = {}
    UserSubmessages = TRUE
SPECIFICATION Spec
INVARIANT NoDangling
CHECK_DEADLOCK FALSE
