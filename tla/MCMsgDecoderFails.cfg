CONSTANTS
    Msgs = {1, 2, 3}
    Strs = {s1, s2}
    Blobs = {b1}
    Envs = {e1}
    ClientVars = {c1}
    MaxFields = 2
    Locals <- MCLocals
    Null = Null
    FailsIn = {"header"}
SPECIFICATION Spec
INVARIANT ReleasesOnlyOwned
CHECK_DEADLOCK FALSE
