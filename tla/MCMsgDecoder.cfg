\* The name of a field that owns its payload is always made: codec_decode.c
\* leaks the payload if not.
CONSTANTS
    Msgs = {1, 2, 3}
    Strs = {s1, s2}
    Blobs = {b1}
    Envs = {e1}
    ClientVars = {c1}
    MaxFields = 2
    Locals <- MCLocals
    Null = Null
    FailsIn = {"create", "envelope", "header", "width", "payload", "value_name", "append"}
SPECIFICATION Spec
INVARIANTS
    CountsExact
    NoDangling
    DecodedCountIsOne
    FailureLeavesNothing

\* When every address has been used the client has nothing left to decode.
CHECK_DEADLOCK FALSE
