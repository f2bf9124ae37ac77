CONSTANTS
    Msgs = {1, 2, 3}
    Leaves <- MCLeaves
    MaxFields = 2
    EditsSubmessages = TRUE
    Null = Null
SPECIFICATION Spec
INVARIANT WritesFit
