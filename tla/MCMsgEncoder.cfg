CONSTANTS
    Msgs = {1, 2, 3}
    Leaves <- MCLeaves
    MaxFields = 2
    EditsSubmessages = FALSE
    Null = Null
SPECIFICATION Spec
INVARIANTS
    CachedWidthExact
    WritesFit
    AnnouncedLengthExact
PROPERTIES
    AllBytesWritten
    EncodeReturns
