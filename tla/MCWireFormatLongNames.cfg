SPECIFICATION WireSpec
CONSTANTS
    Envelopes  <- MCEnvelopes
    Fields     <- MCNoFields
    Integers32 <- MCIntegers
    Names      <- MCLongNames
    MaxFields  = 2
    MaxDepth   = 1
INVARIANTS
    RoundTrip
CHECK_DEADLOCK FALSE
