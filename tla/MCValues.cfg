SPECIFICATION ValuesSpec
CONSTANTS
    Envelopes  <- MCOneEnvelope
    Fields     <- MCFields
    Integers32 <- MCIntegers
    Names      <- MCNames
    MaxFields  = 2
    MaxDepth   = 1
    Texts          <- MCTexts
    Bytestrings    <- MCBytestrings
    Chunks         <- MCChunks
    DateTimeInputs <- MCDateTimeInputs
    Zones          <- MCZones
    Moments        <- MCMoments
INVARIANTS
    WireTypeOK
    RoundTrip
    MeasuredLengthExact
    TruncationDetected
    TextKept
    LengthsAgree
    CompareIsOrder
    TimesOrdered
    RoundedToPrecision
    NumbersReadBack
CHECK_DEADLOCK FALSE
