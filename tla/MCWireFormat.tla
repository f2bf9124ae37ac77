---------------------------- MODULE MCWireFormat ----------------------------
(***************************************************************************)
(* Fields of every kind for WireFormat.  The string of 120 bytes and the   *)
(* block of 130 are below and above the largest signed byte, and together  *)
(* with what is around them they make submessages of more than 255 bytes.  *)
(***************************************************************************)
EXTENDS WireFormat

Bytes(n) == [i \in 1..n |-> (37 * i) % 256]

Text(n)  == [i \in 1..n |-> 97 + (i % 26)]

USER_TYPE == 200

MCEnvelopes == {[directives |-> 0, schemaversion |-> 0, taxonomy |-> 0],
                [directives |-> 1, schemaversion |-> -1, taxonomy |-> -32768]}

NoNameGiven == {}
MCNames     == {NoNameGiven, {<<>>}, {<<110, 111>>}}
MCLongNames == {NoNameGiven, {Text(128)}}

ADate == [year |-> -4194304, month |-> 12, day |-> 31]
ATime == [hasTimezone |-> FALSE, timezoneOffset |-> 0, precision |-> 10,
          seconds |-> 131071, nanoseconds |-> 1073741823]
AZone == [hasTimezone |-> TRUE, timezoneOffset |-> -127, precision |-> 0,
          seconds |-> 0, nanoseconds |-> 0]

MCIntegers == {-128, 128, -32769, -2147483647 - 1}

MCFields ==
    {Field(INDICATOR, {<<>>}, {}, <<>>),
     Field(STRING_TYPE, {<<110, 111>>}, {32767}, Text(120)),
     Field(USER_TYPE, NoNameGiven, {}, Bytes(130)),
     Field(BYTE_ARRAY_4, NoNameGiven, {-32768}, Bytes(4)),
     Field(SHORT_ARRAY, NoNameGiven, {}, <<-1, 255>>),
     Field(DOUBLE_ARRAY, NoNameGiven, {}, <<<<-2, 5>>, <<1072693248, -1>>>>),
     Field(LONG, {<<110, 111>>}, {}, <<1, -1>>),
     Field(BOOL, {<<>>}, {0}, 1),
     Field(DATE, NoNameGiven, {}, ADate),
     Field(TIME, NoNameGiven, {}, ATime),
     Field(DATETIME, NoNameGiven, {}, [date |-> ADate, time |-> AZone])}
MCNoFields == {}
=============================================================================
