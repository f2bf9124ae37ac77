------------------------------ MODULE MCValues ------------------------------
(***************************************************************************)
(* Values for Values: characters and bytes on both sides of every bound in *)
(* convertutf.c, byte-order markers anywhere, times around midnight and at *)
(* the ends of their ranges.                                               *)
(***************************************************************************)
EXTENDS Values, MCWireFormat

(* The header with most of its bits set: one is enough beside the values. *)
MCOneEnvelope == {[directives |-> 1, schemaversion |-> -1, taxonomy |-> -32768]}

Characters == {65, 127, 128, 2047, 2048, 55296, 57343, 65279, 65535, 65536, 1114111, 1114112}
MCTexts    == BoundedSeq(Characters, 2) \cup {<<65279, a, 65279>> : a \in Characters}

SomeBytes     == {0, 65, 127, 128, 159, 160, 191, 194, 224, 237, 239, 240, 244, 245}
MCBytestrings == BoundedSeq(SomeBytes, 3)
                   \cup {<<a, b, 128, c>> : a \in {194, 224, 237, 239, 240, 244}, b, c \in SomeBytes}
                   \cup {BOM \o <<a>> \o BOM : a \in SomeBytes}

MCChunks == {{}} \cup {{chunks} : chunks \in BoundedSeq({<<97>>, <<239, 187, 190>>, BOM}, 3)}

MCDateTimeInputs ==
    [year : {-8388607, -1999, -100, 0, 2010, 4194303}, month : {0, 12, 13}, day : {31, 32},
     seconds : {3661, 131071, 131072}, nanoseconds : {1073741823, 1073741824, 1073741825}]
MCZones == {{}, {-128}, {4}}

Moment(seconds, nanoseconds, zone) ==
    [time |-> TimeInitialise(seconds, nanoseconds, NANOSECOND, zone).value,
     date |-> [year |-> (seconds % 3) - 1, month |-> nanoseconds, day |-> Cardinality(zone)]]
MCMoments ==
    {Moment(seconds, nanoseconds, zone) :
        seconds \in {0, 899, 43200, 86400, 131071}, nanoseconds \in {0, 1},
        zone \in {{}, {-128}, {-97}, {-96}, {-48}, {-1}, {0}, {1}, {127}}}
=============================================================================
