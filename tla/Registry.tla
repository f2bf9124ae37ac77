------------------------------ MODULE Registry ------------------------------
(***************************************************************************)
(* The table of types of registry.c: for every type number the width it    *)
(* has on the wire, what its values are kept in, and the functions that    *)
(* encode, decode and coerce them.                                         *)
(***************************************************************************)
EXTENDS FieldCodes, Results

(* The built-in types by their numbers in fudge/types.h.                   *)
INDICATOR    == 0
BOOL         == 1
BYTE         == 2
SHORT        == 3
INT          == 4
LONG         == 5
BYTE_ARRAY   == 6
SHORT_ARRAY  == 7
INT_ARRAY    == 8
LONG_ARRAY   == 9
FLOAT        == 10
DOUBLE       == 11
FLOAT_ARRAY  == 12
DOUBLE_ARRAY == 13
STRING_TYPE  == 14
FUDGE_MSG    == 15
BYTE_ARRAY_4 == 17
DATE         == 26
TIME         == 27
DATETIME     == 28

BuiltIn      == (0..15) \cup (17..28)
Numbers      == {BOOL, BYTE, SHORT, INT, LONG, FLOAT, DOUBLE}

(* A function of the library is named by the first type it is for, decoder *)
(* and encoder as one: they come in pairs.  FudgeType_coerceDefault is     *)
(* INDICATOR.  Any other number is a function of the client's.             *)
Null == -1

(* What FudgeRegistry_init registers.                                      *)
FixedWidth == [type \in Byte |->
    CASE type = 0               -> 0
      [] type \in {1, 2}        -> 1
      [] type = 3               -> 2
      [] type \in {4, 10, 17, 26} -> 4
      [] type \in {5, 11, 18, 27} -> 8
      [] type = 28              -> 12
      [] type = 19              -> 16
      [] type = 20              -> 20
      [] type \in 21..25        -> 2^(type - 16)
      [] OTHER                  -> Variable]

InitialRegistry == [type \in Byte |->
    [fixedwidth |-> FixedWidth[type],
     payload |-> CASE type \in Numbers \cup {INDICATOR, DATE, TIME, DATETIME} -> "LOCAL"
                   [] type = STRING_TYPE -> "STRING"
                   [] type = FUDGE_MSG   -> "SUBMSG"
                   [] OTHER              -> "BYTES",
     codec   |-> IF type \in BuiltIn THEN type ELSE Null,
     coercer |-> IF type \notin BuiltIn THEN Null
                 ELSE IF type \in Numbers THEN type ELSE INDICATOR]]

(* FudgeRegistry_registerType: the status, and the table after it.  A type *)
(* of the library's own may be replaced.                                   *)
RegisterType(registry, type, payload, codec, coercer) ==
    IF Null \in {codec, coercer} THEN [status |-> "NULL_POINTER", registry |-> registry]
    ELSE IF payload \notin {"BYTES", "SUBMSG"}
      THEN [status |-> "INVALID_USER_TYPE", registry |-> registry]
    ELSE [status   |-> "OK",
          registry |-> [registry EXCEPT ![type] =
                           [fixedwidth |-> Variable, payload |-> payload,
                            codec |-> codec, coercer |-> coercer]]]
=============================================================================
