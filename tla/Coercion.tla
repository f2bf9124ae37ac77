------------------------------ MODULE Coercion ------------------------------
(***************************************************************************)
(* Reading a number as another type of number: coerce.c and message_ex.c.  *)
(* A Boolean is 0 or 1.  Integers are of 32 bits, those read of a LONG too.*)
(* Floating point is <<m, e>>, for m * 2^e, and only ever made from them.  *)
(***************************************************************************)
EXTENDS Registry

(* What each coercer accepts as its target; FudgeType_coerceDefault, the   *)
(* coercer of everything else, accepts nothing.                            *)
CoercesTo_ShortToByte == [type \in Numbers \cup {INDICATOR} |->
    CASE type = BOOL   -> {BYTE, SHORT, INT, LONG}
      [] type = BYTE   -> {BOOL, SHORT, INT, LONG, FLOAT, DOUBLE}
      [] type = SHORT  -> {BOOL, BYTE, INT, LONG, FLOAT, DOUBLE}
      [] type = INT    -> {BOOL, LONG, FLOAT, DOUBLE}
      [] type = LONG   -> {BOOL, FLOAT, DOUBLE}
      [] type = FLOAT  -> {DOUBLE}
      [] type = DOUBLE -> {FLOAT}
      [] OTHER         -> {}]

CoercesTo == [type \in Numbers \cup {INDICATOR} |->
    CASE type = BOOL   -> {BYTE, SHORT, INT, LONG}
      [] type = BYTE   -> {BOOL, SHORT, INT, LONG, FLOAT, DOUBLE}
      [] type = SHORT  -> {BOOL, INT, LONG, FLOAT, DOUBLE}
      [] type = INT    -> {BOOL, LONG, FLOAT, DOUBLE}
      [] type = LONG   -> {BOOL, FLOAT, DOUBLE}
      [] type = FLOAT  -> {DOUBLE}
      [] type = DOUBLE -> {FLOAT}
      [] OTHER         -> {}]

(* A float has 24 bits for m; C rounds to the nearest, and to the even one *)
(* of two.                                                                 *)
Fits24(m) == m \in -(2^24)..2^24

RoundTo24Bits(f) ==
    LET k    == CHOOSE i \in 0..8 : Fits24(f[1] \div 2^i) /\ \A j \in 0..(i - 1) : ~Fits24(f[1] \div 2^j)
        m    == f[1] \div 2^k
        lost == f[1] % 2^k
    IN  IF k = 0 THEN f
        ELSE IF 2 * lost > 2^k \/ (2 * lost = 2^k /\ m % 2 = 1) THEN <<m + 1, f[2] + k>>
        ELSE <<m, f[2] + k>>

Converted(from, to, v) ==
    CASE to = FLOAT  -> RoundTo24Bits(IF from = DOUBLE THEN v ELSE <<v, 0>>)
      [] to = DOUBLE -> IF from = FLOAT THEN v ELSE <<v, 0>>
      [] BOOL \in {from, to} -> IF v # 0 THEN 1 ELSE 0
      [] OTHER -> v

(* FudgeType_coerceInt and the others, by the type they are for.           *)
Coerce(coercer, field, type) ==
    IF field.type = type THEN Fail("COERCION_NOT_REQUIRED")
    ELSE IF type \notin CoercesTo[coercer] THEN Fail("INVALID_TYPE_COERCION")
    ELSE Ok(Converted(coercer, type, field.data))

(* FudgeMsg_getFieldAsI32 and the other primitives.  A type that nobody    *)
(* has registered has no coercer, and it is called all the same.           *)
GetFieldAsPrimitive(registry, field, type) ==
    LET coercer == registry[field.type].coercer
        result  == Coerce(coercer, field, type)
    IN  IF coercer = Null THEN Fail("UNDEFINED")
        ELSE IF result.status = "COERCION_NOT_REQUIRED" THEN Ok(field.data)
        ELSE result

(* FudgeMsg_getFieldAs looks before it calls.                              *)
GetFieldAs(registry, field, type) ==
    LET coercer == registry[field.type].coercer
    IN  IF field.type = type THEN Fail("COERCION_NOT_REQUIRED")
        ELSE IF coercer = Null THEN Fail("INVALID_TYPE_COERCION")
        ELSE Coerce(coercer, field, type)
=============================================================================
