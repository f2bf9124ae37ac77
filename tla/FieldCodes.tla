----------------------------- MODULE FieldCodes -----------------------------
(***************************************************************************)
(* The bits and bytes of the parts a Fudge message is made of: integers,   *)
(* the prefix of a field header, the length in front of a field of         *)
(* variable width, and dates and times (prefix.c, header.c,                *)
(* codec_encode.c, codec_decode.c).                                        *)
(*                                                                         *)
(* A byte is its unsigned value.  Shifts and masks are \div and %, which   *)
(* round towards minus infinity as the arithmetic shift does.              *)
(***************************************************************************)
EXTENDS FieldSizes, Sequences

(* lo..hi, in the form the proofs reason with when the bounds are large.   *)
Between(lo, hi) == {v \in Int : lo <= v /\ v <= hi}

Byte == 0..255
I16  == Between(-32768, 32767)
I32  == Between(-2147483647 - 1, 2147483647)

(* A byte read through a fudge_byte, which is signed.                      *)
SignedByte(b) == IF b < 128 THEN b ELSE b - 256

-----------------------------------------------------------------------------
(* FudgeCodec_encodeI16 and FudgeCodec_encodeI32: network byte order.      *)
EncodeI16_NoMask(v) == <<v \div 256, v % 256>>

EncodeI16(v) == <<(v \div 256) % 256, v % 256>>
DecodeI16(b) == SignedByte(b[1]) * 256 + b[2]

EncodeI32(v) ==
    <<(v \div 16777216) % 256, (v \div 65536) % 256, (v \div 256) % 256, v % 256>>
DecodeI32(b) == SignedByte(b[1]) * 16777216 + b[2] * 65536 + b[3] * 256 + b[4]

-----------------------------------------------------------------------------
(* FudgeFieldPrefix, and the byte it is packed into: only two bits are     *)
(* there for the width of the width, so 4 is stored as 3.                  *)
FieldPrefixes == {p \in [fixedwidth : BOOLEAN, variablewidth : {0, 1, 2, 4},
                    ordinal : BOOLEAN, name : BOOLEAN] :
                p.fixedwidth => p.variablewidth = 0}

EncodePrefix(p) ==
    LET varwidth == IF p.variablewidth < 4 THEN p.variablewidth ELSE 3
    IN  (IF p.fixedwidth THEN 128 ELSE varwidth * 32)
          + (IF p.ordinal THEN 16 ELSE 0) + (IF p.name THEN 8 ELSE 0)

DecodePrefix(b) ==
    LET varwidth == (b \div 32) % 4
    IN  [fixedwidth    |-> b \div 128 = 1,
         variablewidth |-> IF varwidth = 3 THEN 4 ELSE varwidth,
         ordinal       |-> (b \div 16) % 2 = 1,
         name          |-> (b \div 8) % 2 = 1]

-----------------------------------------------------------------------------
(* FudgeCodec_encodeFieldLength, and the way FudgeHeader_getFieldWidth     *)
(* reads it back: ntohs returns an unsigned value.                         *)
EncodeLength(n) ==
    CASE BytesToHoldSize(n) = 1 -> <<n>>
      [] BytesToHoldSize(n) = 2 -> EncodeI16(n)
      [] OTHER                  -> EncodeI32(n)

DecodeLength_SignedByte(b) ==
    CASE Len(b) = 1 -> SignedByte(b[1])
      [] Len(b) = 2 -> b[1] * 256 + b[2]
      [] OTHER      -> DecodeI32(b)

DecodeLength(b) ==
    CASE Len(b) = 1 -> b[1]
      [] Len(b) = 2 -> b[1] * 256 + b[2]
      [] OTHER      -> DecodeI32(b)

-----------------------------------------------------------------------------
(* Dates are packed into 32 bits: 23 for the year, with its sign, 4 for    *)
(* the month and 5 for the day.  What does not fit into 23 bits is lost.   *)
Year23(y) == ((y + 4194304) % 8388608) - 4194304

PackDate(d) == EncodeI32(Year23(d.year) * 512 + (d.month % 16) * 32 + (d.day % 32))

UnpackDate(b) ==
    LET v == DecodeI32(b)
    IN  [year |-> v \div 512, month |-> (v \div 32) % 16, day |-> v % 32]

(* The dates that FudgeDate_initialise accepts.                            *)
Dates == [year : Between(-8388607, 8388607), month : 0..12, day : 0..31]

(* Times take 64: the zone, -128 if there is none; the precision; 17 bits  *)
(* of seconds since midnight; and 30 of nanoseconds.                       *)
NoZone  == -128
TwoTo30 == 1073741824

PackTime(t) ==
    EncodeI32((IF t.hasTimezone THEN t.timezoneOffset ELSE NoZone) * 16777216
                + (t.precision % 16) * 1048576 + (t.seconds % 131072))
      \o EncodeI32(t.nanoseconds % TwoTo30)

UnpackTime(b) ==
    LET hiword == DecodeI32(SubSeq(b, 1, 4))
        loword == DecodeI32(SubSeq(b, 5, 8))
        zone   == hiword \div 16777216
    IN  [hasTimezone    |-> zone # NoZone,
         timezoneOffset |-> IF zone # NoZone THEN zone ELSE 0,
         precision      |-> (hiword \div 1048576) % 16,
         seconds        |-> hiword % 131072,
         nanoseconds    |-> loword % TwoTo30]

(* The times that the initialise functions accept, up to the rounding to   *)
(* their precision.                                                        *)
Times == [hasTimezone : BOOLEAN, timezoneOffset : -128..127, precision : 0..10,
          seconds : Between(0, 131071), nanoseconds : Between(0, TwoTo30)]
=============================================================================
