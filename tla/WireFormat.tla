----------------------------- MODULE WireFormat -----------------------------
(***************************************************************************)
(* What FudgeCodec_encodeMsg writes and how FudgeCodec_decodeMsg reads it: *)
(* header.c, prefix.c, codec_encode.c and codec_decode.c byte by byte, for *)
(* messages put together with the functions of message.c.                  *)
(*                                                                         *)
(* Memory is plentiful here; MsgEncoder and MsgDecoder say what happens    *)
(* when it is not.  The values of 64 bits are pairs of 32, and those of    *)
(* floating point are the integers with the same bits.                     *)
(***************************************************************************)
EXTENDS Registry, FudgeStrings

CONSTANTS
    Envelopes,   \* what an envelope says besides its message
    Fields,      \* the fields a client adds, other than integers and messages
    Integers32,  \* the integers it adds
    Names,       \* the names it gives them: at most one each
    MaxFields,   \* bound: fields per message
    MaxDepth     \* bound: messages within messages

(* A field: its name and its ordinal are sets of at most one.              *)
Field(type, name, ordinal, data) ==
    [type |-> type, name |-> name, ordinal |-> ordinal, data |-> data]

Arrays  == {SHORT_ARRAY, INT_ARRAY, LONG_ARRAY, FLOAT_ARRAY, DOUBLE_ARRAY}
ArrayOf == [type \in Arrays |->
    CASE type = SHORT_ARRAY -> SHORT [] type = INT_ARRAY   -> INT [] type = LONG_ARRAY -> LONG
      [] type = FLOAT_ARRAY -> FLOAT [] type = DOUBLE_ARRAY -> DOUBLE]

NumbersOf(type) ==
    CASE type = BOOL            -> {0, 1}
      [] type = BYTE            -> -128..127
      [] type = SHORT           -> I16
      [] type \in {INT, FLOAT}  -> I32
      [] OTHER                  -> I32 \X I32

(* The dates and times the encoding has room for (ValueProofs).            *)
EncodableDates == {d \in Dates : d.year \in Between(-4194304, 4194303)}
EncodableTimes ==
    {t \in Times : /\ t.nanoseconds # TwoTo30
                   /\ IF t.hasTimezone THEN t.timezoneOffset # NoZone
                      ELSE t.timezoneOffset = 0}

(* The data of a field of each type, as the compiler has it; but of dates  *)
(* and times only what the encoding has room for, and of strings what a    *)
(* decoder takes: there are others (HalfPairRefused).  And arrays are of   *)
(* whole elements: there are others too, of bytes that do not come out     *)
(* even, from FudgeMsg_addFieldOpaque or from the decoder, which keeps the *)
(* width it was sent as numbytes.  They cannot be encoded; MsgEncoder has  *)
(* them.  Opaque fields of fixed width have that width here.               *)
DataOf(type) ==
    CASE type = INDICATOR   -> {<<>>}
      [] type \in Numbers   -> NumbersOf(type)
      [] type \in Arrays    -> Seq(NumbersOf(ArrayOf[type]))
      [] type = STRING_TYPE -> {b \in Seq(Byte) : CreateFromUTF8(b) = Ok(b)}
      [] type = FUDGE_MSG   -> {}
      [] type = DATE        -> EncodableDates
      [] type = TIME        -> EncodableTimes
      [] type = DATETIME    -> [date : EncodableDates, time : EncodableTimes]
      [] OTHER              -> {b \in Seq(Byte) : FixedWidth[type] \in {Variable, Len(b)}}

AtMostOne(S) == \A x, y \in S : x = y

ASSUME WireFormatAssumption ==
    /\ Envelopes \subseteq [directives : -128..127, schemaversion : -128..127, taxonomy : I16]
    /\ \A f \in Fields : /\ f.type \in Byte \ {BYTE, SHORT, INT} /\ f.name \in Names
                         /\ f.ordinal \subseteq I16 /\ AtMostOne(f.ordinal)
                         /\ f.data \in DataOf(f.type)
                         /\ f = Field(f.type, f.name, f.ordinal, f.data)
    /\ Integers32 \subseteq I32 /\ MaxFields \in Nat /\ MaxDepth \in Nat
    /\ \A name \in Names : /\ name \subseteq Seq(Byte) /\ AtMostOne(name)
                           /\ \A n \in name : Len(n) < 256 /\ CreateFromUTF8(n) = Ok(n)

VARIABLES envelope,  \* the envelope to encode
          message,   \* the fields of its message, so far
          inner      \* the messages it encloses, innermost first

wireVars == <<envelope, message, inner>>

-----------------------------------------------------------------------------
(* The client.                                                             *)
WireInit ==
    /\ envelope \in Envelopes
    /\ message = <<>>
    /\ inner = <<>>

Add(f) ==
    /\ Len(message) < MaxFields
    /\ message' = Append(message, f)
    /\ UNCHANGED <<envelope, inner>>

AddField(f) == Add(f)

(* FudgeMsg_addFieldI16 and FudgeMsg_addFieldI32: the value is kept in the *)
(* smallest type that holds it, whatever type it was added as.             *)
PickIntegerType(type, v) ==
    IF type = BYTE \/ v \in -128..127 THEN BYTE
    ELSE IF type = SHORT \/ v \in I16 THEN SHORT ELSE INT

AddInteger(name, v) == Add(Field(PickIntegerType(INT, v), name, {}, v))

(* FudgeMsg_addFieldMsg: the client starts another message with the one it *)
(* has, and may put that into it once more.                                *)
AsField(name, m) == Field(FUDGE_MSG, name, {-1}, m)

Enclose(name) ==
    /\ Len(inner) < MaxDepth
    /\ message' = <<AsField(name, message)>>
    /\ inner' = Append(inner, message)
    /\ UNCHANGED envelope

AddMessage(name, m) == Add(AsField(name, m))

WireNext ==
    \/ \E f \in Fields : AddField(f)
    \/ \E name \in Names :
          \/ \E v \in Integers32 : AddInteger(name, v)
          \/ \E m \in ToSet(inner) : AddMessage(name, m)
          \/ Enclose(name)

WireSpec == WireInit /\ [][WireNext]_wireVars

-----------------------------------------------------------------------------
(* Encoding.                                                               *)

(* What the size of a field depends on (FieldSizes).                       *)
Shape(f) ==
    [fixedwidth |-> FixedWidth[f.type], ordinal |-> f.ordinal # {},
     name |-> IF f.name = {} THEN NoName ELSE Len(The(f.name))]

(* FudgeCodec_getFieldDataLength: elements are counted in bytes.           *)
DataLength_Elements(f, length) ==
    IF FixedWidth[f.type] >= 0 THEN FixedWidth[f.type]
    ELSE IF f.type = FUDGE_MSG THEN length[f.data] ELSE Len(f.data)

DataLength(f, length) ==
    IF FixedWidth[f.type] >= 0 THEN FixedWidth[f.type]
    ELSE IF f.type = FUDGE_MSG THEN length[f.data]
    ELSE IF f.type \in Arrays THEN FixedWidth[ArrayOf[f.type]] * Len(f.data)
    ELSE Len(f.data)

(* The messages there are to encode.                                       *)
Messages == ToSet(Append(inner, message))

MessageLength[m \in Messages] ==
    Total([i \in DOMAIN m |-> FieldLength(Shape(m[i]), DataLength(m[i], MessageLength))])

(* FudgeHeader_encodeFieldHeader, with what populateFieldHeader gives it.  *)
EncodeFieldHeader(f, size) ==
    LET fixed  == FixedWidth[f.type] >= 0
        prefix == [fixedwidth |-> fixed, ordinal |-> f.ordinal # {}, name |-> f.name # {},
                   variablewidth |-> IF fixed THEN 0 ELSE BytesToHoldSize(size)]
    IN  <<EncodePrefix(prefix), f.type>>
          \o (IF prefix.ordinal THEN EncodeI16(The(f.ordinal)) ELSE <<>>)
          \o (IF prefix.name THEN <<Len(The(f.name))>> \o The(f.name) ELSE <<>>)

EncodeNumber(type, v) ==
    CASE type \in {BOOL, BYTE}   -> <<v % 256>>
      [] type = SHORT            -> EncodeI16(v)
      [] type \in {INT, FLOAT}   -> EncodeI32(v)
      [] type \in {LONG, DOUBLE} -> EncodeI32(v[1]) \o EncodeI32(v[2])

(* The encoder registered for the type; bytes by default.                  *)
EncodeValue(type, v, encoded) ==
    CASE type = INDICATOR    -> <<>>
      [] type \in Numbers    -> EncodeNumber(type, v)
      [] type \in Arrays     -> FlattenSeq([i \in DOMAIN v |-> EncodeNumber(ArrayOf[type], v[i])])
      [] type = FUDGE_MSG    -> encoded[v]
      [] type = DATE         -> PackDate(v)
      [] type = TIME         -> PackTime(v)
      [] type = DATETIME     -> PackDate(v.date) \o PackTime(v.time)
      [] OTHER               -> v

EncodeField(f, encoded) ==
    LET size == DataLength(f, MessageLength)
    IN  EncodeFieldHeader(f, size)
          \o (IF FixedWidth[f.type] >= 0 THEN <<>> ELSE EncodeLength(size))
          \o EncodeValue(f.type, f.data, encoded)

EncodeMsgFields[m \in Messages] ==
    FlattenSeq([i \in DOMAIN m |-> EncodeField(m[i], EncodeMsgFields)])

EnvelopeBytes == 8

EncodeMsg(e, m) ==
    <<e.directives % 256, e.schemaversion % 256>> \o EncodeI16(e.taxonomy)
      \o EncodeI32(EnvelopeBytes + MessageLength[m]) \o EncodeMsgFields[m]

-----------------------------------------------------------------------------
(* Decoding.  A result has a status and, if that is OK, what was decoded.  *)
(* "MALFORMED" stands for whatever happens once a byte is read that is not *)
(* there, or a width is negative: the tests of the code let both through.  *)
OutOfBytes == Fail("OUT_OF_BYTES")

(* The last part of FudgeHeader_decodeFieldHeader, from index on.          *)
DecodeName(b, index) ==
    LET length == SignedByte(b[index + 1])
        end    == index + 1 + length
    IN  IF index > Len(b) THEN OutOfBytes
        ELSE IF index = Len(b) THEN Fail("MALFORMED")
        ELSE IF end > Len(b) THEN OutOfBytes
        ELSE IF length < 0 THEN Fail("OUT_OF_MEMORY")
        ELSE [status |-> "OK", name |-> {SubSeq(b, index + 2, end)}, consumed |-> end]

DecodeFieldHeader(b) ==
    IF b = <<>> THEN OutOfBytes
    ELSE IF Len(b) = 1 THEN Fail("MALFORMED")
    ELSE LET prefix == DecodePrefix(b[1])
             index  == IF prefix.ordinal THEN 4 ELSE 2
             rest   == IF prefix.name THEN DecodeName(b, index)
                       ELSE [status |-> "OK", name |-> {}, consumed |-> index]
         IN  IF prefix.ordinal /\ Len(b) < 3 THEN OutOfBytes
             ELSE IF prefix.ordinal /\ Len(b) < 4 THEN Fail("MALFORMED")
             ELSE IF rest.status # "OK" THEN rest
             ELSE [status |-> "OK", type |-> b[2], name |-> rest.name,
                   ordinal |-> IF prefix.ordinal THEN {DecodeI16(SubSeq(b, 3, 4))} ELSE {},
                   widthofwidth |-> IF prefix.fixedwidth THEN 0 ELSE prefix.variablewidth,
                   consumed |-> rest.consumed]

(* FudgeHeader_getFieldWidth.                                              *)
GetFieldWidth(h, b) ==
    LET width == IF h.widthofwidth = 0 THEN FixedWidth[h.type]
                 ELSE DecodeLength(SubSeq(b, 1, h.widthofwidth))
    IN  IF h.widthofwidth > Len(b) THEN OutOfBytes
        ELSE IF width < 0
          THEN Fail(IF h.widthofwidth = 0 THEN "UNKNOWN_FIELD_WIDTH" ELSE "MALFORMED")
        ELSE [status |-> "OK", width |-> width, consumed |-> h.widthofwidth]

DecodeNumber(type, b) ==
    CASE type = BOOL             -> IF b[1] # 0 THEN 1 ELSE 0
      [] type = BYTE             -> SignedByte(b[1])
      [] type = SHORT            -> DecodeI16(b)
      [] type \in {INT, FLOAT}   -> DecodeI32(b)
      [] type \in {LONG, DOUBLE} -> <<DecodeI32(b), DecodeI32(From(b, 4))>>

(* What is left over at the end is no element.                             *)
DecodeArray(type, b) ==
    LET width == FixedWidth[type]
    IN  [i \in 1..(Len(b) \div width) |-> DecodeNumber(type, From(b, (i - 1) * width))]

(* The decoder registered for the type; only those of strings and of       *)
(* messages can fail.                                                      *)
DecodeValue(type, b, decoded) ==
    IF FixedWidth[type] > Len(b) THEN Fail("MALFORMED")
    ELSE CASE type = INDICATOR   -> Ok(<<>>)
           [] type \in Numbers   -> Ok(DecodeNumber(type, b))
           [] type \in Arrays    -> Ok(DecodeArray(ArrayOf[type], b))
           [] type = STRING_TYPE -> CreateFromUTF8(b)
           [] type = FUDGE_MSG   -> decoded[b]
           [] type = DATE        -> Ok(UnpackDate(b))
           [] type = TIME        -> Ok(UnpackTime(b))
           [] type = DATETIME    -> Ok([date |-> UnpackDate(b), time |-> UnpackTime(From(b, 4))])
           [] OTHER              -> Ok(b)

(* One turn of FudgeCodec_decodeMsgFields: the header, the width and the   *)
(* data of a field, each behind the other.                                 *)
DecodeData(h, width, data, decoded) ==
    LET v   == DecodeValue(h.type, SubSeq(data, 1, width), decoded)
        bad == {n \in h.name : CreateFromUTF8(n).status # "OK"}
    IN  IF width > Len(data) THEN OutOfBytes
        ELSE IF v.status # "OK" THEN v
        ELSE IF bad # {} THEN CreateFromUTF8(The(bad))
        ELSE [status |-> "OK", rest |-> From(data, width),
              field |-> Field(h.type, h.name, h.ordinal, v.value)]

DecodeBehind(h, b, decoded) ==
    LET w == GetFieldWidth(h, b)
    IN  IF w.status # "OK" THEN w ELSE DecodeData(h, w.width, From(b, w.consumed), decoded)

DecodeField(b, decoded) ==
    LET h == DecodeFieldHeader(b)
    IN  IF h.status # "OK" THEN h ELSE DecodeBehind(h, From(b, h.consumed), decoded)

DecodeMsgFields[b \in Seq(Byte)] ==
    LET first  == DecodeField(b, DecodeMsgFields)
        others == DecodeMsgFields[first.rest]
    IN  IF b = <<>> THEN Ok(<<>>)
        ELSE IF first.status # "OK" THEN first
        ELSE IF others.status # "OK" THEN others
        ELSE Ok(<<first.field>> \o others.value)

(* FudgeCodec_decodeMsg: the fields are looked for in all the bytes there  *)
(* are, not in those the header counts.                                    *)
DecodeFrom(b) ==
    LET fields == DecodeMsgFields[From(b, EnvelopeBytes)]
    IN  IF fields.status # "OK" THEN fields
        ELSE [status |-> "OK", message |-> fields.value,
              envelope |-> [directives |-> SignedByte(b[1]), schemaversion |-> SignedByte(b[2]),
                            taxonomy |-> DecodeI16(SubSeq(b, 3, 4))]]

DecodeMsg_TrustsCaller(b) ==
    IF Len(b) < EnvelopeBytes THEN OutOfBytes ELSE DecodeFrom(b)

DecodeMsg(b) ==
    IF Len(b) < EnvelopeBytes THEN OutOfBytes
    ELSE IF Len(b) < DecodeI32(SubSeq(b, 5, 8)) THEN OutOfBytes
    ELSE DecodeFrom(b)

-----------------------------------------------------------------------------
(* Whatever the values and their signs, what is written is bytes.          *)
WireTypeOK ==
    /\ envelope \in Envelopes
    /\ Len(inner) \in 0..MaxDepth
    /\ EncodeMsg(envelope, message) \in Seq(Byte)

(* A message is decoded to what was encoded: every field in its place with *)
(* its type, name, ordinal and data, submessages included, and the         *)
(* envelope around it.                                                     *)
RoundTrip ==
    DecodeMsg(EncodeMsg(envelope, message)) =
        [status |-> "OK", message |-> message, envelope |-> envelope]

(* The length FudgeCodec_getMessageLength measures, which is allocated and *)
(* announced in the headers, is the number of bytes the encoders write.    *)
MeasuredLengthExact ==
    Len(EncodeMsg(envelope, message)) = EnvelopeBytes + MessageLength[message]

(* As long as any byte of a message is missing, FudgeCodec_decodeMsg says  *)
(* just that: a caller may try again with more, and never gets a part.     *)
TruncationDetected ==
    LET encoded == EncodeMsg(envelope, message)
    IN  \A n \in 0..(Len(encoded) - 1) : DecodeMsg(SubSeq(encoded, 1, n)) = OutOfBytes
=============================================================================
