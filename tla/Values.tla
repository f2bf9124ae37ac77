------------------------------- MODULE Values -------------------------------
(***************************************************************************)
(* A client and the values it sends and receives.  It makes strings, dates *)
(* and times from what it has, compares them, puts them into messages,     *)
(* and reads the fields of the messages that arrive: string.c, datetime.c, *)
(* coerce.c, message_ex.c and the getters of message.c around the codec.   *)
(***************************************************************************)
EXTENDS WireFormat, DateTimes, Coercion

CONSTANTS
    Texts,        \* what it makes strings from: sequences of characters,
    Bytestrings,  \* sequences of bytes that are to be UTF-8,
    Chunks,       \* and sequences of strings to put together, to compare
    DateTimeInputs,  \* arguments of FudgeDateTime_initialise but precision, zone
    Zones,        \* at most one each
    Moments       \* times of day and dates to compare

(* All but years are unsigned, and the moments can be stored.              *)
ASSUME ValuesAssumption ==
    /\ Texts \subseteq Seq(Nat) /\ Bytestrings \subseteq Seq(Byte)
    /\ \A p \in Chunks : /\ p \subseteq Seq(Seq(Byte)) /\ AtMostOne(p)
                         /\ \A chunks \in p : \A i \in DOMAIN chunks :
                               chunks[i] = BOM \/ Unmarked(chunks[i])
    /\ \A i \in DateTimeInputs :
          i.year \in Int /\ {i.month, i.day, i.seconds, i.nanoseconds} \subseteq Nat
    /\ \A m \in Moments : m.time \in Times /\ m.date \in Dates

VARIABLE made     \* what it has made, and from what

valueVars == <<envelope, message, inner, made>>

Nothing == [kind |-> "nothing"]

-----------------------------------------------------------------------------
(* Getting the fields of a message.                                        *)
GetFieldAtIndex(fields, index) ==
    IF index >= Len(fields) THEN Fail("INVALID_INDEX") ELSE Ok(fields[index + 1])

FirstField(fields, IsIt(_), status) ==
    LET matching == {i \in DOMAIN fields : IsIt(fields[i])}
    IN  IF matching = {} THEN Fail(status) ELSE Ok(fields[Min(matching)])

GetFieldByName(fields, name) ==
    IF name = {} THEN Fail("NULL_POINTER")
    ELSE FirstField(fields, LAMBDA f : Compare(f.name, name) = 0, "INVALID_NAME")

GetFieldByOrdinal(fields, ordinal) ==
    FirstField(fields, LAMBDA f : ordinal \in f.ordinal, "INVALID_ORDINAL")

(* Into an array of numfields.                                             *)
GetFields(fields, numfields) == UpTo(numfields, fields)

-----------------------------------------------------------------------------
(* The client.  It makes one value, which it may put into a message, or it *)
(* puts together a message of the values WireFormat gives it.              *)
Idle == made = Nothing /\ message = <<>>

MakeText(text) ==
    made' = [kind |-> "text", from |-> text, result |-> CreateFromUTF32(text)]

MakeBytes(bytes) ==
    made' = [kind |-> "bytes", from |-> bytes, result |-> CreateFromUTF8(bytes)]

MakePair(left, right) == made' = [kind |-> "pair", left |-> left, right |-> right]

AtPrecision(i, precision, zone) ==
    DateTimeInitialise(i.year, i.month, i.day, i.seconds, i.nanoseconds, precision, zone)

MakeDateTime(input, precision, zone) ==
    made' = [kind |-> "datetime", from |-> input, precision |-> precision, zone |-> zone,
             result |-> AtPrecision(input, precision, zone)]

MakeMoments(left, right) == made' = [kind |-> "moments", left |-> left, right |-> right]

MakeValue ==
    /\ Idle
    /\ \/ \E text \in Texts : MakeText(text)
       \/ \E bytes \in Bytestrings : MakeBytes(bytes)
       \/ \E left, right \in Chunks : MakePair(left, right)
       \/ \E i \in DateTimeInputs, p \in Precisions, zone \in Zones : MakeDateTime(i, p, zone)
       \/ \E left, right \in Moments : MakeMoments(left, right)
    /\ UNCHANGED wireVars

(* It sends what the encoding has room for.                                *)
Send ==
    LET type == IF made.kind = "datetime" THEN DATETIME ELSE STRING_TYPE
    IN  /\ made.kind \in {"text", "bytes", "datetime"} /\ made.result.status = "OK"
        /\ made.result.value \in DataOf(type)
        /\ message = <<>>
        /\ AddField(Field(type, {}, {}, made.result.value))
        /\ UNCHANGED made

ValuesInit == WireInit /\ made = Nothing

ValuesNext ==
    \/ made = Nothing /\ WireNext /\ UNCHANGED made
    \/ MakeValue
    \/ Send

ValuesSpec == ValuesInit /\ [][ValuesNext]_valueVars

-----------------------------------------------------------------------------
(* Strings.                                                                *)
(* "For valid unicode sequences the conversion process is loss-less"       *)
(* (fudge/string.h): a string made of any characters is legal UTF-8, gives *)
(* back those characters in UTF-32 and in UTF-16, and is the string made   *)
(* from that UTF-16.  The converters that string.c does not use agree, and *)
(* a buffer takes the whole text or nothing.                               *)
TextKept ==
    made.kind = "text" /\ (\A i \in DOMAIN made.from : IsCharacter(made.from[i])) =>
        LET string == made.result.value
            utf16  == ConvertToUTF16(string).value
        IN  /\ made.result.status = "OK"
            /\ CreateFromUTF8(string) = Ok(string)
            /\ ConvertToUTF32(string) = Ok(made.from)
            /\ CreateFromUTF16(utf16) = Ok(string)
            /\ ConvertUTF32toUTF16(made.from, 2 * Len(made.from)).target = utf16
            /\ ConvertUTF16toUTF32(utf16, Len(utf16)).target = made.from
            /\ \A size \in 0..(2 * Len(utf16)) :
                  CopyToUTF16(size, string) = IF size + 1 >= 2 * Len(utf16) THEN utf16 ELSE <<>>

(* Three functions walk a string, each with a loop of its own.  The length *)
(* they find is the same, that of the ASCII text they make of it; a short  *)
(* buffer gets the beginning of that; and if the string is legal, there is *)
(* a character for each of its own but the byte-order markers.             *)
LengthsAgree ==
    made.kind \in {"text", "bytes"} /\ made.result.status = "OK" =>
        LET string == made.result.value
            length == GetLength(string)
            ascii  == ConvertToASCIIZ(string)
            utf32  == ConvertToUTF32(string)
        IN  /\ IF length = -1 THEN ascii.status = "STRING_INCOMPLETE_UNICODE"
               ELSE ascii.status = "OK" /\ Len(ascii.value) = length
            /\ \A size \in 0..(Len(string) + 1) :
                  LET copy == CopyToASCII(size, string)
                  IN  IF length = -1 THEN Len(copy) \in {0, size}
                      ELSE copy = UpTo(size, ascii.value)
            /\ utf32.status = "OK" => ascii = Ok(Shown(utf32.value))

(* FudgeString_compare against its description, a comparison of bytes in   *)
(* which byte-order markers do not count.  They do count in one place:     *)
(* of two strings that are the same otherwise, the one that ends in more   *)
(* of them is the greater one.                                             *)
CompareIsOrder ==
    made.kind = "pair" =>
        LET l == made.left
            r == made.right
            Pointer(p) == {FlattenSeq(chunks) : chunks \in p}
        IN  Compare(Pointer(l), Pointer(r)) =
                IF {} \in {l, r} THEN Sign(Cardinality(l), Cardinality(r))
                ELSE OrderOf(The(l), The(r))

-----------------------------------------------------------------------------
(* Dates and times.                                                        *)

(* A time with the offset of its zone added to it, which is what           *)
(* FudgeTime_compare compares, and what tests/test_datetime.c expects: a   *)
(* time at offset -8 equals the one without a zone two hours earlier.      *)
(* This is not its time in UTC.  By fudge/types.h the offset is that of    *)
(* the zone from UTC, 4 for an hour east of it, and would be subtracted.   *)
WithOffset(t) == t.seconds + (IF t.hasTimezone THEN 900 * t.timezoneOffset ELSE 0)

(* FudgeTime_compare goes by unsigned seconds and a flag for the day       *)
(* before; all the same it orders times by their seconds with the offset   *)
(* added, the sums below 0 in front of the others.  The code and its tests *)
(* have it so; fudge/types.h contradicts them: of noon and noon at offset  *)
(* -1 the second is the later one there, and the smaller one here.  Not    *)
(* included: offsets below -96 may lead back more than a day, where the    *)
(* seconds wrap around.  FudgeDate_compare orders dates.                   *)
TimesOrdered ==
    made.kind = "moments" =>
        LET l == made.left
            r == made.right
        IN  /\ WithOffset(l.time) >= -86400 /\ WithOffset(r.time) >= -86400 =>
                  TimeCompare({l.time}, {r.time}) =
                      FirstOf(Sign(WithOffset(l.time), WithOffset(r.time)),
                              Sign(l.time.nanoseconds, r.time.nanoseconds))
            /\ DateCompare({l.date}, {r.date}) =
                   Sign(l.date.year * 512 + l.date.month * 32 + l.date.day,
                        r.date.year * 512 + r.date.month * 32 + r.date.day)

(* Rounding to a precision and then to a coarser one is rounding to the    *)
(* coarser one at once, of dates before the year 0 too: a value that is    *)
(* received and kept at less precision equals one made so.  And to its own *)
(* precision a value is rounded already.                                   *)
RoundedToPrecision ==
    made.kind = "datetime" /\ made.result.status = "OK" =>
        LET v == made.result.value
            kept == [year |-> v.date.year, month |-> v.date.month, day |-> v.date.day,
                     seconds |-> v.time.seconds, nanoseconds |-> v.time.nanoseconds]
        IN  \A p \in 0..made.precision :
                AtPrecision(kept, p, made.zone) = AtPrecision(made.from, p, made.zone)

-----------------------------------------------------------------------------
(* Reading a message that has arrived.                                     *)
Holds(type) ==
    CASE type = BYTE -> -128..127 [] type = SHORT -> I16 [] OTHER -> I32

IsNearest(f, v) ==
    LET unit == 2^f[2]
    IN  f[2] > 0 => (f[1] - v \div unit) * unit - (v % unit) \in -(unit \div 2)..(unit \div 2)

(* The same message as the one that was sent, read field by field.         *)
ReadBackFrom(arrived) ==
    LET As(f, type) == GetFieldAsPrimitive(InitialRegistry, f, type)
        ReadBack(f, v) ==
            /\ \A type \in {BYTE, SHORT, INT, LONG} :
                  As(f, type) = IF v \in Holds(type) THEN Ok(v)
                                ELSE Fail("INVALID_TYPE_COERCION")
            /\ As(f, DOUBLE) = Ok(<<v, 0>>) /\ As(f, BOOL) = Ok(IF v = 0 THEN 0 ELSE 1)
            /\ IsNearest(As(f, FLOAT).value, v)
            /\ \A type \in Numbers : GetFieldAs(InitialRegistry, f, type) =
                  IF type = f.type THEN Fail("COERCION_NOT_REQUIRED") ELSE As(f, type)
    IN  /\ \A i \in DOMAIN message : message[i].type \in {BYTE, SHORT, INT} =>
              ReadBack(GetFieldAtIndex(arrived, i - 1).value, message[i].data)
        /\ \A i \in DOMAIN message : LET f == message[i] IN
              /\ f.name # {} => GetFieldByName(arrived, f.name) =
                    Ok(message[Min({j \in DOMAIN message : message[j].name = f.name})])
              /\ f.ordinal # {} => GetFieldByOrdinal(arrived, The(f.ordinal)) =
                    Ok(message[Min({j \in DOMAIN message : message[j].ordinal = f.ordinal})])
        /\ (\A i \in DOMAIN message : message[i].ordinal # {0}) =>
              GetFieldByOrdinal(arrived, 0) = Fail("INVALID_ORDINAL")
        /\ \A n \in 0..(Len(message) + 1) : IsPrefix(GetFields(arrived, n), message)

(* An integer that was added with FudgeMsg_addFieldI32 is kept and sent in *)
(* the smallest type that holds it.  Whichever that is, the receiver reads *)
(* it as any type that can hold it, and as no other; as a Boolean, a       *)
(* double and the nearest float too.  It finds the first field of a name   *)
(* or of an ordinal by it, and no field by an ordinal of 0 that only       *)
(* stands for none.                                                        *)
NumbersReadBack == ReadBackFrom(DecodeMsg(EncodeMsg(envelope, message)).message)
=============================================================================
