---------------------------- MODULE ValueProofs -----------------------------
(***************************************************************************)
(* Values and messages, for every value.  What the codes of FieldCodes and *)
(* DateTimes make of integers, prefixes, lengths, dates and times is read  *)
(* back as it was written, but for those that are named; datetime.c rounds *)
(* and compares times as it says.  On these rest the theorems of           *)
(* WireFormat: a message of any depth is written in as many bytes as were  *)
(* measured, and is read back whole or not at all; and of Values: numbers, *)
(* times, dates and strings are compared, converted and read back as it    *)
(* states, for every value a client may have.  What these need of strings  *)
(* is in StringProofs.                                                     *)
(***************************************************************************)
EXTENDS Values, StringProofs

-----------------------------------------------------------------------------
(* Division by 256 takes off the last byte.                                *)
LEMMA LastByte ==
    ASSUME NEW x \in Int
    PROVE  /\ x \div 256 \in Int
           /\ x % 256 \in Byte
           /\ x = (x \div 256) * 256 + (x % 256)
BY SMT DEF Byte

(* The byte on top carries the sign.                                       *)
LEMMA TopByte ==
    ASSUME NEW x \in Between(-128, 127)
    PROVE  /\ x % 256 \in Byte
           /\ SignedByte(x % 256) = x
BY SMT DEF Byte, SignedByte, Between

(* Dividing by a power of 256 is dividing by 256 so many times.            *)
LEMMA ByteByByte ==
    ASSUME NEW v \in Int
    PROVE  /\ v \div 65536 = (v \div 256) \div 256
           /\ v \div 16777216 = (v \div 65536) \div 256
BY SMT

(* FudgeCodec_encodeI16 and the reading of a short: every 16-bit integer   *)
(* is two bytes, and is read back.                                         *)
THEOREM I16RoundTrip ==
    ASSUME NEW v \in I16
    PROVE  /\ EncodeI16(v) \in Byte \X Byte
           /\ DecodeI16(EncodeI16(v)) = v
<1>1. v \in Int /\ -32768 <= v /\ v <= 32767
  BY SMT DEF I16, Between
<1>2. v \div 256 \in Between(-128, 127)
  BY <1>1, SMT DEF Between
<1>3. v % 256 \in Byte /\ v = (v \div 256) * 256 + (v % 256)
  BY <1>1, LastByte, SMT
<1>4. (v \div 256) % 256 \in Byte /\ SignedByte((v \div 256) % 256) = v \div 256
  BY <1>2, TopByte, SMT
<1>5. DecodeI16(EncodeI16(v)) = SignedByte((v \div 256) % 256) * 256 + (v % 256)
  BY SMT DEF DecodeI16, EncodeI16
<1> QED
  BY <1>3, <1>4, <1>5, SMT DEF EncodeI16

(* The four bytes of a 32-bit integer, the first with its sign.            *)
LEMMA I32Bytes ==
    ASSUME NEW v \in I32
    PROVE  /\ v \in Int
           /\ v \div 16777216 \in Between(-128, 127)
           /\ v = (v \div 16777216) * 16777216 + ((v \div 65536) % 256) * 65536
                    + ((v \div 256) % 256) * 256 + (v % 256)
<1>1. v \in Int /\ -2147483647 - 1 <= v /\ v <= 2147483647
  BY SMT DEF I32, Between
<1>2. v \div 16777216 \in Between(-128, 127)
  BY <1>1, SMT DEF Between
<1>3. /\ v = (v \div 256) * 256 + (v % 256)
      /\ v \div 256 = (v \div 65536) * 256 + ((v \div 256) % 256)
      /\ v \div 65536 = (v \div 16777216) * 256 + ((v \div 65536) % 256)
  BY <1>1, LastByte, ByteByByte, SMT
<1> QED
  BY <1>1, <1>2, <1>3, SMT

(* FudgeCodec_encodeI32 and its decoder: every 32-bit integer is four      *)
(* bytes, and is read back.                                                *)
THEOREM I32RoundTrip ==
    ASSUME NEW v \in I32
    PROVE  /\ EncodeI32(v) \in Byte \X Byte \X Byte \X Byte
           /\ DecodeI32(EncodeI32(v)) = v
<1>1. /\ v \in Int /\ v % 256 \in Byte
      /\ (v \div 256) % 256 \in Byte /\ (v \div 65536) % 256 \in Byte
  BY I32Bytes, LastByte, SMTT(30) DEF Byte
<1>2. /\ (v \div 16777216) % 256 \in Byte
      /\ SignedByte((v \div 16777216) % 256) = v \div 16777216
  BY I32Bytes, TopByte, SMT
<1>3. DecodeI32(EncodeI32(v)) =
        SignedByte((v \div 16777216) % 256) * 16777216 + ((v \div 65536) % 256) * 65536
          + ((v \div 256) % 256) * 256 + (v % 256)
  BY SMT DEF DecodeI32, EncodeI32
<1>4. DecodeI32(EncodeI32(v)) = v
  BY <1>2, <1>3, I32Bytes, SMT
<1> QED
  BY <1>1, <1>2, <1>4, SMT DEF EncodeI32

(* As a sequence, an encoded 32-bit integer is four bytes long.            *)
LEMMA I32Word ==
    ASSUME NEW v \in I32
    PROVE  EncodeI32(v) \in Seq(Byte) /\ Len(EncodeI32(v)) = 4
<1>1. \A a, b, c, d \in Byte : <<a, b, c, d>> \in Seq(Byte) /\ Len(<<a, b, c, d>>) = 4
  BY SMT
<1>2. PICK a \in Byte, b \in Byte, c \in Byte, d \in Byte : EncodeI32(v) = <<a, b, c, d>>
  <2>1. EncodeI32(v) \in Byte \X Byte \X Byte \X Byte
    BY I32RoundTrip, SMT
  <2> QED  BY <2>1, SMT
<1> QED
  BY <1>1, <1>2, SMT

(* FudgePrefix_encode and FudgePrefix_decode: every prefix the encoder     *)
(* builds fits one byte and is read back.                                  *)
THEOREM PrefixRoundTrip ==
    ASSUME NEW p \in FieldPrefixes
    PROVE  /\ EncodePrefix(p) \in Byte
           /\ DecodePrefix(EncodePrefix(p)) = p
BY SMTT(60) DEF FieldPrefixes, Byte, EncodePrefix, DecodePrefix

(* FudgeCodec_encodeFieldLength and FudgeHeader_getFieldWidth: a length    *)
(* takes as many bytes as the prefix announces, and is read back.          *)
THEOREM LengthRoundTrip ==
    ASSUME NEW n \in Between(0, 2147483647)
    PROVE  /\ Len(EncodeLength(n)) = BytesToHoldSize(n)
           /\ DecodeLength(EncodeLength(n)) = n
<1>1. n \in Int /\ 0 <= n /\ n <= 2147483647
  BY SMT DEF Between
<1>2. CASE n < 256
  BY <1>1, <1>2, SMT DEF EncodeLength, DecodeLength, BytesToHoldSize
<1>3. CASE n >= 256 /\ n < 32768
  <2>1. BytesToHoldSize(n) = 2 /\ EncodeLength(n) = EncodeI16(n)
    BY <1>1, <1>3, SMT DEF EncodeLength, BytesToHoldSize
  <2>2. n \div 256 \in 0..127 /\ (n \div 256) % 256 = n \div 256
    BY <1>1, <1>3, SMT
  <2>3. n = (n \div 256) * 256 + (n % 256)
    BY <1>1, LastByte, SMT
  <2> QED
    BY <2>1, <2>2, <2>3, SMT DEF EncodeI16, DecodeLength
<1>4. CASE n >= 32768
  <2>1. BytesToHoldSize(n) = 4 /\ EncodeLength(n) = EncodeI32(n)
    BY <1>1, <1>4, SMT DEF EncodeLength, BytesToHoldSize
  <2>2. n \in I32
    BY <1>1, SMT DEF I32, Between
  <2>3. Len(EncodeI32(n)) = 4
    BY SMT DEF EncodeI32
  <2>4. DecodeLength(EncodeI32(n)) = DecodeI32(EncodeI32(n))
    BY <2>3, SMT DEF DecodeLength
  <2> QED
    BY <2>1, <2>2, <2>3, <2>4, I32RoundTrip, SMT
<1> QED
  BY <1>1, <1>2, <1>3, <1>4, SMT

(* A year, a month and a day in their 23, 4 and 5 bits.                    *)
LEMMA PackedDate ==
    ASSUME NEW y \in Between(-4194304, 4194303),
           NEW m \in Between(0, 15), NEW d \in Between(0, 31)
    PROVE  LET v == y * 512 + m * 32 + d
           IN  /\ v \in I32
               /\ v \div 512 = y
               /\ (v \div 32) % 16 = m
               /\ v % 32 = d
<1> DEFINE v == y * 512 + m * 32 + d
<1>1. /\ y \in Int /\ -4194304 <= y /\ y <= 4194303
      /\ m \in Int /\ 0 <= m /\ m <= 15 /\ d \in Int /\ 0 <= d /\ d <= 31
  BY SMT DEF Between
<1>2. v \in I32
  BY <1>1, SMT DEF I32, Between
<1>3. v \div 512 = y /\ v \div 32 = y * 16 + m /\ v % 32 = d
  BY <1>1, SMT
<1>4. (y * 16 + m) % 16 = m
  BY <1>1, SMT
<1> QED
  BY <1>2, <1>3, <1>4, SMT

(* FudgeCodec_encodeFieldDate and FudgeCodec_decodeFieldDate: a date whose *)
(* year fits in 23 bits is read back.                                      *)
THEOREM DateRoundTrip ==
    ASSUME NEW d \in Dates, d.year \in Between(-4194304, 4194303)
    PROVE  UnpackDate(PackDate(d)) = d
<1> DEFINE v == d.year * 512 + d.month * 32 + d.day
<1>1. /\ d.month \in Between(0, 15) /\ d.day \in Between(0, 31)
      /\ d.month % 16 = d.month /\ d.day % 32 = d.day
      /\ d = [year |-> d.year, month |-> d.month, day |-> d.day]
  BY SMT DEF Dates, Between
<1>2. Year23(d.year) = d.year
  BY SMT DEF Year23, Between
<1>3. /\ v \in I32 /\ v \div 512 = d.year
      /\ (v \div 32) % 16 = d.month /\ v % 32 = d.day
  BY <1>1, PackedDate, SMT
<1>4. DecodeI32(PackDate(d)) = v
  BY <1>1, <1>2, <1>3, I32RoundTrip, SMT DEF PackDate
<1> QED
  BY <1>1, <1>3, <1>4, SMT DEF UnpackDate

(* The years FudgeDate_initialise accepts beyond that come back as others. *)
THEOREM DateYearLost ==
    ASSUME NEW d \in Dates, d.year \notin Between(-4194304, 4194303)
    PROVE  UnpackDate(PackDate(d)).year # d.year
<1> DEFINE y == Year23(d.year)
           v == y * 512 + d.month * 32 + d.day
<1>1. /\ d.month \in Between(0, 15) /\ d.day \in Between(0, 31)
      /\ d.month % 16 = d.month /\ d.day % 32 = d.day /\ d.year \in Int
  BY SMT DEF Dates, Between
<1>2. y \in Between(-4194304, 4194303)
  BY <1>1, SMT DEF Year23, Between
<1>3. v \in I32 /\ v \div 512 = y
  <2> HIDE DEF y
  <2> QED  BY <1>1, <1>2, PackedDate, SMT
<1>4. DecodeI32(PackDate(d)) = v
  <2>1. PackDate(d) = EncodeI32(v)
    BY <1>1, SMT DEF PackDate
  <2> QED  BY <2>1, <1>3, I32RoundTrip, SMT
<1>5. UnpackDate(PackDate(d)).year = y
  BY <1>3, <1>4, SMT DEF UnpackDate
<1> QED
  BY <1>2, <1>5

(* A zone, a precision and seconds in the first half of a time.            *)
LEMMA PackedTime ==
    ASSUME NEW z \in Between(-128, 127), NEW p \in Between(0, 15),
           NEW s \in Between(0, 131071)
    PROVE  LET v == z * 16777216 + p * 1048576 + s
           IN  /\ v \in I32
               /\ v \div 16777216 = z
               /\ (v \div 1048576) % 16 = p
               /\ v % 131072 = s
<1> DEFINE v == z * 16777216 + p * 1048576 + s
<1>1. /\ z \in Int /\ -128 <= z /\ z <= 127
      /\ p \in Int /\ 0 <= p /\ p <= 15 /\ s \in Int /\ 0 <= s /\ s <= 131071
  BY SMT DEF Between
<1>2. v \in I32
  BY <1>1, SMT DEF I32, Between
<1>3. v \div 16777216 = z /\ v \div 1048576 = z * 16 + p
  BY <1>1, SMT
<1>4. v % 131072 = s
  BY <1>1, SMT
<1>5. (z * 16 + p) % 16 = p
  BY <1>1, SMT
<1> QED
  BY <1>2, <1>3, <1>4, <1>5, SMT

(* The two 32-bit words of a time.                                         *)
LEMMA TwoWords ==
    ASSUME NEW S, NEW s \in Seq(S), NEW t \in Seq(S), Len(s) = 4, Len(t) = 4
    PROVE  SubSeq(s \o t, 1, 4) = s /\ SubSeq(s \o t, 5, 8) = t
<1> DEFINE c == s \o t
<1>1. /\ c \in Seq(S) /\ Len(c) = 8
      /\ \A i \in 1..8 : c[i] = IF i <= 4 THEN s[i] ELSE t[i - 4]
  <2>1. /\ c \in Seq(S) /\ Len(c) = Len(s) + Len(t)
        /\ \A i \in 1..(Len(s) + Len(t)) :
              c[i] = IF i <= Len(s) THEN s[i] ELSE t[i - Len(s)]
    BY ConcatProperties, Zenon
  <2>2. Len(s) + Len(t) = 8
    BY SMT
  <2> HIDE DEF c
  <2> QED  BY <2>1, <2>2, SMT
<1>2. \A i \in 1..8 : c[i] \in S
  BY <1>1, SMT
<1> HIDE DEF c
<1>3. /\ SubSeq(c, 1, 4) \in Seq(S) /\ Len(SubSeq(c, 1, 4)) = 4
      /\ \A i \in 1..4 : SubSeq(c, 1, 4)[i] = c[i]
  <2>1. \A i \in 1..4 : c[i] \in S
    BY <1>2, SMT
  <2> QED  BY <2>1, SubSeqProperties, SMT
<1>4. /\ SubSeq(c, 5, 8) \in Seq(S) /\ Len(SubSeq(c, 5, 8)) = 4
      /\ \A i \in 1..4 : SubSeq(c, 5, 8)[i] = c[i + 4]
  <2>1. \A i \in 5..8 : c[i] \in S
    BY <1>2, SMT
  <2> QED  BY <2>1, SubSeqProperties, SMT
<1>5. \A i \in 1..4 : SubSeq(c, 1, 4)[i] = s[i]
  BY <1>1, <1>3, SMT
<1>6. \A i \in 1..4 : SubSeq(c, 5, 8)[i] = t[i]
  BY <1>1, <1>4, SMT
<1>7. SubSeq(c, 1, 4) = s
  BY <1>3, <1>5, SeqEqual, SMT
<1>8. SubSeq(c, 5, 8) = t
  BY <1>4, <1>6, SeqEqual, SMT
<1> QED
  BY <1>7, <1>8 DEF c

(* FudgeCodec_encodeFieldTime and FudgeCodec_decodeFieldTime: a time is    *)
(* read back, but for a zone of -128, which is the mark for no zone, and   *)
(* for 2^30 nanoseconds.                                                   *)
THEOREM TimeRoundTrip ==
    ASSUME NEW t \in Times, t.nanoseconds # TwoTo30,
           t.hasTimezone => t.timezoneOffset # NoZone,
           ~t.hasTimezone => t.timezoneOffset = 0
    PROVE  UnpackTime(PackTime(t)) = t
<1> DEFINE z  == IF t.hasTimezone THEN t.timezoneOffset ELSE NoZone
           hi == z * 16777216 + t.precision * 1048576 + t.seconds
           b  == PackTime(t)
<1>1. /\ z \in Between(-128, 127) /\ t.precision \in Between(0, 15)
      /\ t.precision % 16 = t.precision
      /\ t.seconds \in Between(0, 131071) /\ t.seconds % 131072 = t.seconds
  BY SMT DEF Times, Between, NoZone
<1>2. /\ t.nanoseconds % TwoTo30 = t.nanoseconds
      /\ t.nanoseconds \in I32
  BY SMT DEF Times, Between, I32, TwoTo30
<1>3. /\ hi \in I32 /\ hi \div 16777216 = z
      /\ (hi \div 1048576) % 16 = t.precision /\ hi % 131072 = t.seconds
  <2> HIDE DEF z
  <2> QED  BY <1>1, PackedTime, SMT
<1>4. b = EncodeI32(hi) \o EncodeI32(t.nanoseconds)
  BY <1>1, <1>2, SMTT(30) DEF PackTime
<1>5. SubSeq(b, 1, 4) = EncodeI32(hi) /\ SubSeq(b, 5, 8) = EncodeI32(t.nanoseconds)
  <2>1. \A v \in I32 : EncodeI32(v) \in Seq(Byte) /\ Len(EncodeI32(v)) = 4
    BY I32Word, SMT
  <2>2. hi \in I32 /\ t.nanoseconds \in I32
    BY <1>2, <1>3, SMT
  <2> HIDE DEF hi, b
  <2> QED  BY <1>4, <2>1, <2>2, TwoWords
<1>6. DecodeI32(SubSeq(b, 1, 4)) = hi /\ DecodeI32(SubSeq(b, 5, 8)) = t.nanoseconds
  <2>1. hi \in I32 /\ t.nanoseconds \in I32
    BY <1>2, <1>3, SMT
  <2> HIDE DEF hi, b
  <2> QED  BY <1>5, <2>1, I32RoundTrip
<1>7. t = [hasTimezone |-> t.hasTimezone, timezoneOffset |-> t.timezoneOffset,
           precision |-> t.precision, seconds |-> t.seconds,
           nanoseconds |-> t.nanoseconds]
  BY SMT DEF Times
<1>8. /\ (z # NoZone) = t.hasTimezone
      /\ (IF z # NoZone THEN z ELSE 0) = t.timezoneOffset
  BY SMT DEF Times, NoZone
<1> QED
  BY <1>1, <1>2, <1>3, <1>6, <1>7, <1>8, SMT DEF UnpackTime

-----------------------------------------------------------------------------
(* A year is cut to a multiple of 100 or 1000, towards the year 0 on both  *)
(* sides of it.                                                            *)
LEMMA YearInSteps ==
    ASSUME NEW year \in Int, NEW p \in Precisions, NEW q \in Precisions, q <= p
    PROVE  RoundYear(RoundYear(year, p), q) = RoundYear(year, q)
<1>1. ASSUME p = CENTURY, q = MILLENNIUM
      PROVE  RoundYear(RoundYear(year, p), q) = RoundYear(year, q)
  <2> DEFINE c == year - Rem(year, 100)
  <2>1. c \in Int /\ c - Rem(c, 1000) = year - Rem(year, 1000)
    BY SMT DEF Rem
  <2> QED
    BY <1>1, <2>1, SMT DEF RoundYear, CENTURY, MILLENNIUM
<1>2. ASSUME p = q
      PROVE  RoundYear(RoundYear(year, p), q) = RoundYear(year, q)
  BY <1>2, SMT DEF RoundYear, Rem, CENTURY, MILLENNIUM
<1>3. ASSUME p \notin {MILLENNIUM, CENTURY}
      PROVE  RoundYear(RoundYear(year, p), q) = RoundYear(year, q)
  BY <1>3, SMT DEF RoundYear
<1> QED
  BY <1>1, <1>2, <1>3, SMT DEF Precisions, CENTURY, MILLENNIUM

(* Seconds are cut to minutes, hours and days, ...                         *)
LEMMA SecondsInSteps ==
    ASSUME NEW s \in Nat, NEW p \in Precisions, NEW q \in Precisions, q <= p
    PROVE  RoundSeconds(RoundSeconds(s, p), q) = RoundSeconds(s, q)
BY SMT DEF RoundSeconds, Precisions, DAY, HOUR, MINUTE

(* ... and nanoseconds to micro- and milliseconds, and seconds.            *)
LEMMA NanosecondsInSteps ==
    ASSUME NEW n \in Nat, NEW p \in Precisions, NEW q \in Precisions, q <= p
    PROVE  RoundNanoseconds(RoundNanoseconds(n, p), q) = RoundNanoseconds(n, q)
BY SMT DEF RoundNanoseconds, Precisions, SECOND, MILLISECOND, MICROSECOND

(* What FudgeDateTime_initialise stores are its rounded arguments.         *)
LEMMA StoredRounded ==
    ASSUME NEW year \in Int, NEW month \in Nat, NEW day \in Nat, NEW seconds \in Nat,
           NEW nanoseconds \in Nat, NEW precision \in Precisions, NEW zone,
           DateTimeInitialise(year, month, day, seconds, nanoseconds,
                              precision, zone).status = "OK"
    PROVE  LET value == DateTimeInitialise(year, month, day, seconds, nanoseconds,
                                           precision, zone).value
           IN  /\ value.date = [year  |-> RoundYear(year, precision),
                                month |-> IF precision <= YEAR THEN 0 ELSE month,
                                day   |-> IF precision <= MONTH THEN 0 ELSE day]
               /\ value.time.seconds = RoundSeconds(seconds, precision)
               /\ value.time.nanoseconds = RoundNanoseconds(nanoseconds, precision)
<1> DEFINE date == DateInitialise(RoundYear(year, precision),
                                  IF precision <= YEAR THEN 0 ELSE month,
                                  IF precision <= MONTH THEN 0 ELSE day)
           time == TimeInitialise(seconds, nanoseconds, precision, zone)
<1>1. date.status = "OK" /\ time.status = "OK"
  BY Zenon DEF DateTimeInitialise
<1>2. DateTimeInitialise(year, month, day, seconds, nanoseconds, precision, zone)
          = Ok([date |-> date.value, time |-> time.value])
  BY <1>1, Zenon DEF DateTimeInitialise
<1>3. date.value = [year  |-> RoundYear(year, precision),
                    month |-> IF precision <= YEAR THEN 0 ELSE month,
                    day   |-> IF precision <= MONTH THEN 0 ELSE day]
  BY <1>1, SMT DEF DateInitialise, Ok, Fail
<1>4. /\ time.value.seconds = RoundSeconds(seconds, precision)
      /\ time.value.nanoseconds = RoundNanoseconds(nanoseconds, precision)
  BY <1>1, SMT DEF TimeInitialise, Ok, Fail
<1> HIDE DEF date, time
<1> QED
  BY <1>2, <1>3, <1>4, SMT DEF Ok

(* A date and time kept at one precision and then cut to a coarser one is  *)
(* the one made at the coarser precision from the start, and is refused    *)
(* exactly when that is: FudgeDateTime_initialise called with what an      *)
(* earlier call has stored.                                                *)
THEOREM RoundingInSteps ==
    ASSUME NEW year \in Int, NEW month \in Nat, NEW day \in Nat, NEW seconds \in Nat,
           NEW nanoseconds \in Nat, NEW p \in Precisions, NEW q \in Precisions, q <= p,
           NEW zone, NEW newZone,
           DateTimeInitialise(year, month, day, seconds, nanoseconds, p, zone).status = "OK"
    PROVE  LET kept == DateTimeInitialise(year, month, day, seconds, nanoseconds,
                                          p, zone).value
           IN  DateTimeInitialise(kept.date.year, kept.date.month, kept.date.day,
                                  kept.time.seconds, kept.time.nanoseconds, q, newZone)
                   = DateTimeInitialise(year, month, day, seconds, nanoseconds, q, newZone)
<1> DEFINE kept == DateTimeInitialise(year, month, day, seconds, nanoseconds, p, zone).value
<1>1. /\ kept.date.year = RoundYear(year, p)
      /\ kept.date.month = IF p <= YEAR THEN 0 ELSE month
      /\ kept.date.day = IF p <= MONTH THEN 0 ELSE day
      /\ kept.time.seconds = RoundSeconds(seconds, p)
      /\ kept.time.nanoseconds = RoundNanoseconds(nanoseconds, p)
  <2> HIDE DEF kept
  <2>1. /\ kept.date = [year  |-> RoundYear(year, p),
                        month |-> IF p <= YEAR THEN 0 ELSE month,
                        day   |-> IF p <= MONTH THEN 0 ELSE day]
        /\ kept.time.seconds = RoundSeconds(seconds, p)
        /\ kept.time.nanoseconds = RoundNanoseconds(nanoseconds, p)
    BY StoredRounded DEF kept
  <2> QED
    BY <2>1, SMTT(30)
<1> HIDE DEF kept
<1>2. /\ RoundYear(kept.date.year, q) = RoundYear(year, q)
      /\ RoundSeconds(kept.time.seconds, q) = RoundSeconds(seconds, q)
      /\ RoundNanoseconds(kept.time.nanoseconds, q) = RoundNanoseconds(nanoseconds, q)
  <2>1. RoundYear(RoundYear(year, p), q) = RoundYear(year, q)
    BY YearInSteps
  <2>2. RoundSeconds(RoundSeconds(seconds, p), q) = RoundSeconds(seconds, q)
    BY SecondsInSteps
  <2>3. RoundNanoseconds(RoundNanoseconds(nanoseconds, p), q) = RoundNanoseconds(nanoseconds, q)
    BY NanosecondsInSteps
  <2> QED
    BY <1>1, <2>1, <2>2, <2>3, Zenon
<1>3. /\ (IF q <= YEAR THEN 0 ELSE kept.date.month) = (IF q <= YEAR THEN 0 ELSE month)
      /\ (IF q <= MONTH THEN 0 ELSE kept.date.day) = (IF q <= MONTH THEN 0 ELSE day)
  BY <1>1, SMT DEF Precisions, YEAR, MONTH
<1>4. TimeInitialise(kept.time.seconds, kept.time.nanoseconds, q, newZone)
          = TimeInitialise(seconds, nanoseconds, q, newZone)
  BY <1>2, SMT DEF TimeInitialise
<1> QED
  BY <1>2, <1>3, <1>4, ZenonT(40) DEF DateTimeInitialise, kept

-----------------------------------------------------------------------------
(* The times of FudgeTime_initialiseWithTimezone, but those whose zone     *)
(* leads back by more than a day.                                          *)
Ordered(t) ==
    /\ t.seconds \in Nat /\ t.nanoseconds \in Nat
    /\ t.hasTimezone \in BOOLEAN /\ t.timezoneOffset \in -128..127
    /\ WithOffset(t) >= -86400

(* The adjusted second and the flag stand for the sum with the offset.     *)
LEMMA AdjustedIsSum ==
    ASSUME NEW t, Ordered(t)
    PROVE  LET a == AdjustedSeconds(t)
           IN  /\ a.previousDay \in BOOLEAN /\ a.seconds \in Nat
               /\ a.previousDay <=> WithOffset(t) < 0
               /\ a.seconds = WithOffset(t) + (IF a.previousDay THEN 86400 ELSE 0)
               /\ WithOffset(t) \in Int
<1> DEFINE adjusted == t.timezoneOffset * 15 * 60
<1>1. /\ t.seconds \in Nat /\ t.hasTimezone \in BOOLEAN /\ t.timezoneOffset \in Int
      /\ WithOffset(t) >= -86400
  BY SMT DEF Ordered
<1>2. adjusted \in Int /\ adjusted = 900 * t.timezoneOffset
  BY <1>1, SMT
<1> DEFINE back == t.hasTimezone /\ adjusted < 0 /\ -adjusted > t.seconds
           seconds == IF ~t.hasTimezone THEN t.seconds
                      ELSE IF back THEN 86400 - (-adjusted - t.seconds)
                      ELSE t.seconds + adjusted
<1>3. AdjustedSeconds(t) = [previousDay |-> back, seconds |-> seconds]
  BY DEF AdjustedSeconds
<1>4. AdjustedSeconds(t).previousDay = back /\ AdjustedSeconds(t).seconds = seconds
  <2> HIDE DEF adjusted, back, seconds
  <2> QED
    BY <1>3
<1>5. WithOffset(t) = t.seconds + (IF t.hasTimezone THEN adjusted ELSE 0)
  BY <1>2, SMT DEF WithOffset
<1>6. back \in BOOLEAN /\ (back <=> WithOffset(t) < 0) /\ WithOffset(t) \in Int
  BY <1>1, <1>2, <1>5, SMT
<1>7. ~t.hasTimezone => ~back
  OBVIOUS
<1> HIDE DEF adjusted, back
<1>8. /\ AdjustedSeconds(t).seconds = WithOffset(t) + (IF back THEN 86400 ELSE 0)
      /\ AdjustedSeconds(t).seconds \in Nat
  BY <1>1, <1>2, <1>4, <1>5, <1>6, <1>7, SMT
<1> QED
  BY <1>4, <1>6, <1>8

(* FudgeTime_compare of two times is the comparison of their seconds with  *)
(* the offset of the zone added, on whichever of two days that sum is, and *)
(* of their nanoseconds where those are the same.  The code adds; by the   *)
(* meaning fudge/types.h gives the offset it would have to subtract.       *)
THEOREM ComparesWithOffset ==
    ASSUME NEW l, NEW r, Ordered(l), Ordered(r)
    PROVE  TimeCompare({l}, {r}) = FirstOf(Sign(WithOffset(l), WithOffset(r)),
                                           Sign(l.nanoseconds, r.nanoseconds))
<1> DEFINE a == AdjustedSeconds(l)
           b == AdjustedSeconds(r)
<1>1. The({l}) = l /\ The({r}) = r
  BY DEF The
<1>2. TimeCompare({l}, {r}) =
          CASE a.previousDay /\ ~b.previousDay -> -1
            [] b.previousDay /\ ~a.previousDay -> 1
            [] OTHER -> FirstOf(UnsignedSign(a.seconds, b.seconds),
                                Sign(l.nanoseconds, r.nanoseconds))
  BY <1>1, Zenon DEF TimeCompare, NullsFirst
<1>3. /\ a.previousDay \in BOOLEAN /\ a.seconds \in Nat
      /\ a.previousDay <=> WithOffset(l) < 0
      /\ a.seconds = WithOffset(l) + (IF a.previousDay THEN 86400 ELSE 0)
      /\ WithOffset(l) \in Int
  BY AdjustedIsSum
<1>4. /\ b.previousDay \in BOOLEAN /\ b.seconds \in Nat
      /\ b.previousDay <=> WithOffset(r) < 0
      /\ b.seconds = WithOffset(r) + (IF b.previousDay THEN 86400 ELSE 0)
      /\ WithOffset(r) \in Int
  BY AdjustedIsSum
<1> HIDE DEF a, b
<1> QED
  BY <1>2, <1>3, <1>4, SMT DEF UnsignedSign, Sign, FirstOf, Ordered

-----------------------------------------------------------------------------
(* Sums of sizes, and the sizes of fields.                                 *)

(* Sums is what its definition says.                                       *)
LEMMA SumsStepByStep ==
    ASSUME NEW sizes \in Seq(Nat)
    PROVE  /\ Sums(sizes) \in [0..Len(sizes) -> Nat]
           /\ Sums(sizes)[0] = 0
           /\ \A n \in 1..Len(sizes) : Sums(sizes)[n] = Sums(sizes)[n - 1] + sizes[n]
<1> DEFINE S == 0..Len(sizes)
           Next1(g, n) == IF n = 0 THEN 0 ELSE g[n - 1] + sizes[n]
           F == [g \in [S -> Nat] |-> [n \in S |-> Next1(g, n)]]
           sums == Sums(sizes)
           mu == [n \in S |-> n]
<1>1. Len(sizes) \in Nat /\ S \subseteq Nat
  OBVIOUS
<1>2. \A n \in S : n # 0 => n - 1 \in S /\ n \in 1..Len(sizes) /\ sizes[n] \in Nat
  BY <1>1
<1>3. \A g \in [S -> Nat] : \A n \in S : Next1(g, n) \in Nat
  <2> TAKE g \in [S -> Nat]
  <2> TAKE n \in S
  <2> HIDE DEF S
  <2> QED BY <1>2
<1>4. F \in [[S -> Nat] -> [S -> Nat]]
  <2> HIDE DEF S, Next1
  <2> QED BY <1>3
<1>5. \A n \in S : \A g, h \in [S -> Nat] :
          (\A k \in S : mu[k] < mu[n] => g[k] = h[k]) => F[g][n] = F[h][n]
  <2> TAKE n \in S
  <2> TAKE g, h \in [S -> Nat]
  <2> HAVE \A k \in S : mu[k] < mu[n] => g[k] = h[k]
  <2>1. n # 0 => n - 1 \in S /\ mu[n - 1] < mu[n]
    BY <1>2, <1>1
  <2>2. Next1(g, n) = Next1(h, n)
    <3> HIDE DEF S
    <3> QED BY <2>1
  <2> HIDE DEF S, Next1
  <2> QED BY <2>2
<1>6. PICK f \in [S -> Nat] : F[f] = f
  <2>1. S \subseteq Nat /\ Nat # {}
    BY <1>1
  <2>2. mu \in [S -> Nat]
    BY <2>1
  <2> HIDE DEF S, F, mu
  <2>3. DependsBelow(S, mu, Nat, F)
    BY <2>1, <2>2, <1>4, <1>5 DEF DependsBelow
  <2> QED BY <2>3, Recursion
<1>7. f = [n \in S |-> Next1(f, n)]
  <2> HIDE DEF S, Next1
  <2> QED BY <1>6
<1>8. sums = [n \in S |-> Next1(sums, n)]
  <2>1. sums = CHOOSE sum : sum = [n \in S |-> Next1(sum, n)]
    BY DEF Sums
  <2> HIDE DEF S, Next1, sums
  <2> QED BY <1>7, <2>1
<1> HIDE DEF sums
<1>9. \A n \in S : sums[n] \in Nat
  <2> DEFINE T == {n \in S : sums[n] \notin Nat}
  <2> SUFFICES ASSUME T # {} PROVE FALSE
    OBVIOUS
  <2>1. PICK n \in T : \A k \in T : n <= k
    <3>1. T \in SUBSET Nat
      BY <1>1
    <3> HIDE DEF T
    <3> QED BY <3>1, Least
  <2>2. n # 0 => n - 1 \in S /\ sizes[n] \in Nat /\ ~(n <= n - 1)
    BY <1>1, <1>2
  <2>3. n # 0 => sums[n - 1] \in Nat
    BY <2>1, <2>2
  <2>4. sums[n] = Next1(sums, n)
    BY <1>8
  <2>5. n \in S /\ sums[n] \notin Nat
    OBVIOUS
  <2> QED
    BY <2>2, <2>3, <2>4, <2>5
<1>10. sums \in [S -> Nat]
  <2> HIDE DEF S, Next1
  <2> QED BY <1>8, <1>9
<1>11. sums[0] = 0
  BY <1>8, <1>1
<1>12. \A n \in 1..Len(sizes) : sums[n] = sums[n - 1] + sizes[n]
  BY <1>8, <1>1, SMTT(30)
<1> QED
  BY <1>10, <1>11, <1>12 DEF sums

(* The sum of the first ones is at most that of all.                       *)
LEMMA SumsGrow ==
    ASSUME NEW sizes \in Seq(Nat)
    PROVE  /\ Total(sizes) \in Nat
           /\ \A n \in 0..Len(sizes) : Sums(sizes)[n] <= Total(sizes)
<1> DEFINE len == Len(sizes)
           sums == Sums(sizes)
           T == {d \in Nat : d <= len /\ sums[len] < sums[len - d]}
<1>1. len \in Nat
  OBVIOUS
<1>2. /\ \A n \in 0..len : sums[n] \in Nat
      /\ \A n \in 1..len : sums[n] = sums[n - 1] + sizes[n]
  BY SumsStepByStep
<1>3. \A n \in 1..len : sizes[n] \in Nat
  OBVIOUS
<1> HIDE DEF len, sums
<1>4. T = {}
  <2> SUFFICES ASSUME T # {} PROVE FALSE
    OBVIOUS
  <2>1. PICK d \in T : \A e \in T : d <= e
    <3>1. T \in SUBSET Nat
      OBVIOUS
    <3> HIDE DEF T
    <3> QED BY <3>1, Least
  <2>2. d \in Nat /\ d <= len /\ sums[len] < sums[len - d]
    OBVIOUS
  <2>3. sums[len] \in Nat
    BY <1>1, <1>2
  <2>4. d # 0
    BY <2>2, <2>3, <1>1
  <2>5. d - 1 \in Nat /\ d - 1 <= len /\ ~(d <= d - 1) /\ len - d + 1 \in 1..len
    BY <2>2, <2>4, <1>1
  <2>6. ~(sums[len] < sums[len - (d - 1)])
    BY <2>1, <2>5
  <2>7. len - (d - 1) = len - d + 1 /\ (len - d + 1) - 1 = len - d /\ len - d \in 0..len
    BY <2>2, <2>5, <1>1
  <2>8. sums[len - d + 1] = sums[len - d] + sizes[len - d + 1]
    BY <2>5, <2>7, <1>2
  <2>9. sums[len - d + 1] \in Nat /\ sums[len - d] \in Nat /\ sizes[len - d + 1] \in Nat
    BY <2>5, <2>7, <1>1, <1>2, <1>3
  <2> QED
    BY <2>2, <2>3, <2>6, <2>7, <2>8, <2>9, SMTT(30)
<1>5. ASSUME NEW n \in 0..len PROVE sums[n] <= sums[len]
  <2>1. len - n \in Nat /\ len - n <= len /\ len - (len - n) = n
    BY <1>1
  <2>2. ~(sums[len] < sums[n])
    BY <2>1, <1>4
  <2> QED
    BY <2>2, <1>1, <1>2
<1> QED
  BY <1>1, <1>2, <1>5 DEF Total, len, sums

(* The length of what FlattenSeq makes is the sum of those it is given.    *)
LEMMA FlattenedLength ==
    ASSUME NEW S, NEW s \in Seq(Seq(S)), NEW sizes \in Seq(Nat), Len(sizes) = Len(s),
           \A i \in 1..Len(s) : Len(s[i]) = sizes[i]
    PROVE  FlattenSeq(s) \in Seq(S) /\ Len(FlattenSeq(s)) = Total(sizes)
<1> DEFINE n == Len(s)
<1>1. n \in Nat /\ \A i \in 1..n : s[i] \in Seq(S)
  BY ElementOfSeq
<1>2. PICK front, behind : Cut(S, s, front, behind)
  BY Flattened
<1>3. /\ front \in [0..n -> Seq(S)] /\ behind \in [0..n -> Seq(S)]
      /\ front[0] = <<>> /\ behind[n] = <<>>
      /\ \A i \in 1..n : front[i] = front[i - 1] \o s[i] /\ behind[i - 1] = s[i] \o behind[i]
      /\ \A i \in 0..n : front[i] \o behind[i] = FlattenSeq(s)
  BY <1>2 DEF Cut
<1> DEFINE T == {i \in 0..n : Len(front[i]) = Sums(sizes)[i]}
<1>11. /\ Sums(sizes)[0] = 0
      /\ \A i \in 1..n : Sums(sizes)[i] = Sums(sizes)[i - 1] + sizes[i]
  BY SumsStepByStep
<1>4. 0 \in T
  BY <1>1, <1>3, <1>11, EmptySeq
<1>5. ASSUME NEW i \in 1..n, i - 1 \in T PROVE i \in T
  <2>1. i - 1 \in 0..n /\ i \in 0..n
    BY <1>1
  <2>2. front[i - 1] \in Seq(S) /\ s[i] \in Seq(S)
    BY <1>1, <1>3, <2>1
  <2>3. Len(front[i - 1] \o s[i]) = Len(front[i - 1]) + Len(s[i])
    BY <2>2, ConcatProperties
  <2>4. Len(front[i - 1]) = Sums(sizes)[i - 1]
    BY <1>5
  <2>5. front[i] = front[i - 1] \o s[i]
    BY <1>3
  <2>6. Len(front[i]) = Sums(sizes)[i]
    BY <1>11, <2>3, <2>4, <2>5
  <2> QED BY <2>1, <2>6
<1>6. n \in T
  <2>1. 0..n \subseteq T
    <3> HIDE DEF T
    <3> QED BY <1>1, <1>4, <1>5, Upwards
  <2> HIDE DEF T
  <2> QED BY <1>1, <2>1
<1>7. front[n] \in Seq(S) /\ front[n] \o <<>> = FlattenSeq(s)
  <2>1. n \in 0..n
    BY <1>1
  <2> QED BY <1>3, <2>1
<1>8. front[n] = FlattenSeq(s)
  BY <1>7, ConcatEmptySeq
<1> QED
  BY <1>6, <1>7, <1>8 DEF Total

(* The elements of an array, each in w bytes.                              *)
LEMMA Chunked ==
    ASSUME NEW S, NEW s \in Seq(Seq(S)), NEW w \in {2, 4, 8},
           \A i \in 1..Len(s) : Len(s[i]) = w
    PROVE  /\ FlattenSeq(s) \in Seq(S)
           /\ Len(FlattenSeq(s)) = w * Len(s)
           /\ \A i \in 1..Len(s) :
                 \E rest \in Seq(S) : From(FlattenSeq(s), (i - 1) * w) = s[i] \o rest
<1> DEFINE n == Len(s)
<1>1. n \in Nat /\ \A i \in 1..n : s[i] \in Seq(S)
  BY ElementOfSeq
<1>2. PICK front, behind : Cut(S, s, front, behind)
  BY Flattened
<1>3. /\ front \in [0..n -> Seq(S)] /\ behind \in [0..n -> Seq(S)]
      /\ front[0] = <<>> /\ behind[n] = <<>>
      /\ \A i \in 1..n : front[i] = front[i - 1] \o s[i] /\ behind[i - 1] = s[i] \o behind[i]
      /\ \A i \in 0..n : front[i] \o behind[i] = FlattenSeq(s)
  BY <1>2 DEF Cut
<1> DEFINE T == {i \in 0..n : Len(front[i]) = w * i}
<1>4. 0 \in T
  BY <1>1, <1>3, EmptySeq
<1>5. ASSUME NEW i \in 1..n, i - 1 \in T PROVE i \in T
  <2>1. i - 1 \in 0..n /\ i \in 0..n
    BY <1>1
  <2>2. front[i - 1] \in Seq(S) /\ s[i] \in Seq(S)
    BY <1>1, <1>3, <2>1
  <2>3. Len(front[i - 1] \o s[i]) = Len(front[i - 1]) + Len(s[i])
    BY <2>2, ConcatProperties
  <2>4. Len(front[i - 1]) = w * (i - 1)
    BY <1>5
  <2>5. front[i] = front[i - 1] \o s[i]
    BY <1>3
  <2>6. w * (i - 1) + w = w * i
    OBVIOUS
  <2>7. Len(front[i]) = w * i
    BY <2>3, <2>4, <2>5, <2>6
  <2> QED BY <2>1, <2>7
<1>6. 0..n \subseteq T
  <2> HIDE DEF T
  <2> QED BY <1>1, <1>4, <1>5, Upwards
<1>7. n \in T
  <2> HIDE DEF T
  <2> QED BY <1>1, <1>6
<1>8. front[n] \in Seq(S) /\ front[n] \o <<>> = FlattenSeq(s)
  <2>1. n \in 0..n
    BY <1>1
  <2> QED BY <1>3, <2>1
<1>9. front[n] = FlattenSeq(s)
  BY <1>8, ConcatEmptySeq
<1>10. ASSUME NEW i \in 1..n
       PROVE  \E rest \in Seq(S) : From(FlattenSeq(s), (i - 1) * w) = s[i] \o rest
  <2>1. i - 1 \in 0..n /\ i \in 0..n
    BY <1>1
  <2>2. front[i - 1] \in Seq(S) /\ behind[i - 1] \in Seq(S) /\ behind[i] \in Seq(S)
    BY <1>3, <2>1
  <2>3. Len(front[i - 1]) = w * (i - 1)
    BY <1>6, <2>1
  <2>4. w * (i - 1) = (i - 1) * w
    OBVIOUS
  <2>5. From(front[i - 1] \o behind[i - 1], Len(front[i - 1])) = behind[i - 1]
    BY <2>2, TakenApart
  <2>6. behind[i - 1] = s[i] \o behind[i] /\ front[i - 1] \o behind[i - 1] = FlattenSeq(s)
    BY <1>3, <2>1
  <2>7. From(FlattenSeq(s), (i - 1) * w) = s[i] \o behind[i]
    BY <2>3, <2>4, <2>5, <2>6, Zenon
  <2> QED BY <2>2, <2>7, ZenonT(40)
<1> QED
  BY <1>7, <1>8, <1>9, <1>10

-----------------------------------------------------------------------------
(* The widths FudgeRegistry_init registers.                                *)
LEMMA Widths ==
    /\ FixedWidth[INDICATOR] = 0 /\ FixedWidth[BOOL] = 1 /\ FixedWidth[BYTE] = 1
    /\ FixedWidth[SHORT] = 2 /\ FixedWidth[INT] = 4 /\ FixedWidth[LONG] = 8
    /\ FixedWidth[FLOAT] = 4 /\ FixedWidth[DOUBLE] = 8
    /\ FixedWidth[DATE] = 4 /\ FixedWidth[TIME] = 8 /\ FixedWidth[DATETIME] = 12
    /\ FixedWidth[STRING_TYPE] = -1 /\ FixedWidth[FUDGE_MSG] = -1
    /\ FixedWidth[SHORT_ARRAY] = -1 /\ FixedWidth[INT_ARRAY] = -1
    /\ FixedWidth[LONG_ARRAY] = -1 /\ FixedWidth[FLOAT_ARRAY] = -1
    /\ FixedWidth[DOUBLE_ARRAY] = -1
    /\ \A type \in Byte : FixedWidth[type] \in Nat \cup {-1}
<1> USE DEF FixedWidth, Byte, Variable
<1>1. /\ FixedWidth[INDICATOR] = 0 /\ FixedWidth[BOOL] = 1 /\ FixedWidth[BYTE] = 1
      /\ FixedWidth[SHORT] = 2 /\ FixedWidth[INT] = 4 /\ FixedWidth[LONG] = 8
      /\ FixedWidth[FLOAT] = 4 /\ FixedWidth[DOUBLE] = 8
      /\ FixedWidth[DATE] = 4 /\ FixedWidth[TIME] = 8 /\ FixedWidth[DATETIME] = 12
  BY SMT DEF INDICATOR, BOOL, BYTE, SHORT, INT, LONG, FLOAT, DOUBLE, DATE, TIME, DATETIME
<1>2. /\ FixedWidth[STRING_TYPE] = -1 /\ FixedWidth[FUDGE_MSG] = -1
      /\ FixedWidth[SHORT_ARRAY] = -1 /\ FixedWidth[INT_ARRAY] = -1
      /\ FixedWidth[LONG_ARRAY] = -1 /\ FixedWidth[FLOAT_ARRAY] = -1
      /\ FixedWidth[DOUBLE_ARRAY] = -1
  BY SMT DEF STRING_TYPE, FUDGE_MSG, SHORT_ARRAY, INT_ARRAY, LONG_ARRAY, FLOAT_ARRAY,
             DOUBLE_ARRAY
<1>3. ASSUME NEW type \in Byte PROVE FixedWidth[type] \in Nat \cup {-1}
  <2>1. CASE type \in 21..25
    <3>1. 2^5 \in Nat /\ 2^6 \in Nat /\ 2^7 \in Nat /\ 2^8 \in Nat /\ 2^9 \in Nat
      BY SMT
    <3>2. type - 16 \in {5, 6, 7, 8, 9}
      BY <2>1
    <3>3. 2^(type - 16) \in Nat
      BY <3>1, <3>2
    <3>4. FixedWidth[type] = 2^(type - 16)
      BY <2>1
    <3> QED BY <3>3, <3>4
  <2>2. CASE type \notin 21..25
    BY <2>2
  <2> QED BY <2>1, <2>2
<1> QED
  BY <1>1, <1>2, <1>3

(* Two bytes and four of any integer.                                      *)
LEMMA EncodedBytes ==
    ASSUME NEW v \in Int
    PROVE  /\ EncodeI16(v) \in Seq(Byte) /\ Len(EncodeI16(v)) = 2
           /\ EncodeI32(v) \in Seq(Byte) /\ Len(EncodeI32(v)) = 4
<1>1. v % 256 \in Byte /\ (v \div 256) % 256 \in Byte /\ (v \div 65536) % 256 \in Byte
      /\ (v \div 16777216) % 256 \in Byte
  BY SMT DEF Byte
<1>2. \A a, b, c, d \in Byte : /\ <<a, b>> \in Seq(Byte) /\ Len(<<a, b>>) = 2
                               /\ <<a, b, c, d>> \in Seq(Byte) /\ Len(<<a, b, c, d>>) = 4
  BY SMT
<1> HIDE DEF Byte
<1> QED
  BY <1>1, <1>2 DEF EncodeI16, EncodeI32

(* What follows an integer does not matter to its decoder.                 *)
LEMMA ReadFirst ==
    ASSUME NEW rest \in Seq(Byte)
    PROVE  /\ \A v \in I16 : DecodeI16(EncodeI16(v) \o rest) = v
           /\ \A v \in I32 : DecodeI32(EncodeI32(v) \o rest) = v
<1>1. \A v \in Int : 
          /\ (EncodeI16(v) \o rest)[1] = EncodeI16(v)[1]
          /\ (EncodeI16(v) \o rest)[2] = EncodeI16(v)[2]
  <2> TAKE v \in Int
  <2>1. EncodeI16(v) \in Seq(Byte) /\ Len(EncodeI16(v)) = 2
    BY EncodedBytes
  <2>2. \A i \in 1..Len(EncodeI16(v)) : (EncodeI16(v) \o rest)[i] = EncodeI16(v)[i]
    BY <2>1, FirstOnes
  <2>3. \A i \in 1..2 : i \in 1..Len(EncodeI16(v))
    BY <2>1
  <2> QED BY <2>2, <2>3
<1>2. \A v \in Int : 
          /\ (EncodeI32(v) \o rest)[1] = EncodeI32(v)[1]
          /\ (EncodeI32(v) \o rest)[2] = EncodeI32(v)[2]
          /\ (EncodeI32(v) \o rest)[3] = EncodeI32(v)[3]
          /\ (EncodeI32(v) \o rest)[4] = EncodeI32(v)[4]
  <2> TAKE v \in Int
  <2>1. EncodeI32(v) \in Seq(Byte) /\ Len(EncodeI32(v)) = 4
    BY EncodedBytes
  <2>2. \A i \in 1..Len(EncodeI32(v)) : (EncodeI32(v) \o rest)[i] = EncodeI32(v)[i]
    BY <2>1, FirstOnes
  <2>3. \A i \in 1..4 : i \in 1..Len(EncodeI32(v))
    BY <2>1
  <2> QED BY <2>2, <2>3
<1>3. ASSUME NEW v \in I16 PROVE DecodeI16(EncodeI16(v) \o rest) = v
  <2>1. v \in Int
    BY SMT DEF I16, Between
  <2>2. DecodeI16(EncodeI16(v)) = v
    BY I16RoundTrip
  <2>3. /\ (EncodeI16(v) \o rest)[1] = EncodeI16(v)[1]
        /\ (EncodeI16(v) \o rest)[2] = EncodeI16(v)[2]
    BY <1>1, <2>1
  <2> QED BY <2>2, <2>3, SMT DEF DecodeI16
<1>4. ASSUME NEW v \in I32 PROVE DecodeI32(EncodeI32(v) \o rest) = v
  <2>1. v \in Int
    BY SMT DEF I32, Between
  <2>2. DecodeI32(EncodeI32(v)) = v
    BY I32RoundTrip
  <2>3. /\ (EncodeI32(v) \o rest)[1] = EncodeI32(v)[1]
        /\ (EncodeI32(v) \o rest)[2] = EncodeI32(v)[2]
        /\ (EncodeI32(v) \o rest)[3] = EncodeI32(v)[3]
        /\ (EncodeI32(v) \o rest)[4] = EncodeI32(v)[4]
    BY <1>2, <2>1
  <2> QED BY <2>2, <2>3, SMT DEF DecodeI32
<1> QED
  BY <1>3, <1>4

-----------------------------------------------------------------------------
(* The encoder and the decoder of each type.                               *)

(* What the arrays are arrays of.                                          *)
LEMMA Elements ==
    /\ ArrayOf[SHORT_ARRAY] = SHORT
    /\ ArrayOf[INT_ARRAY] = INT
    /\ ArrayOf[LONG_ARRAY] = LONG
    /\ ArrayOf[FLOAT_ARRAY] = FLOAT
    /\ ArrayOf[DOUBLE_ARRAY] = DOUBLE
    /\ \A type \in Arrays : /\ ArrayOf[type] \in Numbers
                            /\ FixedWidth[ArrayOf[type]] \in {2, 4, 8}
                            /\ FixedWidth[type] = -1
<1>1. /\ ArrayOf[SHORT_ARRAY] = SHORT
      /\ ArrayOf[INT_ARRAY] = INT
      /\ ArrayOf[LONG_ARRAY] = LONG
      /\ ArrayOf[FLOAT_ARRAY] = FLOAT
      /\ ArrayOf[DOUBLE_ARRAY] = DOUBLE
  BY SMT DEF Arrays, ArrayOf, SHORT_ARRAY, INT_ARRAY, LONG_ARRAY, FLOAT_ARRAY, DOUBLE_ARRAY
<1> QED
  BY <1>1, Widths DEF Arrays, Numbers

(* Numbers are read back from their bytes, whatever follows them.          *)
LEMMA NumberReadBack ==
    ASSUME NEW type \in Numbers, NEW v \in NumbersOf(type)
    PROVE  /\ EncodeNumber(type, v) \in Seq(Byte)
           /\ Len(EncodeNumber(type, v)) = FixedWidth[type]
           /\ \A rest \in Seq(Byte) : DecodeNumber(type, EncodeNumber(type, v) \o rest) = v
<1> DEFINE b == EncodeNumber(type, v)
<1>1. CASE type \in {BOOL, BYTE}
  <2>1. v \in Int /\ v \in -128..127 /\ (type = BOOL => v \in {0, 1})
    BY <1>1, SMT DEF NumbersOf, BOOL, BYTE, SHORT, INT, FLOAT, LONG, DOUBLE
  <2>2. b = <<v % 256>> /\ v % 256 \in Byte
    <3>1. b = <<v % 256>>
      BY <1>1, SMT DEF EncodeNumber, BOOL, BYTE, SHORT, INT, FLOAT, LONG, DOUBLE
    <3> QED BY <2>1, <3>1, LastByte
  <2>3. b \in Seq(Byte) /\ Len(b) = 1 /\ b[1] = v % 256
    BY <2>2
  <2>4. FixedWidth[type] = 1
    BY <1>1, Widths
  <2>5. ASSUME NEW rest \in Seq(Byte) PROVE DecodeNumber(type, b \o rest) = v
    <3>1. (b \o rest)[1] = v % 256
      <4>1. 1 \in 1..Len(b)
        BY <2>3
      <4> QED BY <2>3, <4>1, FirstOnes
    <3>2. CASE type = BOOL
      BY <2>1, <3>1, <3>2, SMT DEF DecodeNumber, BOOL, BYTE, SHORT, INT, FLOAT, LONG, DOUBLE
    <3>3. CASE type = BYTE
      <4>1. v \in Between(-128, 127)
        BY <2>1 DEF Between
      <4>2. SignedByte(v % 256) = v
        BY <4>1, TopByte
      <4>3. DecodeNumber(type, b \o rest) = SignedByte((b \o rest)[1])
        <5> DEFINE c == b \o rest
        <5> HIDE DEF c
        <5>1. DecodeNumber(type, c) = SignedByte(c[1])
          BY <3>3, SMT DEF DecodeNumber, BOOL, BYTE, SHORT, INT, FLOAT, LONG, DOUBLE
        <5> QED BY <5>1 DEF c
      <4> QED BY <3>1, <4>2, <4>3
    <3> QED BY <1>1, <3>2, <3>3
  <2> QED BY <2>3, <2>4, <2>5
<1>2. CASE type = SHORT
  <2>1. v \in I16 /\ v \in Int
    BY <1>2, SMT DEF NumbersOf, BOOL, BYTE, SHORT, INT, FLOAT, LONG, DOUBLE, I16, Between
  <2>2. b = EncodeI16(v)
    BY <1>2, SMT DEF EncodeNumber, BOOL, BYTE, SHORT, INT, FLOAT, LONG, DOUBLE
  <2>3. b \in Seq(Byte) /\ Len(b) = 2
    BY <2>1, <2>2, EncodedBytes
  <2>4. ASSUME NEW rest \in Seq(Byte) PROVE DecodeNumber(type, b \o rest) = v
    <3>1. DecodeNumber(type, b \o rest) = DecodeI16(b \o rest)
      BY <1>2, SMT DEF DecodeNumber, BOOL, BYTE, SHORT, INT, FLOAT, LONG, DOUBLE
    <3>2. DecodeI16(EncodeI16(v) \o rest) = v
      BY <2>1, ReadFirst
    <3> QED BY <2>2, <3>1, <3>2
  <2> QED BY <1>2, <2>3, <2>4, Widths
<1>3. CASE type \in {INT, FLOAT}
  <2>1. v \in I32 /\ v \in Int
    BY <1>3, SMT DEF NumbersOf, BOOL, BYTE, SHORT, INT, FLOAT, LONG, DOUBLE, I32, Between
  <2>2. b = EncodeI32(v)
    BY <1>3, SMT DEF EncodeNumber, BOOL, BYTE, SHORT, INT, FLOAT, LONG, DOUBLE
  <2>3. b \in Seq(Byte) /\ Len(b) = 4
    BY <2>1, <2>2, EncodedBytes
  <2>4. ASSUME NEW rest \in Seq(Byte) PROVE DecodeNumber(type, b \o rest) = v
    <3>1. DecodeNumber(type, b \o rest) = DecodeI32(b \o rest)
      BY <1>3, SMT DEF DecodeNumber, BOOL, BYTE, SHORT, INT, FLOAT, LONG, DOUBLE
    <3>2. DecodeI32(EncodeI32(v) \o rest) = v
      BY <2>1, ReadFirst
    <3> QED BY <2>2, <3>1, <3>2
  <2> QED BY <1>3, <2>3, <2>4, Widths
<1>4. CASE type \in {LONG, DOUBLE}
  <2>1. v \in I32 \X I32 /\ v[1] \in I32 /\ v[2] \in I32 /\ v = <<v[1], v[2]>>
    BY <1>4, SMT DEF NumbersOf, BOOL, BYTE, SHORT, INT, FLOAT, LONG, DOUBLE
  <2>2. b = EncodeI32(v[1]) \o EncodeI32(v[2])
    BY <1>4, SMT DEF EncodeNumber, BOOL, BYTE, SHORT, INT, FLOAT, LONG, DOUBLE
  <2>3. v[1] \in Int /\ v[2] \in Int
    BY <2>1, SMT DEF I32, Between
  <2>4. /\ EncodeI32(v[1]) \in Seq(Byte) /\ Len(EncodeI32(v[1])) = 4
        /\ EncodeI32(v[2]) \in Seq(Byte) /\ Len(EncodeI32(v[2])) = 4
    BY <2>3, EncodedBytes
  <2>5. b \in Seq(Byte) /\ Len(b) = 8
    <3> DEFINE x == EncodeI32(v[1])
               y == EncodeI32(v[2])
    <3>2. x \in Seq(Byte) /\ Len(x) = 4 /\ y \in Seq(Byte) /\ Len(y) = 4 /\ b = x \o y
      BY <2>2, <2>4
    <3> HIDE DEF x, y, b
    <3>1. x \o y \in Seq(Byte) /\ Len(x \o y) = Len(x) + Len(y)
      BY <3>2, ConcatProperties
    <3> QED BY <3>1, <3>2
  <2>6. ASSUME NEW rest \in Seq(Byte) PROVE DecodeNumber(type, b \o rest) = v
    <3> DEFINE first == EncodeI32(v[1])
               more  == EncodeI32(v[2]) \o rest
    <3>1. b \o rest = first \o more
      BY <2>2, <2>4, Associative, SMTT(30)
    <3>2. more \in Seq(Byte)
      BY <2>4, ConcatProperties
    <3>3. DecodeI32(first \o more) = v[1]
      BY <2>1, <3>2, ReadFirst
    <3>4. From(first \o more, 4) = more
      <4>1. From(first \o more, Len(first)) = more
        BY <2>4, <3>2, TakenApart
      <4> QED BY <2>4, <4>1
    <3>5. DecodeI32(more) = v[2]
      BY <2>1, ReadFirst
    <3>6. DecodeNumber(type, b \o rest)
            = <<DecodeI32(b \o rest), DecodeI32(From(b \o rest, 4))>>
      BY <1>4, SMT DEF DecodeNumber, BOOL, BYTE, SHORT, INT, FLOAT, LONG, DOUBLE
    <3> HIDE DEF first, more, b
    <3> QED BY <2>1, <3>1, <3>3, <3>4, <3>5, <3>6
  <2> QED BY <1>4, <2>5, <2>6, Widths
<1> QED
  BY <1>1, <1>2, <1>3, <1>4 DEF Numbers

(* An array is read back: as many elements as bytes divided by the width   *)
(* of one, each from where it is.                                          *)
LEMMA ArrayReadBack ==
    ASSUME NEW type \in Numbers, NEW v \in Seq(NumbersOf(type)),
           FixedWidth[type] \in {2, 4, 8}
    PROVE  LET b == FlattenSeq([i \in DOMAIN v |-> EncodeNumber(type, v[i])])
           IN  /\ b \in Seq(Byte)
               /\ Len(b) = FixedWidth[type] * Len(v)
               /\ DecodeArray(type, b) = v
<1> DEFINE s == [i \in DOMAIN v |-> EncodeNumber(type, v[i])]
           w == FixedWidth[type]
           n == Len(v)
           b == FlattenSeq(s)
<1>1. n \in Nat /\ DOMAIN v = 1..n /\ \A i \in 1..n : v[i] \in NumbersOf(type)
  BY LenProperties, ElementOfSeq
<1>2. \A i \in 1..n : EncodeNumber(type, v[i]) \in Seq(Byte) /\ Len(EncodeNumber(type, v[i])) = w
  BY <1>1, NumberReadBack
<1>3. s \in Seq(Seq(Byte)) /\ Len(s) = n /\ \A i \in 1..n : s[i] = EncodeNumber(type, v[i])
  <2> DEFINE T == Seq(Byte)
  <2>1. s = [i \in 1..n |-> EncodeNumber(type, v[i])]
    BY <1>1
  <2>2. \A i \in 1..n : EncodeNumber(type, v[i]) \in T
    BY <1>2
  <2> HIDE DEF T
  <2>3. s \in Seq(T) /\ Len(s) = n
    BY <1>1, <2>1, <2>2
  <2> QED BY <2>1, <2>3 DEF T
<1> HIDE DEF s
<1>4. /\ b \in Seq(Byte) /\ Len(b) = w * Len(s)
      /\ \A i \in 1..Len(s) : \E rest \in Seq(Byte) : From(b, (i - 1) * w) = s[i] \o rest
  <2>1. \A i \in 1..Len(s) : Len(s[i]) = w
    BY <1>2, <1>3
  <2> HIDE DEF w
  <2> QED BY <1>3, <2>1, Chunked, ZenonT(40) DEF w
<1>5. Len(b) \div w = n
  <2>1. Len(b) = w * n
    BY <1>3, <1>4
  <2> HIDE DEF b, w
  <2>2. w \in {2, 4, 8}
    BY DEF w
  <2> DEFINE len == Len(b)
  <2>3. len = w * n /\ n \in Nat
    BY <1>1, <2>1
  <2> HIDE DEF n, len
  <2>4. len \div w = n
    <3>1. w = 2 => len \div w = n
      BY <2>3, SMT
    <3>2. w = 4 => len \div w = n
      BY <2>3, SMT
    <3>3. w = 8 => len \div w = n
      BY <2>3, SMT
    <3> QED BY <2>2, <3>1, <3>2, <3>3
  <2> QED BY <2>4 DEF len
<1>6. \A i \in 1..n : DecodeNumber(type, From(b, (i - 1) * w)) = v[i]
  <2> TAKE i \in 1..n
  <2>1. PICK rest \in Seq(Byte) : From(b, (i - 1) * w) = EncodeNumber(type, v[i]) \o rest
    BY <1>3, <1>4
  <2>2. DecodeNumber(type, EncodeNumber(type, v[i]) \o rest) = v[i]
    BY <1>1, NumberReadBack
  <2> QED BY <2>1, <2>2
<1>7. DecodeArray(type, b) = [i \in 1..n |-> DecodeNumber(type, From(b, (i - 1) * w))]
  BY <1>5, Zenon DEF DecodeArray
<1>8. [i \in 1..n |-> DecodeNumber(type, From(b, (i - 1) * w))] = [i \in 1..n |-> v[i]]
  BY <1>6, Zenon
<1>9. v = [i \in 1..n |-> v[i]]
  BY <1>1
<1> QED
  BY <1>3, <1>4, <1>7, <1>8, <1>9 DEF s

(* Dates and times are read back from their bytes.                         *)
LEMMA DateReadBack ==
    ASSUME NEW d \in EncodableDates
    PROVE  /\ PackDate(d) \in Seq(Byte) /\ Len(PackDate(d)) = 4
           /\ \A rest \in Seq(Byte) : UnpackDate(PackDate(d) \o rest) = d
<1> DEFINE v == Year23(d.year) * 512 + (d.month % 16) * 32 + (d.day % 32)
<1>1. d \in Dates /\ d.year \in Between(-4194304, 4194303)
  BY DEF EncodableDates
<1>2. v \in Int
  BY <1>1, SMT DEF Dates, Between, Year23
<1>3. PackDate(d) = EncodeI32(v)
  BY DEF PackDate
<1>4. UnpackDate(PackDate(d)) = d
  BY <1>1, DateRoundTrip
<1> HIDE DEF v
<1>5. EncodeI32(v) \in Seq(Byte) /\ Len(EncodeI32(v)) = 4
  BY <1>2, EncodedBytes
<1>6. ASSUME NEW rest \in Seq(Byte) PROVE UnpackDate(PackDate(d) \o rest) = d
  <2> DEFINE b == EncodeI32(v)
             c == b \o rest
  <2>1. \A i \in 1..Len(b) : c[i] = b[i]
    BY <1>5, FirstOnes
  <2>2. \A i \in 1..4 : c[i] = b[i]
    BY <2>1, <1>5
  <2> HIDE DEF b, c
  <2>3. DecodeI32(c) = DecodeI32(b)
    BY <2>2, SMT DEF DecodeI32
  <2>4. UnpackDate(c) = UnpackDate(b)
    BY <2>3, SMT DEF UnpackDate
  <2> QED BY <1>3, <1>4, <2>4 DEF b, c
<1> QED
  BY <1>3, <1>5, <1>6

(* The time a field of the types TIME and DATETIME has.                    *)
LEMMA TimeReadBack ==
    ASSUME NEW t \in EncodableTimes
    PROVE  /\ PackTime(t) \in Seq(Byte) /\ Len(PackTime(t)) = 8
           /\ UnpackTime(PackTime(t)) = t
<1> DEFINE hi == (IF t.hasTimezone THEN t.timezoneOffset ELSE NoZone) * 16777216
                   + (t.precision % 16) * 1048576 + (t.seconds % 131072)
           lo == t.nanoseconds % TwoTo30
<1>1. t \in Times /\ t.nanoseconds # TwoTo30
      /\ (t.hasTimezone => t.timezoneOffset # NoZone)
      /\ (~t.hasTimezone => t.timezoneOffset = 0)
  BY DEF EncodableTimes
<1>2. hi \in Int /\ lo \in Int
  <2>1. /\ t.timezoneOffset \in Int /\ t.precision \in Int
        /\ t.seconds \in Int /\ t.nanoseconds \in Int /\ NoZone \in Int
    BY <1>1, SMT DEF Times, Between, NoZone
  <2>2. lo \in Int
    BY <2>1, SMT DEF TwoTo30
  <2>3. \A z, p, s \in Int : z * 16777216 + (p % 16) * 1048576 + (s % 131072) \in Int
    BY SMT
  <2>4. (IF t.hasTimezone THEN t.timezoneOffset ELSE NoZone) \in Int
    BY <2>1
  <2> HIDE DEF lo
  <2> QED BY <2>1, <2>2, <2>3, <2>4
<1>3. PackTime(t) = EncodeI32(hi) \o EncodeI32(lo)
  BY DEF PackTime
<1> HIDE DEF hi, lo
<1> DEFINE x == EncodeI32(hi)
           y == EncodeI32(lo)
<1>4. x \in Seq(Byte) /\ Len(x) = 4 /\ y \in Seq(Byte) /\ Len(y) = 4
  BY <1>2, EncodedBytes
<1> HIDE DEF x, y
<1>5. x \o y \in Seq(Byte) /\ Len(x \o y) = Len(x) + Len(y)
  BY <1>4, ConcatProperties
<1>6. UnpackTime(PackTime(t)) = t
  BY <1>1, TimeRoundTrip
<1>7. PackTime(t) = x \o y
  BY <1>3 DEF x, y
<1> QED
  BY <1>4, <1>5, <1>6, <1>7

(* A date and a time together take twelve bytes.                           *)
LEMMA DateTimeReadBack ==
    ASSUME NEW v \in [date : EncodableDates, time : EncodableTimes]
    PROVE  LET b == PackDate(v.date) \o PackTime(v.time)
           IN  /\ b \in Seq(Byte) /\ Len(b) = 12
               /\ [date |-> UnpackDate(b), time |-> UnpackTime(From(b, 4))] = v
<1> DEFINE x == PackDate(v.date)
           y == PackTime(v.time)
           b == x \o y
<1>1. /\ v.date \in EncodableDates /\ v.time \in EncodableTimes
      /\ v = [date |-> v.date, time |-> v.time]
  OBVIOUS
<1>2. x \in Seq(Byte) /\ Len(x) = 4 /\ \A rest \in Seq(Byte) : UnpackDate(x \o rest) = v.date
  BY <1>1, DateReadBack
<1>3. y \in Seq(Byte) /\ Len(y) = 8 /\ UnpackTime(y) = v.time
  BY <1>1, TimeReadBack
<1> HIDE DEF x, y
<1>4. b \in Seq(Byte) /\ Len(b) = Len(x) + Len(y)
  <2>1. x \in Seq(Byte) /\ y \in Seq(Byte)
    BY <1>2, <1>3
  <2> QED BY <2>1, Joined, Zenon
<1>5. From(b, Len(x)) = y
  BY <1>2, <1>3, TakenApart
<1>6. UnpackDate(b) = v.date /\ UnpackTime(From(b, 4)) = v.time
  BY <1>2, <1>3, <1>5
<1>7. Len(b) = 12
  BY <1>2, <1>3, <1>4
<1> HIDE DEF b
<1> QED
  BY <1>1, <1>4, <1>6, <1>7 DEF b, x, y

(* What FudgeCodec_getFieldDataLength returns of a field without message.  *)
LeafLength(type, v) ==
    IF FixedWidth[type] >= 0 THEN FixedWidth[type]
    ELSE IF type \in Arrays THEN FixedWidth[ArrayOf[type]] * Len(v) ELSE Len(v)

(* The value of every field that holds no message is encoded in bytes, as  *)
(* many as its length says, and is read back from them.                    *)
LEMMA LeafReadBack ==
    ASSUME NEW type \in Byte, type # FUDGE_MSG, NEW v \in DataOf(type),
           NEW encoded, NEW decoded
    PROVE  LET b == EncodeValue(type, v, encoded)
           IN  /\ b \in Seq(Byte)
               /\ Len(b) = LeafLength(type, v)
               /\ DecodeValue(type, b, decoded) = Ok(v)
<1> DEFINE b == EncodeValue(type, v, encoded)
<1> USE DEF INDICATOR, BOOL, BYTE, SHORT, INT, FLOAT, LONG, DOUBLE, SHORT_ARRAY, INT_ARRAY,
            LONG_ARRAY, FLOAT_ARRAY, DOUBLE_ARRAY, STRING_TYPE, FUDGE_MSG, DATE, TIME,
            DATETIME, Numbers, Arrays
<1>1. CASE type = INDICATOR
  <2>1. v = <<>> /\ b = <<>>
    BY <1>1 DEF DataOf, EncodeValue
  <2>2. FixedWidth[type] = 0
    BY <1>1, Widths
  <2>3. \A c : Len(c) = 0 => DecodeValue(type, c, decoded) = Ok(<<>>)
    BY <1>1, <2>2 DEF DecodeValue
  <2>4. <<>> \in Seq(Byte) /\ Len(<<>>) = 0
    OBVIOUS
  <2>5. LeafLength(type, v) = 0
    BY <2>2 DEF LeafLength
  <2> QED BY <2>1, <2>3, <2>4, <2>5
<1>2. CASE type \in Numbers
  <2>1. v \in NumbersOf(type)
    BY <1>2 DEF DataOf
  <2>2. b = EncodeNumber(type, v)
    BY <1>2 DEF EncodeValue
  <2>3. b \in Seq(Byte) /\ Len(b) = FixedWidth[type]
        /\ \A rest \in Seq(Byte) : DecodeNumber(type, b \o rest) = v
    BY <1>2, <2>1, <2>2, NumberReadBack
  <2>4. FixedWidth[type] \in Nat
    BY <1>2, Widths
  <2> HIDE DEF b
  <2>5. DecodeNumber(type, b) = v
    <3>1. b \o <<>> = b /\ <<>> \in Seq(Byte)
      BY <2>3, ConcatEmptySeq
    <3> QED BY <2>3, <3>1
  <2>6. DecodeValue(type, b, decoded) = Ok(DecodeNumber(type, b))
    BY <1>2, <2>3, <2>4, SMTT(30) DEF DecodeValue
  <2> QED BY <2>3, <2>4, <2>5, <2>6 DEF LeafLength, b
<1>3. CASE type \in Arrays
  <2> DEFINE e == ArrayOf[type]
  <2>1. v \in Seq(NumbersOf(e))
    BY <1>3 DEF DataOf
  <2>2. b = FlattenSeq([i \in DOMAIN v |-> EncodeNumber(e, v[i])])
    BY <1>3 DEF EncodeValue
  <2>3. e \in Numbers /\ FixedWidth[e] \in {2, 4, 8} /\ FixedWidth[type] = -1
    BY <1>3, Elements
  <2> HIDE DEF e
  <2>4. b \in Seq(Byte) /\ Len(b) = FixedWidth[e] * Len(v) /\ DecodeArray(e, b) = v
    <3> HIDE DEF Numbers
    <3> QED BY <2>1, <2>2, <2>3, ArrayReadBack
  <2> HIDE DEF b
  <2>5. DecodeValue(type, b, decoded) = Ok(DecodeArray(e, b))
    <3>1. ~(FixedWidth[type] > Len(b))
      BY <2>3, <2>4
    <3> QED BY <1>3, <3>1 DEF DecodeValue, e
  <2>6. LeafLength(type, v) = FixedWidth[e] * Len(v)
    BY <1>3, <2>3 DEF LeafLength, e
  <2> QED BY <2>4, <2>5, <2>6 DEF b
<1>4. CASE type = STRING_TYPE
  <2>1. v \in Seq(Byte) /\ CreateFromUTF8(v) = Ok(v)
    BY <1>4 DEF DataOf
  <2>2. b = v
    BY <1>4 DEF EncodeValue
  <2>3. FixedWidth[type] = -1
    BY <1>4, Widths
  <2>4. DecodeValue(type, v, decoded) = CreateFromUTF8(v)
    <3>1. ~(FixedWidth[type] > Len(v))
      BY <2>1, <2>3
    <3> QED BY <1>4, <3>1 DEF DecodeValue
  <2>5. LeafLength(type, v) = Len(v)
    BY <1>4, <2>3 DEF LeafLength
  <2> HIDE DEF b
  <2> QED BY <2>1, <2>2, <2>4, <2>5 DEF b
<1>5. CASE type = DATE
  <2>1. v \in EncodableDates
    BY <1>5 DEF DataOf
  <2>2. b = PackDate(v)
    BY <1>5 DEF EncodeValue
  <2>3. FixedWidth[type] = 4
    BY <1>5, Widths
  <2>4. b \in Seq(Byte) /\ Len(b) = 4 /\ \A rest \in Seq(Byte) : UnpackDate(b \o rest) = v
    BY <2>1, <2>2, DateReadBack
  <2> HIDE DEF b
  <2>5. UnpackDate(b) = v
    <3>1. b \o <<>> = b /\ <<>> \in Seq(Byte)
      BY <2>4, ConcatEmptySeq
    <3> QED BY <2>4, <3>1
  <2>6. DecodeValue(type, b, decoded) = Ok(UnpackDate(b))
    BY <1>5, <2>3, <2>4 DEF DecodeValue
  <2> QED BY <2>3, <2>4, <2>5, <2>6 DEF LeafLength, b
<1>6. CASE type = TIME
  <2>1. v \in EncodableTimes
    BY <1>6 DEF DataOf
  <2>2. b = PackTime(v)
    BY <1>6 DEF EncodeValue
  <2>3. FixedWidth[type] = 8
    BY <1>6, Widths
  <2>4. b \in Seq(Byte) /\ Len(b) = 8 /\ UnpackTime(b) = v
    BY <2>1, <2>2, TimeReadBack
  <2> HIDE DEF b
  <2>6. DecodeValue(type, b, decoded) = Ok(UnpackTime(b))
    BY <1>6, <2>3, <2>4 DEF DecodeValue
  <2> QED BY <2>3, <2>4, <2>6 DEF LeafLength, b
<1>7. CASE type = DATETIME
  <2>1. v \in [date : EncodableDates, time : EncodableTimes]
    BY <1>7 DEF DataOf
  <2>2. b = PackDate(v.date) \o PackTime(v.time)
    BY <1>7 DEF EncodeValue
  <2>3. FixedWidth[type] = 12
    BY <1>7, Widths
  <2>4. /\ b \in Seq(Byte) /\ Len(b) = 12
        /\ [date |-> UnpackDate(b), time |-> UnpackTime(From(b, 4))] = v
    BY <2>1, <2>2, DateTimeReadBack
  <2> HIDE DEF b
  <2>6. DecodeValue(type, b, decoded)
          = Ok([date |-> UnpackDate(b), time |-> UnpackTime(From(b, 4))])
    BY <1>7, <2>3, <2>4 DEF DecodeValue
  <2> QED BY <2>3, <2>4, <2>6 DEF LeafLength, b
<1>8. CASE type \notin {INDICATOR, STRING_TYPE, DATE, TIME, DATETIME} /\ type \notin Numbers
           /\ type \notin Arrays
  <2>1. v \in Seq(Byte) /\ FixedWidth[type] \in {Variable, Len(v)}
    BY <1>8 DEF DataOf
  <2>2. b = v
    BY <1>8 DEF EncodeValue
  <2>3. Len(v) \in Nat /\ Variable = -1
    BY <2>1 DEF Variable
  <2>4. DecodeValue(type, v, decoded) = Ok(v)
    <3>1. ~(FixedWidth[type] > Len(v))
      BY <2>1, <2>3
    <3> QED BY <1>8, <3>1 DEF DecodeValue
  <2>5. LeafLength(type, v) = Len(v)
    BY <1>8, <2>1, <2>3 DEF LeafLength
  <2> HIDE DEF b
  <2> QED BY <2>1, <2>2, <2>4, <2>5 DEF b
<1> QED
  BY <1>1, <1>2, <1>3, <1>4, <1>5, <1>6, <1>7, <1>8

-----------------------------------------------------------------------------
(* Field headers.                                                          *)

(* What is between a beginning and a rest is found where it is.            *)
LEMMA Middle ==
    ASSUME NEW S, NEW s \in Seq(S), NEW t \in Seq(S), NEW u \in Seq(S)
    PROVE  LET c == (s \o t) \o u
           IN  /\ c \in Seq(S) /\ Len(c) = Len(s) + Len(t) + Len(u)
               /\ \A i \in 1..Len(s) : c[i] = s[i]
               /\ \A i \in 1..Len(t) : c[Len(s) + i] = t[i]
               /\ SubSeq(c, Len(s) + 1, Len(s) + Len(t)) = t
<1> DEFINE st == s \o t
           c == st \o u
           l == Len(s)
           m == Len(t)
<1>1. l \in Nat /\ m \in Nat /\ Len(u) \in Nat
  OBVIOUS
<1>2. /\ st \in Seq(S) /\ Len(st) = l + m
      /\ \A i \in 1..(l + m) : st[i] = IF i <= l THEN s[i] ELSE t[i - l]
  BY ConcatProperties
<1> HIDE DEF st
<1>3. /\ c \in Seq(S) /\ Len(c) = l + m + Len(u)
      /\ \A i \in 1..(l + m) : c[i] = st[i]
  <2>1. c \in Seq(S) /\ Len(c) = Len(st) + Len(u)
    BY <1>2, ConcatProperties
  <2>2. \A i \in 1..Len(st) : c[i] = st[i]
    BY <1>2, FirstOnes
  <2> QED BY <1>2, <2>1, <2>2
<1> HIDE DEF c, l, m
<1>4. ASSUME NEW i \in 1..l PROVE c[i] = s[i]
  <2>1. i \in 1..(l + m) /\ i <= l
    BY <1>1
  <2> QED BY <1>2, <1>3, <2>1
<1>5. ASSUME NEW i \in 1..m PROVE c[l + i] = t[i]
  <2>1. l + i \in 1..(l + m) /\ ~(l + i <= l) /\ (l + i) - l = i
    BY <1>1
  <2>2. c[l + i] = st[l + i]
    BY <1>3, <2>1
  <2>3. st[l + i] = t[(l + i) - l]
    BY <1>2, <2>1
  <2> QED BY <2>1, <2>2, <2>3
<1>6. SubSeq(c, l + 1, l + m) = t
  <2> DEFINE a == l + 1
             b == l + m
             d == SubSeq(c, a, b)
  <2>1. a \in Int /\ b \in Int /\ b - a + 1 = m /\ (a <= b <=> m # 0)
    BY <1>1
  <2>2. ASSUME NEW i \in a..b PROVE c[i] \in S
    <3>1. i - l \in 1..m /\ l + (i - l) = i
      BY <1>1, <2>1
    <3>2. c[i] = t[i - l]
      BY <1>5, <3>1
    <3>3. t[i - l] \in S
      <4>1. i - l \in 1..Len(t)
        BY <3>1 DEF m
      <4> QED BY <4>1, ElementOfSeq
    <3> QED BY <3>2, <3>3
  <2>3. \A i \in 1..m : a + i - 1 = l + i
    BY <1>1
  <2> HIDE DEF a, b
  <2>4. /\ d \in Seq(S) /\ Len(d) = IF a <= b THEN b - a + 1 ELSE 0
        /\ \A i \in 1..(b - a + 1) : d[i] = c[a + i - 1]
    BY <2>1, <2>2, SubSeqProperties
  <2> HIDE DEF d
  <2>5. Len(d) = m
    BY <1>1, <2>1, <2>4
  <2>6. \A i \in 1..m : d[i] = t[i]
    <3> TAKE i \in 1..m
    <3>1. i \in 1..(b - a + 1)
      BY <2>1
    <3>2. d[i] = c[a + i - 1]
      BY <2>4, <3>1
    <3> QED BY <1>5, <2>3, <3>2
  <2>7. d = t
    <3>1. Len(t) = m
      BY DEF m
    <3> QED BY <2>4, <2>5, <2>6, <3>1, SeqEqual
  <2> QED BY <2>7 DEF a, b, d
<1> QED
  BY <1>3, <1>4, <1>5, <1>6 DEF c, st, l, m

-----------------------------------------------------------------------------
(* What a client gives besides the data.                                   *)
HeaderOK(f) ==
    /\ f.type \in Byte
    /\ f.ordinal \subseteq I16 /\ AtMostOne(f.ordinal)
    /\ f.name \subseteq Seq(Byte) /\ AtMostOne(f.name)
    /\ \A n \in f.name : Len(n) < 256 /\ CreateFromUTF8(n) = Ok(n)

(* The parts of a field header: the prefix FudgeCodec_populateFieldHeader  *)
(* and EncodeFieldHeader make of a field whose data take size bytes, its   *)
(* ordinal and its name.                                                   *)
PrefixOf(f, size) ==
    [fixedwidth |-> FixedWidth[f.type] >= 0, ordinal |-> f.ordinal # {}, name |-> f.name # {},
     variablewidth |-> IF FixedWidth[f.type] >= 0 THEN 0 ELSE BytesToHoldSize(size)]

OrdinalBytes(f) == IF f.ordinal # {} THEN EncodeI16(The(f.ordinal)) ELSE <<>>
NameBytes(f) == IF f.name # {} THEN <<Len(The(f.name))>> \o The(f.name) ELSE <<>>

(* Its only element, if a set has one.                                     *)
LEMMA OnlyOne ==
    ASSUME NEW S, AtMostOne(S), S # {}
    PROVE  The(S) \in S /\ S = {The(S)}
BY DEF AtMostOne, The

(* The parts of a header, and their lengths.                               *)
LEMMA HeaderParts ==
    ASSUME NEW f, HeaderOK(f), NEW size \in Nat
    PROVE  /\ EncodePrefix(PrefixOf(f, size)) \in Byte
           /\ DecodePrefix(EncodePrefix(PrefixOf(f, size))) = PrefixOf(f, size)
           /\ OrdinalBytes(f) \in Seq(Byte)
           /\ Len(OrdinalBytes(f)) = IF f.ordinal # {} THEN 2 ELSE 0
           /\ NameBytes(f) \in Seq(Byte)
           /\ Len(NameBytes(f)) = IF f.name # {} THEN Len(The(f.name)) + 1 ELSE 0
           /\ EncodeFieldHeader(f, size) =
                  (<<EncodePrefix(PrefixOf(f, size)), f.type>> \o OrdinalBytes(f)) \o NameBytes(f)
<1>1. PrefixOf(f, size) \in FieldPrefixes
  <2>1. BytesToHoldSize(size) \in {1, 2, 4}
    BY SMT DEF BytesToHoldSize
  <2> DEFINE fixed == FixedWidth[f.type] >= 0
             ordinal == f.ordinal # {}
             name == f.name # {}
             width == IF fixed THEN 0 ELSE BytesToHoldSize(size)
  <2>2. /\ fixed \in BOOLEAN /\ ordinal \in BOOLEAN /\ name \in BOOLEAN
        /\ width \in {0, 1, 2, 4} /\ (fixed => width = 0)
    BY <2>1
  <2>3. PrefixOf(f, size) = [fixedwidth |-> fixed, ordinal |-> ordinal, name |-> name,
                             variablewidth |-> width]
    BY DEF PrefixOf
  <2> HIDE DEF fixed, ordinal, name, width
  <2> QED BY <2>2, <2>3 DEF FieldPrefixes
<1>2. /\ EncodePrefix(PrefixOf(f, size)) \in Byte
      /\ DecodePrefix(EncodePrefix(PrefixOf(f, size))) = PrefixOf(f, size)
  BY <1>1, PrefixRoundTrip
<1>3. /\ OrdinalBytes(f) \in Seq(Byte)
      /\ Len(OrdinalBytes(f)) = IF f.ordinal # {} THEN 2 ELSE 0
  <2>1. CASE f.ordinal # {}
    <3>1. The(f.ordinal) \in Int
      BY <2>1, OnlyOne DEF HeaderOK, I16, Between
    <3>2. EncodeI16(The(f.ordinal)) \in Seq(Byte) /\ Len(EncodeI16(The(f.ordinal))) = 2
      BY <3>1, EncodedBytes
    <3> QED BY <2>1, <3>2 DEF OrdinalBytes
  <2>2. CASE f.ordinal = {}
    <3>1. OrdinalBytes(f) = <<>>
      BY <2>2 DEF OrdinalBytes
    <3> QED BY <2>2, <3>1, EmptySeq
  <2> QED BY <2>1, <2>2
<1>4. /\ NameBytes(f) \in Seq(Byte)
      /\ Len(NameBytes(f)) = IF f.name # {} THEN Len(The(f.name)) + 1 ELSE 0
  <2>1. CASE f.name # {}
    <3> DEFINE n == The(f.name)
               one == <<Len(n)>>
    <3>1. n \in f.name
      BY <2>1, OnlyOne DEF HeaderOK
    <3>2. n \in Seq(Byte) /\ Len(n) \in Nat /\ Len(n) < 256
      BY <3>1 DEF HeaderOK
    <3>3. Len(n) \in Byte
      <4>1. \A k \in Nat : k < 256 => k \in Byte
        BY DEF Byte
      <4> HIDE DEF n
      <4> QED BY <3>2, <4>1
    <3>4. one \in Seq(Byte) /\ Len(one) = 1
      BY <3>3
    <3>5. NameBytes(f) = one \o n
      BY <2>1 DEF NameBytes
    <3> HIDE DEF one, n
    <3>6. one \o n \in Seq(Byte) /\ Len(one \o n) = Len(one) + Len(n)
      BY <3>2, <3>4, ConcatProperties
    <3> QED BY <2>1, <3>2, <3>4, <3>5, <3>6 DEF n
  <2>2. CASE f.name = {}
    <3>1. NameBytes(f) = <<>>
      BY <2>2 DEF NameBytes
    <3> QED BY <2>2, <3>1, EmptySeq
  <2> QED BY <2>1, <2>2
<1>5. EncodeFieldHeader(f, size) =
          (<<EncodePrefix(PrefixOf(f, size)), f.type>> \o OrdinalBytes(f)) \o NameBytes(f)
  <2> DEFINE p == PrefixOf(f, size)
  <2>1. EncodeFieldHeader(f, size) =
            (<<EncodePrefix(p), f.type>>
               \o (IF p.ordinal THEN EncodeI16(The(f.ordinal)) ELSE <<>>))
               \o (IF p.name THEN <<Len(The(f.name))>> \o The(f.name) ELSE <<>>)
    BY DEF EncodeFieldHeader, PrefixOf
  <2>2. (p.ordinal <=> f.ordinal # {}) /\ (p.name <=> f.name # {})
    BY DEF PrefixOf
  <2> HIDE DEF p
  <2>3. (IF p.ordinal THEN EncodeI16(The(f.ordinal)) ELSE <<>>) = OrdinalBytes(f)
    BY <2>2 DEF OrdinalBytes
  <2>4. (IF p.name THEN <<Len(The(f.name))>> \o The(f.name) ELSE <<>>) = NameBytes(f)
    BY <2>2 DEF NameBytes
  <2> QED BY <2>1, <2>3, <2>4 DEF p
<1> QED
  BY <1>2, <1>3, <1>4, <1>5

(* FudgeHeader_encodeFieldHeader writes as many bytes as the field's       *)
(* length counts.                                                          *)
LEMMA HeaderBytes ==
    ASSUME NEW f, HeaderOK(f), NEW size \in Nat
    PROVE  /\ EncodeFieldHeader(f, size) \in Seq(Byte)
           /\ Len(EncodeFieldHeader(f, size)) = HeaderLength(Shape(f))
<1> DEFINE p == <<EncodePrefix(PrefixOf(f, size)), f.type>>
           o == OrdinalBytes(f)
           n == NameBytes(f)
<1>1. p \in Seq(Byte) /\ Len(p) = 2
  <2>1. EncodePrefix(PrefixOf(f, size)) \in Byte /\ f.type \in Byte
    BY HeaderParts DEF HeaderOK
  <2>2. \A x, y \in Byte : <<x, y>> \in Seq(Byte) /\ Len(<<x, y>>) = 2
    OBVIOUS
  <2> QED BY <2>1, <2>2
<1>2. /\ o \in Seq(Byte) /\ Len(o) = (IF f.ordinal # {} THEN 2 ELSE 0)
      /\ n \in Seq(Byte) /\ Len(n) = (IF f.name # {} THEN Len(The(f.name)) + 1 ELSE 0)
      /\ EncodeFieldHeader(f, size) = (p \o o) \o n
  BY HeaderParts
<1> HIDE DEF p, o, n
<1>3. (p \o o) \o n \in Seq(Byte) /\ Len((p \o o) \o n) = Len(p) + Len(o) + Len(n)
  <2>1. p \o o \in Seq(Byte) /\ Len(p \o o) = Len(p) + Len(o)
    BY <1>1, <1>2, Joined, Zenon
  <2> DEFINE po == p \o o
  <2> HIDE DEF po
  <2>2. po \o n \in Seq(Byte) /\ Len(po \o n) = Len(po) + Len(n)
    <3>1. po \in Seq(Byte)
      BY <2>1 DEF po
    <3> QED BY <1>2, <3>1, Joined, Zenon
  <2> QED BY <2>1, <2>2 DEF po
<1>4. f.name # {} => Len(The(f.name)) \in Nat
  <2> HAVE f.name # {}
  <2>1. The(f.name) \in Seq(Byte)
    BY OnlyOne DEF HeaderOK
  <2> QED BY <2>1
<1> QED
  <2>1. Len(EncodeFieldHeader(f, size)) = 2 + Len(o) + Len(n)
    BY <1>1, <1>2, <1>3
  <2>2. HeaderLength(Shape(f)) = 2 + (IF f.ordinal # {} THEN 2 ELSE 0)
                                   + (IF f.name # {} THEN Len(The(f.name)) + 1 ELSE 0)
    <3>1. CASE f.name = {}
      BY <3>1 DEF HeaderLength, Shape, NoName
    <3>2. CASE f.name # {}
      <4> DEFINE k == Len(The(f.name))
      <4>1. k \in Nat /\ k # NoName
        BY <1>4, <3>2 DEF NoName
      <4>2. Shape(f).name = k /\ (Shape(f).ordinal <=> f.ordinal # {})
        BY <3>2 DEF Shape
      <4> HIDE DEF k
      <4>3. HeaderLength(Shape(f)) = 2 + (IF f.ordinal # {} THEN 2 ELSE 0) + (k + 1)
        BY <4>1, <4>2 DEF HeaderLength
      <4> QED BY <3>2, <4>3 DEF k
    <3> QED BY <3>1, <3>2
  <2> QED BY <1>2, <1>3, <2>1, <2>2

(* A name of less than 128 bytes is read back from behind its length.      *)
LEMMA NameReadBack ==
    ASSUME NEW n \in Seq(Byte), Len(n) < 128, NEW c \in Seq(Byte), NEW rest \in Seq(Byte)
    PROVE  DecodeName((c \o (<<Len(n)>> \o n)) \o rest, Len(c))
               = [status |-> "OK", name |-> {n}, consumed |-> Len(c) + 1 + Len(n)]
<1> DEFINE one == <<Len(n)>>
           t == one \o n
           b == (c \o t) \o rest
           i == Len(c)
           k == Len(n)
<1>1. i \in Nat /\ k \in Nat /\ k < 128 /\ Len(rest) \in Nat
  OBVIOUS
<1>2. one \in Seq(Byte) /\ Len(one) = 1 /\ one[1] = k
  <2>1. \A x \in Nat : x < 128 => x \in Byte
    BY DEF Byte
  <2> QED BY <1>1, <2>1
<1> HIDE DEF one
<1>3. t \in Seq(Byte) /\ Len(t) = 1 + k /\ t[1] = k
  <2>0. one \in Seq(Byte)
    BY <1>2
  <2>1. t \in Seq(Byte) /\ Len(t) = Len(one) + Len(n)
    BY <2>0, ConcatProperties
  <2>3. 1 \in 1..Len(one)
    BY <1>2
  <2>2. t[1] = one[1]
    BY <2>0, <2>3, FirstOnes
  <2> QED BY <1>2, <2>1, <2>2
<1>4. b \in Seq(Byte) /\ Len(b) = i + (1 + k) + Len(rest) /\ b[i + 1] = k
  <2> HIDE DEF t
  <2>0. t \in Seq(Byte)
    BY <1>3
  <2>1. /\ b \in Seq(Byte) /\ Len(b) = Len(c) + Len(t) + Len(rest)
        /\ \A j \in 1..Len(t) : b[Len(c) + j] = t[j]
    BY <2>0, Middle
  <2>2. 1 \in 1..Len(t)
    BY <1>1, <1>3
  <2> QED BY <1>3, <2>1, <2>2
<1>5. SubSeq(b, i + 2, i + 1 + k) = n
  <2> DEFINE c1 == c \o one
  <2>0. one \in Seq(Byte)
    BY <1>2
  <2>9. c1 \in Seq(Byte) /\ Len(c1) = Len(c) + Len(one)
    BY <2>0, ConcatProperties
  <2>1. c1 \in Seq(Byte) /\ Len(c1) = i + 1
    BY <1>2, <2>9
  <2>2. c \o t = c1 \o n
    <3>1. Regroups(c, one, n)
      BY <1>2, <2>0, Regrouped, Zenon
    <3> QED BY <3>1, Zenon DEF Regroups
  <2>3. b = (c1 \o n) \o rest
    BY <2>2
  <2> HIDE DEF c1, b
  <2>4. SubSeq((c1 \o n) \o rest, Len(c1) + 1, Len(c1) + Len(n)) = n
    BY <2>1, Middle
  <2>5. Len(c1) + 1 = i + 2 /\ Len(c1) + Len(n) = i + 1 + k
    BY <1>1, <2>1
  <2> QED BY <2>3, <2>4, <2>5
<1> HIDE DEF b, i, k
<1>6. SignedByte(b[i + 1]) = k
  BY <1>1, <1>4 DEF SignedByte
<1>7. ~(i > Len(b)) /\ i # Len(b) /\ ~(i + 1 + k > Len(b)) /\ ~(k < 0)
  BY <1>1, <1>4
<1>8. DecodeName(b, i) = [status |-> "OK", name |-> {SubSeq(b, i + 2, i + 1 + k)},
                          consumed |-> i + 1 + k]
  BY <1>6, <1>7, SMT DEF DecodeName
<1> QED
  BY <1>5, <1>8 DEF b, i, k, t, one

(* The header of a field whose name is shorter than 128 bytes: longer ones *)
(* have a length that is read as negative.                                 *)
Readable(f) == HeaderOK(f) /\ \A n \in f.name : Len(n) < 128

(* A header is read back, whatever follows it: FudgeHeader_encodeField-    *)
(* Header and FudgeHeader_decodeFieldHeader.                               *)
LEMMA HeaderReadBack ==
    ASSUME NEW f, Readable(f), NEW size \in Nat, NEW rest \in Seq(Byte)
    PROVE  DecodeFieldHeader(EncodeFieldHeader(f, size) \o rest)
               = [status |-> "OK", type |-> f.type, name |-> f.name, ordinal |-> f.ordinal,
                  widthofwidth |-> PrefixOf(f, size).variablewidth,
                  consumed |-> Len(EncodeFieldHeader(f, size))]
<1> DEFINE pre == EncodePrefix(PrefixOf(f, size))
           p == <<pre, f.type>>
           o == OrdinalBytes(f)
           n == NameBytes(f)
           h == EncodeFieldHeader(f, size)
           b == h \o rest
           c == p \o o
           index == IF f.ordinal # {} THEN 4 ELSE 2
<1>0. HeaderOK(f)
  BY DEF Readable
<1>1. p \in Seq(Byte) /\ Len(p) = 2 /\ p[1] = pre /\ p[2] = f.type
      /\ DecodePrefix(pre) = PrefixOf(f, size)
  <2>1. pre \in Byte /\ f.type \in Byte /\ DecodePrefix(pre) = PrefixOf(f, size)
    BY <1>0, HeaderParts DEF HeaderOK
  <2>2. \A x, y \in Byte : /\ <<x, y>> \in Seq(Byte) /\ Len(<<x, y>>) = 2
                           /\ <<x, y>>[1] = x /\ <<x, y>>[2] = y
    OBVIOUS
  <2> QED BY <2>1, <2>2
<1> HIDE DEF pre, p
<1>2. /\ o \in Seq(Byte) /\ Len(o) = (IF f.ordinal # {} THEN 2 ELSE 0)
      /\ n \in Seq(Byte) /\ Len(n) = (IF f.name # {} THEN Len(The(f.name)) + 1 ELSE 0)
      /\ h = c \o n
  BY <1>0, HeaderParts DEF p, pre
<1>3. h \in Seq(Byte)
  BY <1>0, HeaderBytes
<1> HIDE DEF o, n, h
<1>4. c \in Seq(Byte) /\ Len(c) = index
  <2>1. c \in Seq(Byte) /\ Len(c) = Len(p) + Len(o)
    BY <1>1, <1>2, Joined, Zenon
  <2> QED BY <1>1, <1>2, <2>1
<1>5. Len(h) = index + Len(n) /\ Len(n) \in Nat /\ Len(rest) \in Nat
  <2>1. n \in Seq(Byte) /\ c \in Seq(Byte)
    BY <1>2, <1>4
  <2> HIDE DEF c
  <2>2. Len(c \o n) = Len(c) + Len(n)
    BY <2>1, ConcatProperties
  <2> QED BY <1>2, <1>4, <2>1, <2>2
<1>6. b \in Seq(Byte) /\ Len(b) = Len(h) + Len(rest)
  BY <1>3, ConcatProperties
<1> DEFINE nr == n \o rest
<1>7. nr \in Seq(Byte)
  BY <1>2, ConcatProperties
<1>8. b = c \o nr
  <2>1. n \in Seq(Byte) /\ c \in Seq(Byte)
    BY <1>2, <1>4
  <2> HIDE DEF c
  <2>2. (c \o n) \o rest = c \o (n \o rest)
    BY <2>1, Associative
  <2> QED BY <1>2, <2>2
<1>9. /\ b[1] = pre /\ b[2] = f.type
      /\ f.ordinal # {} => SubSeq(b, 3, 4) = o
  <2> HIDE DEF nr, b
  <2>0. p \in Seq(Byte) /\ o \in Seq(Byte)
    BY <1>1, <1>2
  <2>1. /\ \A i \in 1..Len(p) : ((p \o o) \o nr)[i] = p[i]
        /\ SubSeq((p \o o) \o nr, Len(p) + 1, Len(p) + Len(o)) = o
    BY <2>0, <1>7, Middle
  <2>2. 1 \in 1..Len(p) /\ 2 \in 1..Len(p)
    BY <1>1
  <2>3. f.ordinal # {} => Len(p) + 1 = 3 /\ Len(p) + Len(o) = 4
    BY <1>1, <1>2
  <2> QED BY <1>1, <1>8, <2>1, <2>2, <2>3
<1>10. f.ordinal # {} => {DecodeI16(SubSeq(b, 3, 4))} = f.ordinal
  <2> HAVE f.ordinal # {}
  <2>1. The(f.ordinal) \in I16 /\ f.ordinal = {The(f.ordinal)}
    BY <1>0, OnlyOne DEF HeaderOK
  <2>2. o = EncodeI16(The(f.ordinal))
    BY DEF o, OrdinalBytes
  <2>3. DecodeI16(EncodeI16(The(f.ordinal))) = The(f.ordinal)
    BY <2>1, I16RoundTrip
  <2> QED BY <1>9, <2>1, <2>2, <2>3
<1> DEFINE rname == IF f.name # {} THEN DecodeName(b, index)
                    ELSE [status |-> "OK", name |-> {}, consumed |-> index]
<1>11. rname = [status |-> "OK", name |-> f.name, consumed |-> Len(h)]
  <2>1. CASE f.name = {}
    <3>1. Len(h) = index
      BY <1>2, <1>5, <2>1
    <3> QED BY <2>1, <3>1
  <2>2. CASE f.name # {}
    <3> DEFINE nm == The(f.name)
    <3>1. nm \in Seq(Byte) /\ f.name = {nm} /\ Len(nm) < 128
      BY <1>0, <2>2, OnlyOne DEF HeaderOK, Readable
    <3>2. n = <<Len(nm)>> \o nm
      BY <2>2 DEF n, NameBytes
    <3> HIDE DEF nm, c
    <3>3. DecodeName((c \o (<<Len(nm)>> \o nm)) \o rest, Len(c))
               = [status |-> "OK", name |-> {nm}, consumed |-> Len(c) + 1 + Len(nm)]
      BY <1>4, <3>1, NameReadBack
    <3>4. b = (c \o (<<Len(nm)>> \o nm)) \o rest
      BY <1>2, <3>2
    <3>5. Len(h) = Len(c) + 1 + Len(nm)
      <4>1. Len(n) = Len(nm) + 1 /\ Len(nm) \in Nat /\ Len(c) \in Nat
        BY <1>2, <2>2, <3>1, <1>4 DEF nm
      <4> QED BY <1>4, <1>5, <4>1
    <3> QED BY <1>4, <2>2, <3>1, <3>3, <3>4, <3>5
  <2> QED BY <2>1, <2>2
<1>12. Len(b) >= index /\ Len(b) \in Nat
  BY <1>5, <1>6
<1> DEFINE prefix == PrefixOf(f, size)
<1>13. /\ prefix.ordinal <=> f.ordinal # {}
       /\ prefix.name <=> f.name # {}
       /\ (IF prefix.fixedwidth THEN 0 ELSE prefix.variablewidth) = prefix.variablewidth
  BY DEF PrefixOf
<1> HIDE DEF b, rname, prefix
<1>14. b # <<>> /\ Len(b) # 1
  <2> DEFINE len == Len(b)
  <2>1. index \in Nat /\ index >= 2 /\ len \in Nat /\ len >= index
    BY <1>12
  <2> HIDE DEF index, len
  <2>2. len # 0 /\ len # 1
    BY <2>1
  <2>3. Len(<<>>) = 0
    OBVIOUS
  <2> QED BY <2>2, <2>3, Zenon DEF len
<1>15. DecodeFieldHeader(b) =
         IF f.ordinal # {} /\ Len(b) < 3 THEN OutOfBytes
         ELSE IF f.ordinal # {} /\ Len(b) < 4 THEN Fail("MALFORMED")
         ELSE IF rname.status # "OK" THEN rname
         ELSE [status |-> "OK", type |-> b[2], name |-> rname.name,
               ordinal |-> IF f.ordinal # {} THEN {DecodeI16(SubSeq(b, 3, 4))} ELSE {},
               widthofwidth |-> prefix.variablewidth,
               consumed |-> rname.consumed]
  <2>1. DecodePrefix(b[1]) = prefix
    BY <1>1, <1>9 DEF prefix
  <2>2. (IF prefix.ordinal THEN 4 ELSE 2) = index
    BY <1>13
  <2>3. (IF prefix.name THEN DecodeName(b, index)
         ELSE [status |-> "OK", name |-> {}, consumed |-> index]) = rname
    BY <1>13 DEF rname
  <2> HIDE DEF index
  <2>4. DecodeFieldHeader(b) =
         IF prefix.ordinal /\ Len(b) < 3 THEN OutOfBytes
         ELSE IF prefix.ordinal /\ Len(b) < 4 THEN Fail("MALFORMED")
         ELSE IF rname.status # "OK" THEN rname
         ELSE [status |-> "OK", type |-> b[2], name |-> rname.name,
               ordinal |-> IF prefix.ordinal THEN {DecodeI16(SubSeq(b, 3, 4))} ELSE {},
               widthofwidth |-> IF prefix.fixedwidth THEN 0 ELSE prefix.variablewidth,
               consumed |-> rname.consumed]
    BY <1>14, <2>1, <2>2, <2>3, Zenon DEF DecodeFieldHeader
  <2> QED BY <1>13, <2>4
<1>16. ~(f.ordinal # {} /\ Len(b) < 3) /\ ~(f.ordinal # {} /\ Len(b) < 4)
  BY <1>12
<1>17. (IF f.ordinal # {} THEN {DecodeI16(SubSeq(b, 3, 4))} ELSE {}) = f.ordinal
  BY <1>10
<1>18. rname.status = "OK" /\ rname.name = f.name /\ rname.consumed = Len(h)
  BY <1>11
<1>19. DecodeFieldHeader(b) = [status |-> "OK", type |-> b[2], name |-> rname.name,
               ordinal |-> IF f.ordinal # {} THEN {DecodeI16(SubSeq(b, 3, 4))} ELSE {},
               widthofwidth |-> prefix.variablewidth,
               consumed |-> rname.consumed]
  BY <1>15, <1>16, <1>18, Zenon
<1> QED
  BY <1>9, <1>17, <1>18, <1>19, Zenon DEF b, h, prefix

-----------------------------------------------------------------------------
(* The width of a field, and the whole of it.                              *)

(* The length in front of the data: where there is one, it takes as many   *)
(* bytes as the prefix says.                                               *)
WidthBytes(f, size) == IF FixedWidth[f.type] >= 0 THEN <<>> ELSE EncodeLength(size)

(* The width is written in as many bytes as the prefix announces.          *)
LEMMA WidthWritten ==
    ASSUME NEW f, f.type \in Byte, NEW size \in Nat
    PROVE  /\ WidthBytes(f, size) \in Seq(Byte)
           /\ Len(WidthBytes(f, size)) = PrefixOf(f, size).variablewidth
           /\ Len(WidthBytes(f, size)) = PrefixLength(Shape(f), size)
           /\ FixedWidth[f.type] < 0 => Len(WidthBytes(f, size)) \in {1, 2, 4}
<1>1. /\ EncodeLength(size) \in Seq(Byte)
      /\ Len(EncodeLength(size)) = BytesToHoldSize(size)
      /\ BytesToHoldSize(size) \in {1, 2, 4}
  <2>1. CASE size < 256
    <3>1. BytesToHoldSize(size) = 1 /\ EncodeLength(size) = <<size>>
      BY <2>1, SMT DEF BytesToHoldSize, EncodeLength
    <3>2. size \in Byte
      BY <2>1 DEF Byte
    <3>3. \A x \in Byte : <<x>> \in Seq(Byte) /\ Len(<<x>>) = 1
      OBVIOUS
    <3> QED BY <3>1, <3>2, <3>3
  <2>2. CASE size >= 256 /\ size < 32768
    <3>1. BytesToHoldSize(size) = 2 /\ EncodeLength(size) = EncodeI16(size)
      BY <2>2, SMT DEF BytesToHoldSize, EncodeLength
    <3>2. size \in Int
      OBVIOUS
    <3> QED BY <3>1, <3>2, EncodedBytes
  <2>3. CASE size >= 32768
    <3>1. BytesToHoldSize(size) = 4 /\ EncodeLength(size) = EncodeI32(size)
      BY <2>3, SMT DEF BytesToHoldSize, EncodeLength
    <3>2. size \in Int
      OBVIOUS
    <3> QED BY <3>1, <3>2, EncodedBytes
  <2> QED BY <2>1, <2>2, <2>3
<1>2. FixedWidth[f.type] \in Int
  BY Widths
<1>3. Shape(f).fixedwidth = FixedWidth[f.type]
  BY DEF Shape
<1>4. CASE FixedWidth[f.type] >= 0
  <2>1. WidthBytes(f, size) = <<>> /\ PrefixOf(f, size).variablewidth = 0
        /\ PrefixLength(Shape(f), size) = 0 /\ ~(FixedWidth[f.type] < 0)
    BY <1>2, <1>3, <1>4 DEF WidthBytes, PrefixOf, PrefixLength
  <2> QED BY <2>1, EmptySeq
<1>5. CASE ~(FixedWidth[f.type] >= 0)
  <2>1. WidthBytes(f, size) = EncodeLength(size)
        /\ PrefixOf(f, size).variablewidth = BytesToHoldSize(size)
        /\ PrefixLength(Shape(f), size) = BytesToHoldSize(size)
    BY <1>2, <1>3, <1>5 DEF WidthBytes, PrefixOf, PrefixLength
  <2> QED BY <1>1, <2>1
<1> QED
  BY <1>4, <1>5

(* FudgeHeader_getFieldWidth finds the size of the data in front of it, or *)
(* knows it by the type.                                                   *)
LEMMA WidthReadBack ==
    ASSUME NEW f, f.type \in Byte, NEW size \in Nat, size \in I32,
           FixedWidth[f.type] >= 0 => FixedWidth[f.type] = size,
           NEW h, h.type = f.type, h.widthofwidth = PrefixOf(f, size).variablewidth,
           NEW more \in Seq(Byte)
    PROVE  GetFieldWidth(h, WidthBytes(f, size) \o more)
               = [status |-> "OK", width |-> size, consumed |-> Len(WidthBytes(f, size))]
<1> DEFINE w == WidthBytes(f, size)
           b == w \o more
           k == Len(w)
           width == IF h.widthofwidth = 0 THEN FixedWidth[h.type]
                    ELSE DecodeLength(SubSeq(b, 1, h.widthofwidth))
<1>1. w \in Seq(Byte) /\ k = h.widthofwidth /\ (FixedWidth[f.type] < 0 => k \in {1, 2, 4})
  BY WidthWritten
<1>2. FixedWidth[f.type] \in Int
  BY Widths
<1>3. CASE FixedWidth[f.type] >= 0
  <2>1. k = 0
    BY <1>3, EmptySeq DEF WidthBytes
  <2>2. width = size
    BY <1>1, <1>3, <2>1
  <2> QED
    <3>1. b \in Seq(Byte) /\ Len(b) \in Nat
      <4> HIDE DEF w
      <4>1. b \in Seq(Byte)
        BY <1>1, ConcatProperties
      <4> QED BY <4>1
    <3>2. h.widthofwidth = 0
      BY <1>1, <2>1
    <3> HIDE DEF b, width
    <3>3. ~(h.widthofwidth > Len(b)) /\ ~(width < 0)
      BY <3>1, <3>2, <2>2
    <3>4. GetFieldWidth(h, b) = [status |-> "OK", width |-> width, consumed |-> h.widthofwidth]
      BY <3>3 DEF GetFieldWidth, width
    <3> QED BY <1>1, <2>2, <3>4 DEF b
<1>4. CASE FixedWidth[f.type] < 0
  <2>1. w = EncodeLength(size) /\ k \in {1, 2, 4}
    BY <1>1, <1>2, <1>4 DEF WidthBytes
  <2>2. DecodeLength(w) = size
    <3>1. size \in Between(0, 2147483647)
      BY SMT DEF I32, Between
    <3> QED BY <2>1, <3>1, LengthRoundTrip, SMT
  <2> HIDE DEF w
  <2>3. SubSeq(b, 1, Len(w)) = w
    BY <1>1, TakenApart
  <2>4. width = size
    <3>1. SubSeq(b, 1, h.widthofwidth) = w /\ h.widthofwidth # 0
      BY <1>1, <2>1, <2>3
    <3> HIDE DEF b
    <3> QED BY <2>2, <3>1
  <2>5. b \in Seq(Byte) /\ Len(b) = Len(w) + Len(more)
    BY <1>1, ConcatProperties
  <2> HIDE DEF b, width
  <2>6. ~(h.widthofwidth > Len(b)) /\ ~(width < 0)
    <3>1. Len(more) \in Nat
      OBVIOUS
    <3> QED BY <1>1, <2>1, <2>4, <2>5, <3>1
  <2>7. GetFieldWidth(h, b) = [status |-> "OK", width |-> width, consumed |-> h.widthofwidth]
    BY <2>6 DEF GetFieldWidth, width
  <2> QED BY <1>1, <2>4, <2>7 DEF b, w
<1> QED
  BY <1>2, <1>3, <1>4

(* One turn of FudgeCodec_decodeMsgFields on one field and whatever        *)
(* follows it, if the decoder of the type reads back the data.             *)
LEMMA FieldReadBack ==
    ASSUME NEW f, Readable(f), f = Field(f.type, f.name, f.ordinal, f.data),
           NEW bytes \in Seq(Byte), Len(bytes) \in I32,
           FixedWidth[f.type] >= 0 => FixedWidth[f.type] = Len(bytes),
           NEW decoded, DecodeValue(f.type, bytes, decoded) = Ok(f.data),
           NEW rest \in Seq(Byte)
    PROVE  DecodeField(((EncodeFieldHeader(f, Len(bytes)) \o WidthBytes(f, Len(bytes)))
                            \o bytes) \o rest, decoded)
               = [status |-> "OK", rest |-> rest, field |-> f]
<1>0. \A a, b, c \in Seq(Byte) : (a \o b) \o c = a \o (b \o c)
  <2> TAKE a, b, c \in Seq(Byte)
  <2>1. Regroups(a, b, c)
    BY Regrouped, Zenon
  <2> QED BY <2>1, Zenon DEF Regroups
<1> DEFINE size == Len(bytes)
           hb == EncodeFieldHeader(f, size)
           wb == WidthBytes(f, size)
           b == ((hb \o wb) \o bytes) \o rest
           data == bytes \o rest
           behind == wb \o data
           h == DecodeFieldHeader(b)
           w == GetFieldWidth(h, behind)
<1>1. size \in Nat /\ f.type \in Byte /\ HeaderOK(f)
  BY DEF Readable, HeaderOK
<1>2. hb \in Seq(Byte)
  BY <1>1, HeaderBytes
<1>3. wb \in Seq(Byte)
  BY <1>1, WidthWritten
<1>4. h = [status |-> "OK", type |-> f.type, name |-> f.name, ordinal |-> f.ordinal,
           widthofwidth |-> PrefixOf(f, size).variablewidth, consumed |-> Len(hb)]
      /\ From(b, Len(hb)) = behind
  <2> HIDE DEF hb, wb
  <2>1. data \in Seq(Byte)
    BY ConcatProperties
  <2>2. behind \in Seq(Byte)
    <3> HIDE DEF data
    <3> QED BY <1>3, <2>1, ConcatProperties
  <2>9. (hb \o wb) \o data = hb \o (wb \o data)
    <3> HIDE DEF data
    <3>1. Regroups(hb, wb, data)
      BY <1>2, <1>3, <2>1, Regrouped, Zenon
    <3> QED BY <3>1, Zenon DEF Regroups
  <2>3. b = hb \o behind
    <3> DEFINE hw == hb \o wb
    <3>1. hw \in Seq(Byte)
      BY <1>2, <1>3, Joined, Zenon
    <3>2. hw \o data = hb \o (wb \o data)
      BY <2>9
    <3> HIDE DEF hw
    <3>3. (hw \o bytes) \o rest = hw \o (bytes \o rest)
      <4>1. Regroups(hw, bytes, rest)
        BY <3>1, Regrouped, Zenon
      <4> QED BY <4>1, Zenon DEF Regroups
    <3> QED BY <3>2, <3>3 DEF hw
  <2> HIDE DEF behind, b, size
  <2>4. From(hb \o behind, Len(hb)) = behind
    BY <1>2, <2>2, TakenApart
  <2>5. DecodeFieldHeader(hb \o behind)
               = [status |-> "OK", type |-> f.type, name |-> f.name, ordinal |-> f.ordinal,
                  widthofwidth |-> PrefixOf(f, size).variablewidth,
                  consumed |-> Len(hb)]
    BY <1>1, <2>2, HeaderReadBack DEF hb
  <2> QED BY <2>3, <2>4, <2>5
<1>15. h = DecodeFieldHeader(b)
  OBVIOUS
<1> HIDE DEF b, h
<1>5. data \in Seq(Byte) /\ Len(data) = size + Len(rest)
  BY ConcatProperties
<1>6. w = [status |-> "OK", width |-> size, consumed |-> Len(wb)]
  <2>1. h.type = f.type /\ h.widthofwidth = PrefixOf(f, size).variablewidth
    BY <1>4
  <2> HIDE DEF data
  <2> QED BY <1>1, <1>5, <2>1, WidthReadBack
<1>7. From(behind, Len(wb)) = data
  <2> HIDE DEF data, wb
  <2> QED BY <1>3, <1>5, TakenApart
<1>8. SubSeq(data, 1, size) = bytes /\ From(data, size) = rest
  BY TakenApart
<1>9. ~(size > Len(data))
  <2>1. Len(rest) \in Nat
    OBVIOUS
  <2> QED BY <1>1, <1>5, <2>1
<1> HIDE DEF hb, wb, behind, data, size, w
<1>10. h.status = "OK" /\ h.type = f.type /\ h.name = f.name /\ h.ordinal = f.ordinal
       /\ From(b, h.consumed) = behind
  BY <1>4
<1>11. w.status = "OK" /\ w.width = size /\ From(behind, w.consumed) = data
       /\ w = GetFieldWidth(h, behind)
  BY <1>6, <1>7 DEF w
<1>12. {n \in h.name : CreateFromUTF8(n).status # "OK"} = {}
  <2>1. \A n \in f.name : CreateFromUTF8(n) = Ok(n)
    BY <1>1 DEF HeaderOK
  <2> QED BY <1>10, <2>1 DEF Ok
<1> DEFINE v == DecodeValue(h.type, SubSeq(data, 1, w.width), decoded)
<1>13. v.status = "OK" /\ v.value = f.data
  <2>1. SubSeq(data, 1, w.width) = bytes
    BY <1>8, <1>11
  <2>2. v = Ok(f.data)
    BY <1>10, <2>1
  <2> HIDE DEF v
  <2> QED BY <2>2 DEF Ok
<1> HIDE DEF v
<1>14. DecodeField(b, decoded) =
         [status |-> "OK", rest |-> From(data, w.width),
          field |-> Field(h.type, h.name, h.ordinal, v.value)]
  <2>1. w.width = size /\ ~(w.width > Len(data))
    BY <1>9, <1>11
  <2> QED BY <1>10, <1>11, <1>12, <1>13, <2>1, <1>15, Zenon
            DEF DecodeField, DecodeBehind, DecodeData, v
<1> QED
  BY <1>8, <1>10, <1>11, <1>13, <1>14 DEF b, hb, wb, size

(* What the decoder of headers returns.                                    *)
LEMMA HeaderShape ==
    ASSUME NEW b \in Seq(Byte), DecodeFieldHeader(b).status = "OK"
    PROVE  LET h == DecodeFieldHeader(b)
           IN  /\ h.type \in Byte /\ h.widthofwidth \in {0, 1, 2, 4}
               /\ h.consumed \in Nat /\ h.consumed >= 2
<1> DEFINE prefix == DecodePrefix(b[1])
           index == IF prefix.ordinal THEN 4 ELSE 2
           rest == IF prefix.name THEN DecodeName(b, index)
                   ELSE [status |-> "OK", name |-> {}, consumed |-> index]
           h == DecodeFieldHeader(b)
           ww == IF prefix.fixedwidth THEN 0 ELSE prefix.variablewidth
           ord == IF prefix.ordinal THEN {DecodeI16(SubSeq(b, 3, 4))} ELSE {}
<1>0. \A x \in Byte : x \in Int
  BY DEF Byte
<1>1. Len(b) \in Nat
  OBVIOUS
<1>2. b # <<>> /\ Len(b) # 1
  BY DEF DecodeFieldHeader, OutOfBytes, Fail
<1>3. Len(b) >= 2
  <2>1. Len(b) = 0 => b = <<>>
    OBVIOUS
  <2>2. \A n \in Nat : n # 0 /\ n # 1 => n >= 2
    OBVIOUS
  <2> QED BY <1>1, <1>2, <2>1, <2>2
<1>4. h = IF prefix.ordinal /\ Len(b) < 3 THEN OutOfBytes
          ELSE IF prefix.ordinal /\ Len(b) < 4 THEN Fail("MALFORMED")
          ELSE IF rest.status # "OK" THEN rest
          ELSE [status |-> "OK", type |-> b[2], name |-> rest.name, ordinal |-> ord,
                widthofwidth |-> ww, consumed |-> rest.consumed]
  BY <1>2, Zenon DEF DecodeFieldHeader
<1>5. ww \in {0, 1, 2, 4}
  <2>1. b[1] \in Byte /\ b[1] \in Int
    <3>1. 1 \in 1..Len(b)
      BY <1>3
    <3>2. b[1] \in Byte
      BY <3>1, ElementOfSeq
    <3> QED BY <3>2, <1>0
  <2>2. prefix.variablewidth = (IF (b[1] \div 32) % 4 = 3 THEN 4 ELSE (b[1] \div 32) % 4)
    BY SMT DEF DecodePrefix
  <2>3. (b[1] \div 32) % 4 \in {0, 1, 2, 3}
    <3> DEFINE x == b[1]
    <3> HIDE DEF x
    <3>1. x \in Int
      BY <2>1 DEF x
    <3>2. (x \div 32) % 4 \in {0, 1, 2, 3}
      BY <3>1, SMT
    <3> QED BY <3>2 DEF x
  <2> HIDE DEF prefix
  <2> QED BY <2>2, <2>3
<1>6. b[2] \in Byte
  <2>1. 2 \in 1..Len(b)
    BY <1>1, <1>3
  <2> QED BY <2>1, ElementOfSeq
<1>7. index \in Nat /\ index >= 2
  OBVIOUS
<1>8. rest.status = "OK" => rest.consumed \in Nat /\ rest.consumed >= 2
  <2> HAVE rest.status = "OK"
  <2>1. CASE prefix.name
    <3> DEFINE length == SignedByte(b[index + 1])
    <3> HIDE DEF prefix, index
    <3>1. rest = DecodeName(b, index)
      BY <2>1
    <3>2. DecodeName(b, index).status = "OK"
      BY <3>1
    <3> HIDE DEF rest
    <3>3. /\ ~(index > Len(b)) /\ index # Len(b) /\ ~(length < 0)
          /\ rest.consumed = index + 1 + length
      BY <3>1, <3>2, SMT DEF DecodeName, OutOfBytes, Fail
    <3>4. length \in Int
      <4>1. index + 1 \in 1..Len(b)
        BY <1>1, <1>7, <3>3
      <4>2. b[index + 1] \in Byte
        BY <4>1, ElementOfSeq
      <4>3. b[index + 1] \in Int
        BY <4>2, <1>0
      <4> QED BY <4>3 DEF SignedByte
    <3> HIDE DEF length
    <3> QED BY <1>7, <3>3, <3>4
  <2>2. CASE ~prefix.name
    <3>1. rest.consumed = index
      BY <2>2
    <3> QED BY <1>7, <3>1
  <2> QED BY <2>1, <2>2
<1>9. h.status = "OK"
  OBVIOUS
<1> HIDE DEF h, rest, ww, ord, prefix
<1>10. /\ rest.status = "OK"
       /\ h = [status |-> "OK", type |-> b[2], name |-> rest.name, ordinal |-> ord,
               widthofwidth |-> ww, consumed |-> rest.consumed]
  BY <1>4, <1>9 DEF OutOfBytes, Fail
<1> QED
  BY <1>5, <1>6, <1>8, <1>10 DEF h

(* Bytes make an integer.                                                  *)
LEMMA IntegerRead ==
    ASSUME NEW b, b[1] \in Int, b[2] \in Int, b[3] \in Int, b[4] \in Int
    PROVE  DecodeI32(b) \in Int
<1>1. PICK p \in Int : p = SignedByte(b[1])
  BY DEF SignedByte
<1>2. PICK q \in Int : q = b[2]
  OBVIOUS
<1>3. PICK r \in Int : r = b[3]
  OBVIOUS
<1>4. PICK t \in Int : t = b[4]
  OBVIOUS
<1>5. DecodeI32(b) = p * 16777216 + q * 65536 + r * 256 + t
  BY <1>1, <1>2, <1>3, <1>4, SMT DEF DecodeI32
<1> QED
  BY <1>5, SMT

(* And what that of widths does.                                           *)
LEMMA WidthShape ==
    ASSUME NEW h, h.type \in Byte, h.widthofwidth \in {0, 1, 2, 4}, NEW b \in Seq(Byte),
           GetFieldWidth(h, b).status = "OK"
    PROVE  GetFieldWidth(h, b).width \in Nat /\ GetFieldWidth(h, b).consumed \in Nat
<1> DEFINE k == h.widthofwidth
           width == IF k = 0 THEN FixedWidth[h.type] ELSE DecodeLength(SubSeq(b, 1, k))
           w == GetFieldWidth(h, b)
<1>0. \A x \in Byte : x \in Int
  BY DEF Byte
<1>1. w = IF k > Len(b) THEN OutOfBytes
          ELSE IF width < 0
            THEN Fail(IF k = 0 THEN "UNKNOWN_FIELD_WIDTH" ELSE "MALFORMED")
          ELSE [status |-> "OK", width |-> width, consumed |-> k]
  BY Zenon DEF GetFieldWidth
<1>2. ~(k > Len(b)) => width \in Int
  <2> HAVE ~(k > Len(b))
  <2>1. CASE k = 0
    BY <2>1, Widths
  <2>2. CASE k # 0
    <3> DEFINE d == SubSeq(b, 1, k)
    <3>1. d \in Seq(Byte) /\ Len(d) = k
      <4>1. k \in Nat /\ k <= Len(b)
        OBVIOUS
      <4> QED BY <4>1, Rest
    <3> HIDE DEF d
    <3>2. \A i \in 1..k : d[i] \in Int
      <4>1. \A i \in 1..k : d[i] \in Byte
        BY <3>1, ElementOfSeq
      <4> QED BY <4>1, <1>0
    <3>3. CASE k = 1
      <4>1. d[1] \in Int
        BY <3>2, <3>3
      <4> QED BY <3>1, <3>3, <4>1 DEF DecodeLength, d
    <3>4. CASE k = 2
      <4>1. d[1] \in Int /\ d[2] \in Int
        BY <3>2, <3>4
      <4> QED BY <3>1, <3>4, <4>1 DEF DecodeLength, d
    <3>5. CASE k = 4
      <4>1. d[1] \in Int /\ d[2] \in Int /\ d[3] \in Int /\ d[4] \in Int
        BY <3>2, <3>5
      <4>2. DecodeI32(d) \in Int
        <5> QED BY <4>1, IntegerRead
      <4> QED BY <3>1, <3>5, <4>2 DEF DecodeLength, d
    <3> QED BY <2>2, <3>3, <3>4, <3>5
  <2> QED BY <2>1, <2>2
<1>3. w.status = "OK"
  OBVIOUS
<1> HIDE DEF w, width
<1>4. /\ ~(k > Len(b)) /\ ~(width < 0)
      /\ w = [status |-> "OK", width |-> width, consumed |-> k]
  BY <1>1, <1>3 DEF OutOfBytes, Fail
<1>5. width \in Nat /\ k \in Nat
  BY <1>2, <1>4
<1> QED
  BY <1>4, <1>5 DEF w

-----------------------------------------------------------------------------
(* FudgeCodec_decodeMsgFields, turn by turn.                               *)

(* FudgeCodec_decodeMsgFields, with decoded for what it calls.             *)
DecodeTurn(b, decoded) ==
    LET first  == DecodeField(b, decoded)
        others == decoded[first.rest]
    IN  IF b = <<>> THEN Ok(<<>>)
        ELSE IF first.status # "OK" THEN first
        ELSE IF others.status # "OK" THEN others
        ELSE Ok(<<first.field>> \o others.value)

(* g and h are the same for bytes fewer than those of b.                   *)
SameBelow(g, h, n) == \A c \in Seq(Byte) : Len(c) < n => g[c] = h[c]

(* A turn asks for messages in fewer bytes than it has, for submessages    *)
(* and for what follows the first field.                                   *)
LEMMA TurnLocal ==
    ASSUME NEW b \in Seq(Byte), NEW g, NEW h, SameBelow(g, h, Len(b))
    PROVE  DecodeTurn(b, g) = DecodeTurn(b, h)
<1> DEFINE f == DecodeFieldHeader(b)
           behind == From(b, f.consumed)
           w == GetFieldWidth(f, behind)
           data == From(behind, w.consumed)
           sub == SubSeq(data, 1, w.width)
           rest == From(data, w.width)
           bad == {n \in f.name : CreateFromUTF8(n).status # "OK"}
           Field1(d) ==
               IF f.status # "OK" THEN f
               ELSE IF w.status # "OK" THEN w
               ELSE IF w.width > Len(data) THEN OutOfBytes
               ELSE IF DecodeValue(f.type, sub, d).status # "OK" THEN DecodeValue(f.type, sub, d)
               ELSE IF bad # {} THEN CreateFromUTF8(The(bad))
               ELSE [status |-> "OK", rest |-> rest,
                     field |-> Field(f.type, f.name, f.ordinal, DecodeValue(f.type, sub, d).value)]
<1>1. \A d : DecodeField(b, d) = Field1(d)
  BY Zenon DEF DecodeField, DecodeBehind, DecodeData
<1>2. CASE b = <<>>
  <2> HIDE DEF Field1
  <2> QED BY <1>2, Zenon DEF DecodeTurn
<1>3. CASE b # <<>> /\ f.status # "OK"
  <2>1. \A d : Field1(d) = f
    BY <1>3
  <2> HIDE DEF Field1, f
  <2>2. \A d : DecodeTurn(b, d) = f
    BY <1>1, <1>3, <2>1, Zenon DEF DecodeTurn
  <2> QED BY <2>2
<1>4. CASE b # <<>> /\ f.status = "OK" /\ w.status # "OK"
  <2>1. \A d : Field1(d) = w
    BY <1>4
  <2>2. w.status # "OK" /\ b # <<>>
    BY <1>4
  <2>3. \A d : DecodeField(b, d) = w
    BY <1>1, <2>1
  <2> HIDE DEF Field1, f, w
  <2>4. \A d : DecodeTurn(b, d) = w
    BY <2>2, <2>3, SMT DEF DecodeTurn
  <2> QED BY <2>4
<1>5. CASE b # <<>> /\ f.status = "OK" /\ w.status = "OK" /\ w.width > Len(data)
  <2>1. \A d : Field1(d) = OutOfBytes
    BY <1>5
  <2>3. OutOfBytes.status # "OK"
    BY DEF OutOfBytes, Fail
  <2> HIDE DEF Field1
  <2>2. \A d : DecodeTurn(b, d) = OutOfBytes
    BY <1>1, <1>5, <2>1, <2>3, Zenon DEF DecodeTurn
  <2> QED BY <2>2
<1>6. CASE b # <<>> /\ f.status = "OK" /\ w.status = "OK" /\ ~(w.width > Len(data))
  <2>1. /\ f.type \in Byte /\ f.widthofwidth \in {0, 1, 2, 4}
        /\ f.consumed \in Nat /\ f.consumed >= 2
    BY <1>6, HeaderShape
  <2>2. Len(b) \in Nat /\ Len(b) # 0
    <3>1. Len(b) \in Nat
      OBVIOUS
    <3>2. Len(b) = 0 => b = <<>>
      OBVIOUS
    <3> QED BY <1>6, <3>1, <3>2
  <2> HIDE DEF f
  <2>3. behind \in Seq(Byte) /\ Len(behind) < Len(b)
    <3>1. /\ From(b, f.consumed) \in Seq(Byte)
          /\ Len(From(b, f.consumed)) = IF f.consumed <= Len(b) THEN Len(b) - f.consumed ELSE 0
      BY <2>1, Rest
    <3> QED BY <2>1, <2>2, <3>1
  <2> HIDE DEF behind
  <2>4. w.width \in Nat /\ w.consumed \in Nat
    BY <1>6, <2>1, <2>3, WidthShape
  <2> HIDE DEF w
  <2>5. data \in Seq(Byte) /\ Len(data) < Len(b)
    <3>1. /\ From(behind, w.consumed) \in Seq(Byte)
          /\ Len(From(behind, w.consumed))
                = IF w.consumed <= Len(behind) THEN Len(behind) - w.consumed ELSE 0
      BY <2>3, <2>4, Rest
    <3>2. Len(behind) \in Nat
      BY <2>3
    <3> QED BY <2>2, <2>3, <2>4, <3>1, <3>2
  <2> HIDE DEF data
  <2>6. /\ rest \in Seq(Byte) /\ Len(rest) < Len(b)
        /\ sub \in Seq(Byte) /\ Len(sub) < Len(b)
    <3>1. /\ From(data, w.width) \in Seq(Byte)
          /\ Len(From(data, w.width))
                = IF w.width <= Len(data) THEN Len(data) - w.width ELSE 0
          /\ w.width <= Len(data) => sub \in Seq(Byte) /\ Len(sub) = w.width
      BY <2>4, <2>5, Rest
    <3>2. Len(data) \in Nat
      BY <2>5
    <3> QED BY <1>6, <2>2, <2>4, <2>5, <3>1, <3>2
  <2> HIDE DEF rest, sub, bad
  <2>7. g[sub] = h[sub] /\ g[rest] = h[rest]
    BY <2>6 DEF SameBelow
  <2>8. DecodeValue(f.type, sub, g) = DecodeValue(f.type, sub, h)
    BY <2>7, SMT DEF DecodeValue
  <2>9. Field1(g) = Field1(h)
    BY <2>8
  <2>10. Field1(g).status = "OK" => Field1(g).rest = rest
    <3>1. CASE DecodeValue(f.type, sub, g).status = "OK" /\ bad = {}
      <4>1. Field1(g) = [status |-> "OK", rest |-> rest,
                field |-> Field(f.type, f.name, f.ordinal, DecodeValue(f.type, sub, g).value)]
        BY <1>6, <3>1
      <4> QED BY <4>1
    <3>2. CASE DecodeValue(f.type, sub, g).status # "OK"
      <4>1. Field1(g) = DecodeValue(f.type, sub, g)
        BY <1>6, <3>2
      <4> QED BY <3>2, <4>1
    <3>3. CASE DecodeValue(f.type, sub, g).status = "OK" /\ bad # {}
      <4>1. The(bad) \in bad
        BY <3>3, Zenon DEF The
      <4>2. CreateFromUTF8(The(bad)).status # "OK"
        BY <4>1 DEF bad
      <4>3. Field1(g) = CreateFromUTF8(The(bad))
        BY <1>6, <3>3
      <4> QED BY <4>2, <4>3
    <3> QED BY <3>1, <3>2, <3>3
  <2>11. DecodeField(b, g) = Field1(g) /\ DecodeField(b, h) = Field1(g)
    BY <1>1, <2>9
  <2> DEFINE first == Field1(g)
  <2>12. first.status = "OK" => g[first.rest] = h[first.rest]
    BY <2>7, <2>10
  <2>13. DecodeField(b, g) = first /\ DecodeField(b, h) = first
    BY <2>11
  <2> HIDE DEF first, Field1
  <2>14. CASE first.status # "OK"
    <3>1. DecodeTurn(b, g) = first
      BY <1>6, <2>13, <2>14, Zenon DEF DecodeTurn
    <3>2. DecodeTurn(b, h) = first
      BY <1>6, <2>13, <2>14, Zenon DEF DecodeTurn
    <3> QED BY <3>1, <3>2
  <2>15. CASE first.status = "OK"
    <3>1. g[first.rest] = h[first.rest]
      BY <2>12, <2>15
    <3> QED BY <2>13, <3>1, Zenon DEF DecodeTurn
  <2> QED BY <2>14, <2>15
<1> QED
  BY <1>2, <1>3, <1>4, <1>5, <1>6

(* The decoder is what its definition says: there is such a function.      *)
LEMMA DecodedTurnByTurn ==
    \A b \in Seq(Byte) : DecodeMsgFields[b] = DecodeTurn(b, DecodeMsgFields)
<1> DEFINE B == Seq(Byte)
           GoodTo(g, n) == \A c \in B : Len(c) < n => g[c] = DecodeTurn(c, g)
<1>0. \A c \in B : Len(c) \in Nat
  OBVIOUS
<1>1. \A g, h : \A n \in Nat : GoodTo(g, n) /\ GoodTo(h, n) => SameBelow(g, h, n)
  <2> SUFFICES ASSUME NEW g, NEW h, NEW n \in Nat, GoodTo(g, n), GoodTo(h, n)
      PROVE  SameBelow(g, h, n)
    OBVIOUS
  <2> DEFINE T == {k \in 0..n : SameBelow(g, h, k)}
  <2>1. 0 \in T
    <3>1. \A c \in B : ~(Len(c) < 0)
      BY <1>0
    <3> QED BY <3>1 DEF SameBelow
  <2>2. \A i \in 1..n : i - 1 \in T => i \in T
    <3> SUFFICES ASSUME NEW i \in 1..n, i - 1 \in T
        PROVE  i \in T
      OBVIOUS
    <3>1. SameBelow(g, h, i - 1)
      OBVIOUS
    <3>2. ASSUME NEW c \in B, Len(c) < i
          PROVE  g[c] = h[c]
      <4>1. Len(c) \in Nat /\ Len(c) < n /\ Len(c) <= i - 1
        BY <1>0, <3>2
      <4>2. SameBelow(g, h, Len(c))
        <5>1. \A d \in B : Len(d) < Len(c) => Len(d) < i - 1
          BY <1>0, <4>1
        <5> QED BY <3>1, <5>1 DEF SameBelow
      <4>3. DecodeTurn(c, g) = DecodeTurn(c, h)
        BY <4>2, TurnLocal
      <4> QED BY <4>1, <4>3
    <3>3. SameBelow(g, h, i)
      BY <3>2 DEF SameBelow
    <3> QED BY <3>3
  <2>3. n \in T
    <3> HIDE DEF T
    <3>1. 0..n \subseteq T
      BY <2>1, <2>2, Upwards
    <3> QED BY <3>1
  <2> QED BY <2>3
<1>2. \A n \in Nat : \E g : GoodTo(g, n)
  <2> SUFFICES ASSUME NEW n \in Nat
      PROVE  \E g : GoodTo(g, n)
    OBVIOUS
  <2> DEFINE T == {k \in 0..n : \E g : GoodTo(g, k)}
  <2>1. 0 \in T
    <3>1. \A c \in B : ~(Len(c) < 0)
      BY <1>0
    <3>2. GoodTo(<<>>, 0)
      BY <3>1
    <3> QED BY <3>2
  <2>2. \A i \in 1..n : i - 1 \in T => i \in T
    <3> SUFFICES ASSUME NEW i \in 1..n, i - 1 \in T
        PROVE  i \in T
      OBVIOUS
    <3>1. PICK g : GoodTo(g, i - 1)
      OBVIOUS
    <3> DEFINE h == [c \in B |-> DecodeTurn(c, g)]
    <3>2. ASSUME NEW c \in B, Len(c) < i
          PROVE  h[c] = DecodeTurn(c, h)
      <4>1. \A d \in B : Len(d) < Len(c) => Len(d) < i - 1
        BY <1>0, <3>2
      <4>2. SameBelow(g, h, Len(c))
        BY <3>1, <4>1 DEF SameBelow
      <4>3. DecodeTurn(c, g) = DecodeTurn(c, h)
        <5> HIDE DEF h
        <5> QED BY <4>2, TurnLocal
      <4>4. h[c] = DecodeTurn(c, g)
        OBVIOUS
      <4> HIDE DEF h
      <4> QED BY <4>3, <4>4
    <3>3. GoodTo(h, i)
      <4> HIDE DEF h
      <4> QED BY <3>2
    <3> HIDE DEF h, GoodTo
    <3> QED BY <3>3
  <2>3. n \in T
    <3> HIDE DEF T
    <3>1. 0..n \subseteq T
      BY <2>1, <2>2, Upwards
    <3> QED BY <3>1
  <2> QED BY <2>3
<1> DEFINE upto == [c \in B |-> CHOOSE g : GoodTo(g, Len(c) + 1)]
           f == [c \in B |-> upto[c][c]]
<1>3. \A c \in B : GoodTo(upto[c], Len(c) + 1)
  <2> TAKE c \in B
  <2>1. Len(c) + 1 \in Nat
    BY <1>0
  <2>2. \E g : GoodTo(g, Len(c) + 1)
    BY <1>2, <2>1
  <2> HIDE DEF GoodTo
  <2> QED BY <2>2
<1> HIDE DEF upto
<1>4. \A c \in B : f[c] = DecodeTurn(c, f)
  <2> TAKE c \in B
  <2>1. f[c] = DecodeTurn(c, upto[c])
    BY <1>0, <1>3
  <2>2. ASSUME NEW d \in B, Len(d) < Len(c)
        PROVE  upto[c][d] = f[d]
    <3>1. Len(d) + 1 \in Nat /\ Len(c) \in Nat /\ Len(d) < Len(d) + 1
      BY <1>0
    <3>2. GoodTo(upto[c], Len(d) + 1)
      <4>1. \A a \in B : Len(a) < Len(d) + 1 => Len(a) < Len(c) + 1
        BY <1>0, <2>2
      <4> QED BY <1>3, <4>1
    <3>3. SameBelow(upto[c], upto[d], Len(d) + 1)
      <4>1. GoodTo(upto[d], Len(d) + 1)
        BY <1>3
      <4> HIDE DEF GoodTo
      <4> QED BY <1>1, <3>1, <3>2, <4>1
    <3>4. upto[c][d] = upto[d][d]
      BY <3>1, <3>3 DEF SameBelow
    <3> QED BY <3>4
  <2>3. SameBelow(upto[c], f, Len(c))
    <3> HIDE DEF f
    <3> QED BY <2>2 DEF SameBelow
  <2> HIDE DEF f
  <2>4. DecodeTurn(c, upto[c]) = DecodeTurn(c, f)
    BY <2>3, TurnLocal
  <2> QED BY <2>1, <2>4
<1>5. f = [c \in B |-> DecodeTurn(c, f)]
  <2> DEFINE T(c) == DecodeTurn(c, f)
             k == [c \in B |-> T(c)]
  <2>1. \A c \in B : f[c] = T(c)
    BY <1>4
  <2>2. f = [c \in B |-> f[c]]
    OBVIOUS
  <2> HIDE DEF f, T
  <2> QED BY <2>1, <2>2 DEF T
<1> HIDE DEF f
<1>6. DecodeMsgFields = CHOOSE g : g = [c \in B |-> DecodeTurn(c, g)]
  BY Zenon DEF DecodeMsgFields, DecodeTurn
<1>7. DecodeMsgFields = [c \in B |-> DecodeTurn(c, DecodeMsgFields)]
  <2> DEFINE R(g) == [c \in B |-> DecodeTurn(c, g)]
  <2>1. f = R(f)
    BY <1>5
  <2>2. DecodeMsgFields = CHOOSE g : g = R(g)
    BY <1>6
  <2> HIDE DEF R
  <2>3. DecodeMsgFields = R(DecodeMsgFields)
    BY <2>1, <2>2
  <2> QED BY <2>3 DEF R
<1> QED
  <2> DEFINE T(c) == DecodeTurn(c, DecodeMsgFields)
  <2>1. DecodeMsgFields = [c \in B |-> T(c)]
    BY <1>7
  <2> HIDE DEF T
  <2>2. \A c \in B : DecodeMsgFields[c] = T(c)
    BY <2>1
  <2> QED BY <2>2 DEF T

-----------------------------------------------------------------------------
(* The messages there are.                                                 *)

(* The fields that hold no message, with names shorter than room; and      *)
(* those that hold one of the messages of S.                               *)
FieldNames(room) ==
    {name \in SUBSET Seq(Byte) :
        AtMostOne(name) /\ \A n \in name : Len(n) < room /\ CreateFromUTF8(n) = Ok(n)}

(* At most one ordinal.                                                    *)
Ordinals == {ordinal \in SUBSET I16 : AtMostOne(ordinal)}

(* Fields of any type but FUDGE_MSG, with the data of their type (for      *)
(* FUDGE_MSG there are none in DataOf).                                    *)
LeafFields(room) ==
    UNION {[type : {t}, name : FieldNames(room), ordinal : Ordinals, data : DataOf(t)] : t \in Byte}

(* Fields that hold a message of S, with the ordinal FudgeMsg_addFieldMsg  *)
(* gives them.                                                             *)
MsgFields(room, S) ==
    [type : {FUDGE_MSG}, name : FieldNames(room), ordinal : {{-1}}, data : S]

(* The fields a message may have, if those of S are there to be added.     *)
FieldsOver(room, S) == LeafFields(room) \cup MsgFields(room, S)

(* A sequence of messages each of which holds only those before it.        *)
Before(nest, k) == {nest[j] : j \in 1..(k - 1)}

(* Each message of the sequence is one of fields that hold only messages   *)
(* before it, so that no message holds itself, at whatever depth.          *)
Nested(nest, room) ==
    /\ nest \in Seq(ToSet(nest))
    /\ \A k \in 1..Len(nest) : nest[k] \in Seq(FieldsOver(room, Before(nest, k)))

(* The inductive invariant.                                                *)
NestOK(room) ==
    /\ inner \in Seq(ToSet(inner))
    /\ Nested(Append(inner, message), room)

(* A sequence is one of its own elements.                                  *)
LEMMA OwnElements ==
    ASSUME NEW S, NEW s \in Seq(S)
    PROVE  /\ s \in Seq(ToSet(s)) /\ ToSet(s) \subseteq S
           /\ ToSet(s) = {s[i] : i \in 1..Len(s)}
<1>1. DOMAIN s = 1..Len(s)
  OBVIOUS
<1>2. ToSet(s) = {s[i] : i \in 1..Len(s)}
  BY <1>1 DEF ToSet
<1>3. \A i \in 1..Len(s) : s[i] \in ToSet(s) /\ s[i] \in S
  BY <1>2, ElementOfSeq
<1>4. s \in [1..Len(s) -> ToSet(s)] /\ Len(s) \in Nat
  <2>1. s = [i \in 1..Len(s) |-> s[i]]
    OBVIOUS
  <2>2. [i \in 1..Len(s) |-> s[i]] \in [1..Len(s) -> ToSet(s)]
    BY <1>3
  <2> QED BY <2>1, <2>2
<1>5. s \in Seq(ToSet(s))
  <2> DEFINE D == ToSet(s)
             n == Len(s)
  <2>1. s \in [1..n -> D] /\ n \in Nat
    BY <1>4
  <2> HIDE DEF D, n
  <2>2. s \in Seq(D)
    BY <2>1, IsASeq
  <2> QED BY <2>2 DEF D
<1> QED
  BY <1>2, <1>3, <1>5

(* A client adds a field to the message it puts together.                  *)
LEMMA FieldAdded ==
    ASSUME NEW room, NEW S, NEW s \in Seq(S), NEW m, Nested(Append(s, m), room),
           NEW f \in FieldsOver(room, ToSet(s))
    PROVE  Nested(Append(s, Append(m, f)), room)
<1> DEFINE n == Len(s)
           U == S \cup {m}
           W == S \cup {Append(m, f)}
           old == Append(s, m)
           new == Append(s, Append(m, f))
<1>1. n \in Nat /\ s \in Seq(U) /\ s \in Seq(W)
  OBVIOUS
<1>2. /\ old \in Seq(U) /\ Len(old) = n + 1
      /\ \A i \in 1..n : old[i] = s[i]
      /\ old[n + 1] = m
  <2> HIDE DEF U
  <2> QED BY <1>1, AppendProperties DEF U
<1>3. /\ new \in Seq(W) /\ Len(new) = n + 1
      /\ \A i \in 1..n : new[i] = s[i]
      /\ new[n + 1] = Append(m, f)
  BY <1>1, AppendProperties
<1>4. new \in Seq(ToSet(new))
  <2> HIDE DEF new, W
  <2> QED BY <1>3, OwnElements
<1> HIDE DEF new, old
<1>5. ASSUME NEW k \in 1..(n + 1)
      PROVE  Before(new, k) = Before(old, k)
  <2>1. \A j \in 1..(k - 1) : new[j] = old[j]
    <3>1. \A j \in 1..(k - 1) : j \in 1..n
      BY <1>1
    <3> QED BY <3>1, <1>2, <1>3
  <2> QED BY <2>1 DEF Before
<1>6. Before(new, n + 1) = ToSet(s)
  <2>1. ToSet(s) = {s[i] : i \in 1..n}
    BY OwnElements
  <2>2. (n + 1) - 1 = n
    BY <1>1
  <2>3. Before(new, n + 1) = {new[j] : j \in 1..n}
    BY <2>2 DEF Before
  <2> QED BY <2>1, <2>3, <1>3
<1>7. ASSUME NEW k \in 1..(n + 1)
      PROVE  new[k] \in Seq(FieldsOver(room, Before(new, k)))
  <2>1. k \in 1..Len(old)
    BY <1>2
  <2>2. old[k] \in Seq(FieldsOver(room, Before(old, k)))
    BY <2>1 DEF Nested, old
  <2>3. old[k] \in Seq(FieldsOver(room, Before(new, k)))
    BY <2>2, <1>5
  <2>4. CASE k \in 1..n
    <3>1. new[k] = old[k]
      BY <2>4, <1>2, <1>3
    <3> QED BY <2>3, <3>1
  <2>5. CASE k = n + 1
    <3> DEFINE T == FieldsOver(room, ToSet(s))
    <3>1. m \in Seq(T)
      BY <2>3, <2>5, <1>2, <1>6
    <3>2. f \in T
      OBVIOUS
    <3> HIDE DEF T
    <3>3. Append(m, f) \in Seq(T)
      BY <3>1, <3>2, AppendProperties
    <3> QED BY <3>3, <2>5, <1>3, <1>6 DEF T
  <2>6. k \in 1..n \/ k = n + 1
    BY <1>1
  <2> QED BY <2>4, <2>5, <2>6
<1>8. \A k \in 1..Len(new) : new[k] \in Seq(FieldsOver(room, Before(new, k)))
  BY <1>3, <1>7
<1>9. Nested(new, room)
  BY <1>4, <1>8 DEF Nested
<1> QED
  BY <1>9 DEF new

(* It starts one around the messages there are.                            *)
LEMMA MessageStarted ==
    ASSUME NEW room, NEW S, NEW nest \in Seq(S), Nested(nest, room),
           NEW f \in FieldsOver(room, ToSet(nest))
    PROVE  Nested(Append(nest, <<f>>), room)
<1> DEFINE n == Len(nest)
           W == S \cup {<<f>>}
           new == Append(nest, <<f>>)
<1>1. n \in Nat /\ nest \in Seq(W)
  OBVIOUS
<1>3. /\ new \in Seq(W) /\ Len(new) = n + 1
      /\ \A i \in 1..n : new[i] = nest[i]
      /\ new[n + 1] = <<f>>
  BY <1>1, AppendProperties
<1>4. new \in Seq(ToSet(new))
  <2> HIDE DEF new, W
  <2> QED BY <1>3, OwnElements
<1> HIDE DEF new
<1>5. ASSUME NEW k \in 1..n
      PROVE  Before(new, k) = Before(nest, k)
  <2>1. \A j \in 1..(k - 1) : new[j] = nest[j]
    <3>1. \A j \in 1..(k - 1) : j \in 1..n
      BY <1>1
    <3> QED BY <3>1, <1>3
  <2> QED BY <2>1 DEF Before
<1>6. Before(new, n + 1) = ToSet(nest)
  <2>1. ToSet(nest) = {nest[i] : i \in 1..n}
    BY OwnElements
  <2>2. (n + 1) - 1 = n
    BY <1>1
  <2>3. Before(new, n + 1) = {new[j] : j \in 1..n}
    BY <2>2 DEF Before
  <2> QED BY <2>1, <2>3, <1>3
<1>7. ASSUME NEW k \in 1..(n + 1)
      PROVE  new[k] \in Seq(FieldsOver(room, Before(new, k)))
  <2>4. CASE k \in 1..n
    <3>1. new[k] = nest[k]
      BY <2>4, <1>3
    <3>2. nest[k] \in Seq(FieldsOver(room, Before(nest, k)))
      BY <2>4 DEF Nested
    <3> QED BY <2>4, <3>1, <3>2, <1>5
  <2>5. CASE k = n + 1
    <3> DEFINE T == FieldsOver(room, ToSet(nest))
    <3>2. f \in T
      OBVIOUS
    <3> HIDE DEF T
    <3>3. <<f>> \in Seq(T)
      BY <3>2
    <3> QED BY <3>3, <2>5, <1>3, <1>6 DEF T
  <2>6. k \in 1..n \/ k = n + 1
    BY <1>1
  <2> QED BY <2>4, <2>5, <2>6
<1>8. \A k \in 1..Len(new) : new[k] \in Seq(FieldsOver(room, Before(new, k)))
  BY <1>3, <1>7
<1>9. Nested(new, room)
  BY <1>4, <1>8 DEF Nested
<1> QED
  BY <1>9 DEF new

(* The names of fields are shorter than room.                              *)
NamesShorter(room) == \A name \in Names : \A n \in name : Len(n) < room

(* The names a client gives are names of fields, as short.                 *)
LEMMA NamesOfFields ==
    ASSUME NEW room, NamesShorter(room)
    PROVE  Names \subseteq FieldNames(room)
  BY WireFormatAssumption DEF NamesShorter, FieldNames

(* What the client adds is such a field.                                   *)
LEMMA FieldsGiven ==
    ASSUME NEW room, NamesShorter(room)
    PROVE  Fields \subseteq LeafFields(room)
<1> SUFFICES ASSUME NEW f \in Fields
    PROVE  f \in LeafFields(room)
  OBVIOUS
<1>1. /\ f.type \in Byte /\ f.name \in Names /\ f.ordinal \in Ordinals
      /\ f.data \in DataOf(f.type)
      /\ f = Field(f.type, f.name, f.ordinal, f.data)
  BY WireFormatAssumption DEF Ordinals
<1>2. f.name \in FieldNames(room)
  BY <1>1, NamesOfFields
<1>3. f = [type |-> f.type, name |-> f.name, ordinal |-> f.ordinal, data |-> f.data]
  BY <1>1 DEF Field
<1>4. f \in [type : {f.type}, name : FieldNames(room), ordinal : Ordinals, data : DataOf(f.type)]
  BY <1>1, <1>2, <1>3
<1> QED
  BY <1>1, <1>4 DEF LeafFields

(* A field of a type, with data of that type and no ordinal.               *)
LEMMA LeafMade ==
    ASSUME NEW room, NEW t \in Byte, NEW name \in FieldNames(room), NEW data \in DataOf(t)
    PROVE  Field(t, name, {}, data) \in LeafFields(room)
<1>1. {} \in Ordinals
  BY DEF Ordinals, AtMostOne
<1>2. Field(t, name, {}, data)
          \in [type : {t}, name : FieldNames(room), ordinal : Ordinals, data : DataOf(t)]
  BY <1>1 DEF Field
<1> QED
  BY <1>2 DEF LeafFields

(* The field FudgeMsg_addFieldI32 makes: its value is one of its type, the *)
(* smallest that holds it.                                                 *)
LEMMA IntegersGiven ==
    ASSUME NEW room, NamesShorter(room), NEW name \in Names, NEW v \in Integers32
    PROVE  Field(PickIntegerType(INT, v), name, {}, v) \in LeafFields(room)
<1> DEFINE t == PickIntegerType(INT, v)
<1>1. v \in I32
  BY WireFormatAssumption
<1>2. t \in {BYTE, SHORT, INT} /\ v \in NumbersOf(t)
  <2>1. BYTE # SHORT /\ BYTE # INT /\ SHORT # INT /\ BYTE # BOOL /\ SHORT # BOOL /\ INT # BOOL
    BY DEF BYTE, SHORT, INT, BOOL
  <2>2. CASE v \in -128..127
    <3>1. t = BYTE
      BY <2>2 DEF PickIntegerType
    <3>2. v \in NumbersOf(BYTE)
      BY <2>2, SMT DEF NumbersOf, BOOL, BYTE, SHORT, INT, FLOAT, LONG, DOUBLE
    <3> QED BY <3>1, <3>2
  <2>3. CASE v \notin -128..127 /\ v \in I16
    <3>1. t = SHORT
      BY <2>1, <2>3 DEF PickIntegerType
    <3>2. v \in NumbersOf(SHORT)
      BY <2>3, SMT DEF NumbersOf, BOOL, BYTE, SHORT, INT, FLOAT, LONG, DOUBLE
    <3> QED BY <3>1, <3>2
  <2>4. CASE v \notin -128..127 /\ v \notin I16
    <3>1. t = INT
      BY <2>1, <2>4 DEF PickIntegerType
    <3>2. v \in NumbersOf(INT)
      BY <1>1, SMT DEF NumbersOf, BOOL, BYTE, SHORT, INT, FLOAT, LONG, DOUBLE
    <3> QED BY <3>1, <3>2
  <2> QED BY <2>2, <2>3, <2>4
<1>3. t \in Byte /\ t \in Numbers /\ t # INDICATOR
  BY <1>2 DEF BYTE, SHORT, INT, Byte, Numbers, INDICATOR, Between
<1> HIDE DEF t
<1>5. name \in FieldNames(room)
  BY NamesOfFields
<1>6. v \in DataOf(t)
  BY <1>2, <1>3, SMT DEF DataOf, INDICATOR, BOOL, BYTE, SHORT, INT, FLOAT, LONG, DOUBLE,
         SHORT_ARRAY, INT_ARRAY, LONG_ARRAY, FLOAT_ARRAY, DOUBLE_ARRAY, STRING_TYPE, FUDGE_MSG,
         DATE, TIME, DATETIME, Numbers, Arrays
<1>7. Field(t, name, {}, v) \in LeafFields(room)
  BY <1>3, <1>5, <1>6, LeafMade
<1> QED
  BY <1>7 DEF t

(* The field FudgeMsg_addFieldMsg makes.                                   *)
LEMMA MessageGiven ==
    ASSUME NEW room, NamesShorter(room), NEW name \in Names, NEW S, NEW m \in S
    PROVE  AsField(name, m) \in MsgFields(room, S)
<1>1. name \in FieldNames(room)
  BY NamesOfFields
<1> QED
  BY <1>1 DEF AsField, Field, MsgFields

-----------------------------------------------------------------------------
(* The client keeps its messages nested.                                   *)

(* At first there is one message, with no fields.                          *)
LEMMA NestInit ==
    ASSUME NEW room, WireInit
    PROVE  NestOK(room)
<1>1. inner = <<>> /\ message = <<>>
  BY DEF WireInit
<1> DEFINE nest == Append(inner, message)
           S == {<<>>}
<1>2. inner \in Seq(S) /\ message \in S
  BY <1>1
<1>3. nest \in Seq(S) /\ Len(nest) = 1 /\ nest[1] = <<>>
  <2>1. Len(inner) = 0
    BY <1>1
  <2> HIDE DEF S
  <2>2. /\ nest \in Seq(S) /\ Len(nest) = Len(inner) + 1
        /\ nest[Len(inner) + 1] = message
    BY <1>2, AppendProperties
  <2> QED BY <1>1, <2>1, <2>2
<1> HIDE DEF nest
<1>4. nest \in Seq(ToSet(nest))
  <2> HIDE DEF S
  <2> QED BY <1>3, OwnElements
<1>5. inner \in Seq(ToSet(inner))
  BY <1>1, EmptySeq
<1>6. \A k \in 1..Len(nest) : nest[k] \in Seq(FieldsOver(room, Before(nest, k)))
  <2> TAKE k \in 1..Len(nest)
  <2>1. nest[k] = <<>>
    BY <1>3
  <2> QED BY <2>1, EmptySeq
<1> QED
  BY <1>4, <1>5, <1>6 DEF NestOK, Nested, nest

(* A field is added, which may hold a message there is.                    *)
LEMMA NestAdd ==
    ASSUME NEW room, NestOK(room), NEW f \in FieldsOver(room, ToSet(inner)), Add(f)
    PROVE  NestOK(room)'
<1>1. inner' = inner /\ message' = Append(message, f)
  BY DEF Add
<1>2. inner \in Seq(ToSet(inner)) /\ Nested(Append(inner, message), room)
  BY DEF NestOK
<1>3. Nested(Append(inner, Append(message, f)), room)
  <2> DEFINE S == ToSet(inner)
             F == FieldsOver(room, S)
  <2>1. inner \in Seq(S) /\ f \in F
    BY <1>2
  <2> QED BY <1>2, <2>1, FieldAdded
<1>4. (inner \in Seq(ToSet(inner)))'
  BY <1>1, <1>2
<1>5. Nested(Append(inner, message), room)'
  BY <1>1, <1>3
<1> QED
  BY <1>4, <1>5 DEF NestOK

(* Another message is started, with the last one as its only field.        *)
LEMMA NestEnclose ==
    ASSUME NEW room, NestOK(room), NamesShorter(room), NEW name \in Names, Enclose(name)
    PROVE  NestOK(room)'
<1> DEFINE nest == Append(inner, message)
           f == AsField(name, message)
<1>1. inner' = nest /\ message' = <<f>>
  BY DEF Enclose
<1>2. nest \in Seq(ToSet(nest)) /\ Nested(nest, room) /\ inner \in Seq(ToSet(inner))
  BY DEF NestOK, Nested
<1>3. message \in ToSet(nest)
  <2> DEFINE U == ToSet(inner) \cup {message}
             n == Len(inner) + 1
  <2>1. inner \in Seq(U) /\ message \in U
    BY <1>2
  <2> HIDE DEF U
  <2>2. Len(nest) = n /\ nest[n] = message /\ n \in 1..n
    BY <2>1, AppendProperties
  <2>3. ToSet(nest) = {nest[i] : i \in 1..Len(nest)}
    BY <1>2, OwnElements
  <2> QED BY <2>2, <2>3
<1>4. f \in FieldsOver(room, ToSet(nest))
  BY <1>3, MessageGiven DEF FieldsOver
<1> HIDE DEF nest, f
<1>5. Nested(Append(nest, <<f>>), room)
  <2> DEFINE S == ToSet(nest)
  <2>1. nest \in Seq(S) /\ f \in FieldsOver(room, ToSet(nest))
    BY <1>2, <1>4
  <2> QED BY <1>2, <2>1, MessageStarted
<1>6. (inner \in Seq(ToSet(inner)))'
  BY <1>1, <1>2
<1>7. Nested(Append(inner, message), room)'
  BY <1>1, <1>5
<1> QED
  BY <1>6, <1>7 DEF NestOK

(* It is about those messages only.                                        *)
LEMMA NestStays ==
    ASSUME NEW room, NestOK(room), UNCHANGED <<message, inner>>
    PROVE  NestOK(room)'
<1>1. message' = message /\ inner' = inner
  OBVIOUS
<1>2. inner \in Seq(ToSet(inner)) /\ Nested(Append(inner, message), room)
  BY DEF NestOK
<1>3. (inner \in Seq(ToSet(inner)))' /\ Nested(Append(inner, message), room)'
  BY <1>1, <1>2
<1> QED
  BY <1>3 DEF NestOK

(* Every step of the client of WireFormat keeps them so ...                *)
LEMMA NestNext ==
    ASSUME NEW room, NamesShorter(room), NestOK(room), WireNext
    PROVE  NestOK(room)'
<1>1. CASE \E f \in Fields : AddField(f)
  <2>1. PICK f \in Fields : Add(f)
    BY <1>1 DEF AddField
  <2>2. f \in FieldsOver(room, ToSet(inner))
    BY FieldsGiven DEF FieldsOver
  <2> QED BY <2>1, <2>2, NestAdd
<1>2. ASSUME NEW name \in Names, NEW v \in Integers32, AddInteger(name, v)
      PROVE  NestOK(room)'
  <2> DEFINE f == Field(PickIntegerType(INT, v), name, {}, v)
  <2>1. Add(f)
    BY <1>2 DEF AddInteger
  <2>2. f \in FieldsOver(room, ToSet(inner))
    BY IntegersGiven DEF FieldsOver
  <2> HIDE DEF f
  <2> QED BY <2>1, <2>2, NestAdd
<1>3. ASSUME NEW name \in Names, NEW m \in ToSet(inner), AddMessage(name, m)
      PROVE  NestOK(room)'
  <2> DEFINE f == AsField(name, m)
  <2>1. Add(f)
    BY <1>3 DEF AddMessage
  <2>2. f \in FieldsOver(room, ToSet(inner))
    BY MessageGiven DEF FieldsOver
  <2> HIDE DEF f
  <2> QED BY <2>1, <2>2, NestAdd
<1>4. ASSUME NEW name \in Names, Enclose(name)
      PROVE  NestOK(room)'
  BY <1>4, NestEnclose
<1> QED
  BY <1>1, <1>2, <1>3, <1>4 DEF WireNext

(* ... and a step that changes nothing does; ...                           *)
LEMMA NestKept ==
    ASSUME NEW room, NamesShorter(room), NestOK(room), [WireNext]_wireVars
    PROVE  NestOK(room)'
<1>1. CASE WireNext
  BY <1>1, NestNext
<1>2. CASE UNCHANGED wireVars
  <2>1. UNCHANGED <<message, inner>>
    BY <1>2 DEF wireVars
  <2> QED BY <2>1, NestStays
<1> QED
  BY <1>1, <1>2

(* ... and so do those of Values, where the string, date or time a client  *)
(* has made is added to the message.                                       *)
LEMMA NestKeptByValues ==
    ASSUME NEW room \in Nat, NamesShorter(room), NestOK(room), [ValuesNext]_valueVars
    PROVE  NestOK(room)'
<1>1. CASE WireNext
  BY <1>1, NestNext
<1>2. CASE MakeValue \/ UNCHANGED valueVars
  <2>1. UNCHANGED <<message, inner>>
    BY <1>2 DEF MakeValue, wireVars, valueVars
  <2> QED BY <2>1, NestStays
<1>3. CASE Send
  <2> DEFINE type == IF made.kind = "datetime" THEN DATETIME ELSE STRING_TYPE
             f == Field(type, {}, {}, made.result.value)
  <2>1. Add(f) /\ made.result.value \in DataOf(type)
    BY <1>3 DEF Send, AddField
  <2>2. type \in Byte
    BY DEF DATETIME, STRING_TYPE, Byte, Between
  <2>3. {} \in FieldNames(room)
    BY DEF FieldNames, AtMostOne
  <2> HIDE DEF type
  <2>4. f \in LeafFields(room)
    BY <2>1, <2>2, <2>3, LeafMade
  <2> HIDE DEF f
  <2>5. f \in FieldsOver(room, ToSet(inner))
    BY <2>4 DEF FieldsOver
  <2> QED BY <2>1, <2>5, NestAdd
<1> QED
  BY <1>1, <1>2, <1>3 DEF ValuesNext

-----------------------------------------------------------------------------
(* The messages there are, in the order in which they were started.        *)

(* Every message holds messages of a lower rank only.                      *)
FieldsBelow(rank, m, room) ==
    FieldsOver(room, {n \in Messages : rank[n] < rank[m]})

(* A rank of each message, greater than those of the messages it holds.    *)
(* The least counterexample to what is said of every message is one of     *)
(* least rank.                                                             *)
Ranked(rank, room) ==
    /\ rank \in [Messages -> Nat]
    /\ \A m \in Messages : m \in Seq(FieldsBelow(rank, m, room))

(* The place where a message is first among the nested ones is such a      *)
(* rank.                                                                   *)
LEMMA RankThem ==
    ASSUME NEW room, NestOK(room)
    PROVE  \E rank : Ranked(rank, room)
<1> DEFINE nest == Append(inner, message)
           FoundAt(m) == {k \in 1..Len(nest) : nest[k] = m}
           rank == [m \in Messages |-> CHOOSE k \in FoundAt(m) : \A j \in FoundAt(m) : k <= j]
<1>1. nest \in Seq(ToSet(nest)) /\ Messages = ToSet(nest)
      /\ \A k \in 1..Len(nest) : nest[k] \in Seq(FieldsOver(room, Before(nest, k)))
  BY DEF NestOK, Nested, Messages
<1>2. Messages = {nest[k] : k \in 1..Len(nest)}
  <2> DEFINE S == ToSet(nest)
  <2>1. nest \in Seq(S)
    BY <1>1
  <2> QED BY <1>1, <2>1, OwnElements
<1> HIDE DEF nest
<1>3. \A m \in Messages : /\ rank[m] \in FoundAt(m)
                          /\ \A j \in FoundAt(m) : rank[m] <= j
  <2> TAKE m \in Messages
  <2>1. FoundAt(m) \in SUBSET Nat
    OBVIOUS
  <2>2. FoundAt(m) # {}
    BY <1>2
  <2> HIDE DEF FoundAt
  <2>3. \E k \in FoundAt(m) : \A j \in FoundAt(m) : k <= j
    BY <2>1, <2>2, Least
  <2> QED BY <2>3
<1> HIDE DEF rank
<1>4. rank \in [Messages -> Nat]
  <2>1. \A m \in Messages : rank[m] \in Nat
    BY <1>3
  <2> HIDE DEF FoundAt
  <2> QED BY <2>1 DEF rank
<1>5. ASSUME NEW m \in Messages
      PROVE  m \in Seq(FieldsBelow(rank, m, room))
  <2> DEFINE k == rank[m]
             B == {n \in Messages : rank[n] < rank[m]}
  <2>1. k \in 1..Len(nest) /\ nest[k] = m
    BY <1>3
  <2>2. ASSUME NEW j \in 1..(k - 1)
        PROVE  nest[j] \in B
    <3>1. j \in 1..Len(nest) /\ j < k
      BY <2>1
    <3>2. nest[j] \in Messages /\ j \in FoundAt(nest[j])
      BY <3>1, <1>2
    <3>3. rank[nest[j]] <= j /\ rank[nest[j]] \in Nat
      BY <3>2, <1>3, <1>4
    <3> HIDE DEF FoundAt
    <3> QED BY <3>1, <3>2, <3>3, <2>1
  <2>3. Before(nest, k) \subseteq B
    BY <2>2 DEF Before
  <2>4. FieldsOver(room, Before(nest, k)) \subseteq FieldsOver(room, B)
    <3> HIDE DEF B
    <3> QED BY <2>3 DEF FieldsOver, MsgFields
  <2>5. m \in Seq(FieldsOver(room, Before(nest, k)))
    BY <1>1, <2>1
  <2> DEFINE P == FieldsOver(room, Before(nest, k))
             Q == FieldsOver(room, B)
  <2>6. m \in Seq(P) /\ P \subseteq Q
    BY <2>4, <2>5
  <2> HIDE DEF P, Q
  <2>7. m \in Seq(Q)
    <3>1. Len(m) \in Nat /\ m \in [1..Len(m) -> P]
      BY <2>6, LenProperties
    <3>2. m \in [1..Len(m) -> Q]
      BY <3>1, <2>6
    <3> QED BY <3>1, <3>2, IsASeq
  <2> QED BY <2>7 DEF Q, FieldsBelow
<1>6. Ranked(rank, room)
  BY <1>4, <1>5 DEF Ranked
<1> QED
  BY <1>6

(* What is known of every field: its header can be written, and read; and  *)
(* either the length of its data is known by itself or is that of a        *)
(* message.                                                                *)
LEMMA LeafFacts ==
    ASSUME NEW room \in Nat, room <= 256, NEW f \in LeafFields(room)
    PROVE  /\ f = Field(f.type, f.name, f.ordinal, f.data)
           /\ HeaderOK(f) /\ (room <= 128 => Readable(f))
           /\ f.type \in Byte /\ f.type # FUDGE_MSG /\ f.data \in DataOf(f.type)
<1>1. PICK t \in Byte :
          f \in [type : {t}, name : FieldNames(room), ordinal : Ordinals, data : DataOf(t)]
  BY DEF LeafFields
<1>2. f.type = t /\ f.name \in FieldNames(room) /\ f.ordinal \in Ordinals /\ f.data \in DataOf(t)
  BY <1>1
<1>3. f = Field(f.type, f.name, f.ordinal, f.data)
  <2> DEFINE D == DataOf(t)
             N == FieldNames(room)
  <2>1. f \in [type : {t}, name : N, ordinal : Ordinals, data : D]
    BY <1>1
  <2> HIDE DEF D, N
  <2> QED BY <2>1 DEF Field
<1>4. \A n \in f.name : n \in Seq(Byte) /\ Len(n) \in Nat /\ Len(n) < room
  BY <1>2 DEF FieldNames
<1>5. \A n \in f.name : Len(n) < 256 /\ (room <= 128 => Len(n) < 128)
  <2>1. \A k \in Nat : k < room => k < 256 /\ (room <= 128 => k < 128)
    OBVIOUS
  <2> QED BY <2>1, <1>4
<1>6. HeaderOK(f)
  BY <1>2, <1>5 DEF HeaderOK, FieldNames, Ordinals
<1>7. room <= 128 => Readable(f)
  BY <1>5, <1>6 DEF Readable
<1>8. t # FUDGE_MSG
  <2>1. DataOf(FUDGE_MSG) = {}
    BY SMT DEF DataOf, INDICATOR, BOOL, BYTE, SHORT, INT, FLOAT, LONG, DOUBLE,
         SHORT_ARRAY, INT_ARRAY, LONG_ARRAY, FLOAT_ARRAY, DOUBLE_ARRAY, STRING_TYPE, FUDGE_MSG,
         DATE, TIME, DATETIME, Numbers, Arrays
  <2> QED BY <2>1, <1>2
<1> QED
  BY <1>2, <1>3, <1>6, <1>7, <1>8

(* What a field that holds a message has, likewise.                        *)
LEMMA MsgFacts ==
    ASSUME NEW room \in Nat, room <= 256, NEW S, NEW f \in MsgFields(room, S)
    PROVE  /\ f = Field(f.type, f.name, f.ordinal, f.data)
           /\ HeaderOK(f) /\ (room <= 128 => Readable(f))
           /\ f.type = FUDGE_MSG /\ f.type \in Byte /\ f.data \in S
<1>1. f \in [type : {FUDGE_MSG}, name : FieldNames(room), ordinal : {{-1}}, data : S]
  BY DEF MsgFields
<1>2. f.type = FUDGE_MSG /\ f.name \in FieldNames(room) /\ f.ordinal = {-1} /\ f.data \in S
  BY <1>1
<1>3. f = Field(f.type, f.name, f.ordinal, f.data)
  <2> DEFINE N == FieldNames(room)
  <2>1. f \in [type : {FUDGE_MSG}, name : N, ordinal : {{-1}}, data : S]
    BY <1>1
  <2> HIDE DEF N
  <2> QED BY <2>1 DEF Field
<1>4. \A n \in f.name : n \in Seq(Byte) /\ Len(n) \in Nat /\ Len(n) < room
  BY <1>2 DEF FieldNames
<1>5. \A n \in f.name : Len(n) < 256 /\ (room <= 128 => Len(n) < 128)
  <2>1. \A k \in Nat : k < room => k < 256 /\ (room <= 128 => k < 128)
    OBVIOUS
  <2> QED BY <2>1, <1>4
<1>6. f.type \in Byte /\ f.ordinal \subseteq I16 /\ AtMostOne(f.ordinal)
  <2>1. FUDGE_MSG \in Byte
    BY DEF FUDGE_MSG, Byte, Between
  <2>2. -1 \in I16
    BY DEF I16, Between
  <2> QED BY <1>2, <2>1, <2>2 DEF AtMostOne
<1>7. HeaderOK(f)
  BY <1>2, <1>5, <1>6 DEF HeaderOK, FieldNames
<1>8. room <= 128 => Readable(f)
  BY <1>5, <1>7 DEF Readable
<1> QED
  BY <1>2, <1>3, <1>6, <1>7, <1>8

(* The length of its data, which counts those of submessages.              *)
LEMMA DataLengths ==
    ASSUME NEW room \in Nat, room <= 256, NEW length
    PROVE  /\ \A f \in LeafFields(room) :
                 /\ DataLength(f, length) = LeafLength(f.type, f.data)
                 /\ DataLength(f, length) \in Nat
                 /\ FixedWidth[f.type] >= 0 => FixedWidth[f.type] = DataLength(f, length)
           /\ \A S : \A f \in MsgFields(room, S) :
                 DataLength(f, length) = length[f.data] /\ ~(FixedWidth[f.type] >= 0)
<1>1. ASSUME NEW f \in LeafFields(room)
      PROVE  /\ DataLength(f, length) = LeafLength(f.type, f.data)
             /\ DataLength(f, length) \in Nat
             /\ FixedWidth[f.type] >= 0 => FixedWidth[f.type] = DataLength(f, length)
  <2>1. f.type \in Byte /\ f.type # FUDGE_MSG /\ f.data \in DataOf(f.type)
    BY LeafFacts
  <2>2. DataLength(f, length) = LeafLength(f.type, f.data)
    BY <2>1, Zenon DEF DataLength, LeafLength
  <2>3. LeafLength(f.type, f.data) \in Nat
    <3> DEFINE b == EncodeValue(f.type, f.data, <<>>)
    <3>1. b \in Seq(Byte) /\ Len(b) = LeafLength(f.type, f.data)
      BY <2>1, LeafReadBack
    <3> HIDE DEF b
    <3>2. Len(b) \in Nat
      BY <3>1
    <3> QED BY <3>1, <3>2
  <2>4. FixedWidth[f.type] >= 0 => FixedWidth[f.type] = DataLength(f, length)
    BY DEF DataLength
  <2> QED BY <2>2, <2>3, <2>4
<1>2. ASSUME NEW S, NEW f \in MsgFields(room, S)
      PROVE  DataLength(f, length) = length[f.data] /\ ~(FixedWidth[f.type] >= 0)
  <2>1. f.type = FUDGE_MSG
    BY MsgFacts
  <2>2. ~(FixedWidth[f.type] >= 0)
    BY <2>1, Widths
  <2> QED BY <2>1, <2>2 DEF DataLength
<1> QED
  BY <1>1, <1>2

-----------------------------------------------------------------------------
(* Lengths.                                                                *)

(* The lengths of the fields of a message.                                 *)
SizesOf(m, length) ==
    [i \in DOMAIN m |-> FieldLength(Shape(m[i]), DataLength(m[i], length))]

(* FudgeCodec_getFieldLength of each field of a message is a natural       *)
(* number if the lengths of the messages it holds are.                     *)
LEMMA FieldLengths ==
    ASSUME NEW f, HeaderOK(f), NEW size \in Nat
    PROVE  /\ FieldLength(Shape(f), size) \in Nat
           /\ FieldLength(Shape(f), size)
                  = Len(EncodeFieldHeader(f, size)) + Len(WidthBytes(f, size)) + size
           /\ Len(EncodeFieldHeader(f, size)) >= 2
<1> DEFINE a == Len(EncodeFieldHeader(f, size))
           b == Len(WidthBytes(f, size))
           h == EncodeFieldHeader(f, size)
           w == WidthBytes(f, size)
<1>1. h \in Seq(Byte) /\ Len(h) = HeaderLength(Shape(f))
  BY HeaderBytes
<1>2. w \in Seq(Byte) /\ Len(w) = PrefixLength(Shape(f), size)
  <2>1. f.type \in Byte
    BY DEF HeaderOK
  <2> QED BY <2>1, WidthWritten
<1>4. Len(h) >= 2
  <2>1. Shape(f).name = NoName \/ Shape(f).name \in Nat
    <3>1. CASE f.name = {}
      BY <3>1 DEF Shape
    <3>2. CASE f.name # {}
      <4>1. The(f.name) \in f.name
        BY <3>2, OnlyOne DEF HeaderOK
      <4>2. The(f.name) \in Seq(Byte)
        BY <4>1 DEF HeaderOK
      <4>3. Len(The(f.name)) \in Nat
        BY <4>2
      <4> QED BY <3>2, <4>3 DEF Shape
    <3> QED BY <3>1, <3>2
  <2>2. HeaderLength(Shape(f)) >= 2
    BY <2>1 DEF HeaderLength, NoName
  <2> QED BY <1>1, <2>2
<1> HIDE DEF h, w
<1>3. Len(h) \in Nat /\ Len(w) \in Nat
  BY <1>1, <1>2
<1>5. FieldLength(Shape(f), size) = Len(h) + Len(w) + size
  BY <1>1, <1>2 DEF FieldLength
<1>6. FieldLength(Shape(f), size) \in Nat
  BY <1>3, <1>5
<1> QED
  BY <1>4, <1>5, <1>6 DEF h, w

(* They are natural numbers as soon as the lengths of submessages are, and *)
(* depend on no other.                                                     *)
LEMMA SizesOfFields ==
    ASSUME NEW room \in Nat, room <= 256, NEW rank, Ranked(rank, room), NEW m \in Messages, NEW g,
           \A n \in Messages : rank[n] < rank[m] => g[n] \in Nat
    PROVE  /\ SizesOf(m, g) \in Seq(Nat) /\ Len(SizesOf(m, g)) = Len(m)
           /\ Total(SizesOf(m, g)) \in Nat
           /\ \A i \in 1..Len(m) :
                 /\ SizesOf(m, g)[i] = FieldLength(Shape(m[i]), DataLength(m[i], g))
                 /\ DataLength(m[i], g) \in Nat
           /\ \A h : (\A n \in Messages : rank[n] < rank[m] => h[n] = g[n])
                        => SizesOf(m, h) = SizesOf(m, g)
<1> DEFINE B == {n \in Messages : rank[n] < rank[m]}
           FS == FieldsOver(room, B)
<1>1. m \in Seq(FS)
  BY DEF Ranked, FieldsBelow
<1>2. DOMAIN m = 1..Len(m) /\ Len(m) \in Nat
  BY <1>1
<1>3. ASSUME NEW i \in 1..Len(m)
      PROVE  m[i] \in LeafFields(room) \/ m[i] \in MsgFields(room, B)
  <2> HIDE DEF FS
  <2>1. m[i] \in FS
    BY <1>1, ElementOfSeq
  <2> HIDE DEF B
  <2> QED BY <2>1 DEF FS, FieldsOver
<1>4. ASSUME NEW i \in 1..Len(m)
      PROVE  /\ DataLength(m[i], g) \in Nat /\ HeaderOK(m[i])
             /\ FieldLength(Shape(m[i]), DataLength(m[i], g)) \in Nat
             /\ \A h : (\A n \in Messages : rank[n] < rank[m] => h[n] = g[n])
                          => DataLength(m[i], h) = DataLength(m[i], g)
  <2>1. CASE m[i] \in LeafFields(room)
    <3>1. HeaderOK(m[i])
      BY <2>1, LeafFacts
    <3>2. \A h : DataLength(m[i], h) = LeafLength(m[i].type, m[i].data)
      BY <2>1, DataLengths
    <3>3. DataLength(m[i], g) \in Nat
      BY <2>1, DataLengths
    <3> QED BY <3>1, <3>2, <3>3, FieldLengths
  <2>2. CASE m[i] \in MsgFields(room, B)
    <3>1. HeaderOK(m[i]) /\ m[i].data \in B
      BY <2>2, MsgFacts
    <3>2. \A h : DataLength(m[i], h) = h[m[i].data]
      <4> HIDE DEF B
      <4> QED BY <2>2, DataLengths
    <3>3. DataLength(m[i], g) \in Nat
      BY <3>1, <3>2
    <3> QED BY <3>1, <3>2, <3>3, FieldLengths
  <2> QED BY <1>3, <2>1, <2>2
<1>5. /\ SizesOf(m, g) \in Seq(Nat) /\ Len(SizesOf(m, g)) = Len(m)
      /\ \A i \in 1..Len(m) :
            SizesOf(m, g)[i] = FieldLength(Shape(m[i]), DataLength(m[i], g))
  <2> DEFINE e(i) == FieldLength(Shape(m[i]), DataLength(m[i], g))
             s == [i \in 1..Len(m) |-> e(i)]
  <2>1. SizesOf(m, g) = s
    BY <1>2 DEF SizesOf
  <2>2. \A i \in 1..Len(m) : e(i) \in Nat
    BY <1>4
  <2> HIDE DEF e
  <2>3. s \in Seq(Nat) /\ Len(s) = Len(m) /\ \A i \in 1..Len(m) : s[i] = e(i)
    BY <1>2, <2>2
  <2> QED BY <2>1, <2>3 DEF e
<1>6. Total(SizesOf(m, g)) \in Nat
  BY <1>5, SumsGrow
<1>7. ASSUME NEW h, \A n \in Messages : rank[n] < rank[m] => h[n] = g[n]
      PROVE  SizesOf(m, h) = SizesOf(m, g)
  <2>1. \A i \in 1..Len(m) : DataLength(m[i], h) = DataLength(m[i], g)
    BY <1>4, <1>7
  <2>2. \A i \in DOMAIN m : DataLength(m[i], h) = DataLength(m[i], g)
    BY <1>2, <2>1
  <2> QED BY <2>2 DEF SizesOf
<1> QED
  BY <1>4, <1>5, <1>6, <1>7

(* FudgeCodec_getMessageLength is what its definition says.                *)
LEMMA MessageLengths ==
    ASSUME NEW room \in Nat, room <= 256, NEW rank, Ranked(rank, room)
    PROVE  /\ MessageLength \in [Messages -> Nat]
           /\ \A m \in Messages : MessageLength[m] = Total(SizesOf(m, MessageLength))
<1> DEFINE S == Messages
           R(g) == [m \in S |-> Total(SizesOf(m, g))]
           F == [g \in [S -> Nat] |-> R(g)]
<1>1. rank \in [S -> Nat]
  BY DEF Ranked
<1>2. \A g \in [S -> Nat] : R(g) \in [S -> Nat]
  <2> TAKE g \in [S -> Nat]
  <2>1. \A m \in S : Total(SizesOf(m, g)) \in Nat
    BY SizesOfFields
  <2> QED BY <2>1
<1>3. ASSUME NEW m \in S, NEW g \in [S -> Nat], NEW h \in [S -> Nat],
             \A k \in S : rank[k] < rank[m] => g[k] = h[k]
      PROVE  F[g][m] = F[h][m]
  <2>1. SizesOf(m, g) = SizesOf(m, h)
    BY <1>3, SizesOfFields
  <2> QED BY <2>1
<1>4. PICK f \in [S -> Nat] : F[f] = f
  <2>1. F \in [[S -> Nat] -> [S -> Nat]]
    <3> HIDE DEF R, S
    <3> QED BY <1>2
  <2> HIDE DEF F, S
  <2>2. DependsBelow(S, rank, Nat, F)
    BY <1>1, <1>3, <2>1 DEF DependsBelow
  <2> QED BY <2>2, Recursion
<1>5. f = R(f)
  <2> HIDE DEF R, S
  <2> QED BY <1>4
<1>6. MessageLength = CHOOSE g : g = R(g)
  BY DEF MessageLength, SizesOf
<1>7. MessageLength = R(MessageLength)
  <2> HIDE DEF R, S
  <2> QED BY <1>5, <1>6
<1>8. \A m \in S : MessageLength[m] = Total(SizesOf(m, MessageLength))
  <2> DEFINE T(m) == Total(SizesOf(m, MessageLength))
  <2>1. MessageLength = [m \in S |-> T(m)]
    BY <1>7
  <2> HIDE DEF T
  <2>2. \A m \in S : MessageLength[m] = T(m)
    BY <2>1
  <2> QED BY <2>2 DEF T
<1>9. \A m \in S : MessageLength[m] \in Nat
  <2> DEFINE Bad == {m \in S : MessageLength[m] \notin Nat}
             T == {rank[m] : m \in Bad}
  <2> SUFFICES ASSUME Bad # {} PROVE FALSE
    OBVIOUS
  <2>1. PICK m \in Bad : \A k \in Bad : rank[m] <= rank[k]
    <3>1. T \in SUBSET Nat /\ T # {}
      BY <1>1
    <3>2. PICK t \in T : \A u \in T : t <= u
      <4> HIDE DEF T
      <4> QED BY <3>1, Least
    <3> QED BY <3>2
  <2>2. m \in S /\ rank[m] \in Nat /\ MessageLength[m] \notin Nat
    BY <1>1
  <2>3. \A n \in S : rank[n] < rank[m] => MessageLength[n] \in Nat
    <3> SUFFICES ASSUME NEW n \in S, rank[n] < rank[m], MessageLength[n] \notin Nat
        PROVE  FALSE
      OBVIOUS
    <3>1. rank[n] \in Nat /\ rank[m] <= rank[n]
      BY <1>1, <2>1
    <3> QED BY <2>2, <3>1
  <2>4. Total(SizesOf(m, MessageLength)) \in Nat
    BY <2>2, <2>3, SizesOfFields
  <2> QED BY <1>8, <2>2, <2>4
<1>10. MessageLength \in [S -> Nat]
  <2>1. MessageLength = [m \in S |-> MessageLength[m]]
    BY <1>7
  <2> QED BY <1>9, <2>1
<1> QED
  BY <1>8, <1>10

-----------------------------------------------------------------------------
(* The bytes that are written.                                             *)
PartsOf(m, encoded) == [i \in DOMAIN m |-> EncodeField(m[i], encoded)]

(* FudgeCodec_getFieldDataLength, and the parts the fields of a message    *)
(* are encoded to.                                                         *)
SizeOf(f) == DataLength(f, MessageLength)

(* One turn of FudgeCodec_encodeMsgFields.                                 *)
LEMMA FieldWritten ==
    ASSUME NEW f, HeaderOK(f), SizeOf(f) \in Nat, NEW g,
           EncodeValue(f.type, f.data, g) \in Seq(Byte)
    PROVE  /\ EncodeField(f, g) =
                  (EncodeFieldHeader(f, SizeOf(f)) \o WidthBytes(f, SizeOf(f)))
                      \o EncodeValue(f.type, f.data, g)
           /\ EncodeField(f, g) \in Seq(Byte)
           /\ Len(EncodeField(f, g)) = Len(EncodeFieldHeader(f, SizeOf(f)))
                  + Len(WidthBytes(f, SizeOf(f))) + Len(EncodeValue(f.type, f.data, g))
<1> DEFINE size == SizeOf(f)
           h == EncodeFieldHeader(f, size)
           w == WidthBytes(f, size)
           v == EncodeValue(f.type, f.data, g)
<1>1. h \in Seq(Byte)
  BY HeaderBytes
<1>2. w \in Seq(Byte)
  <2>1. f.type \in Byte
    BY DEF HeaderOK
  <2> QED BY <2>1, WidthWritten
<1>3. EncodeField(f, g) = (h \o w) \o v
  BY DEF EncodeField, WidthBytes, SizeOf
<1>4. v \in Seq(Byte)
  OBVIOUS
<1> HIDE DEF h, w, v, size
<1>5. (h \o w) \o v \in Seq(Byte) /\ Len((h \o w) \o v) = Len(h) + Len(w) + Len(v)
  BY <1>1, <1>2, <1>4, Middle
<1> QED
  BY <1>3, <1>5 DEF h, w, v, size

(* Encoded values of submessages count, and only those.                    *)
LEMMA ValuesWritten ==
    ASSUME NEW room \in Nat, room <= 256, NEW S, NEW f \in FieldsOver(room, S), NEW g,
           \A n \in S : g[n] \in Seq(Byte)
    PROVE  /\ EncodeValue(f.type, f.data, g) \in Seq(Byte)
           /\ \A h : (\A n \in S : h[n] = g[n]) => EncodeField(f, h) = EncodeField(f, g)
<1>1. CASE f \in LeafFields(room)
  <2>1. f.type \in Byte /\ f.type # FUDGE_MSG /\ f.data \in DataOf(f.type)
    BY <1>1, LeafFacts
  <2>2. EncodeValue(f.type, f.data, g) \in Seq(Byte)
    BY <2>1, LeafReadBack
  <2>3. \A h : EncodeValue(f.type, f.data, h) = EncodeValue(f.type, f.data, g)
    BY <2>1, SMT DEF EncodeValue
  <2>4. \A h : EncodeField(f, h) = EncodeField(f, g)
    BY <2>3, Zenon DEF EncodeField
  <2> QED BY <2>2, <2>4
<1>2. CASE f \in MsgFields(room, S)
  <2>1. f.type = FUDGE_MSG /\ f.data \in S
    BY <1>2, MsgFacts
  <2>2. ASSUME NEW h
        PROVE  EncodeValue(FUDGE_MSG, f.data, h) = h[f.data]
    <3>1. FUDGE_MSG # INDICATOR /\ FUDGE_MSG \notin Numbers /\ FUDGE_MSG \notin Arrays
      BY DEF INDICATOR, BOOL, BYTE, SHORT, INT, FLOAT, LONG, DOUBLE, Numbers,
            Arrays, SHORT_ARRAY, INT_ARRAY, LONG_ARRAY, FLOAT_ARRAY, DOUBLE_ARRAY, FUDGE_MSG
    <3> DEFINE v == f.data
    <3> HIDE DEF v
    <3>2. FUDGE_MSG # DATE /\ FUDGE_MSG # TIME /\ FUDGE_MSG # DATETIME
      BY DEF DATE, TIME, DATETIME, FUDGE_MSG
    <3>3. EncodeValue(FUDGE_MSG, v, h) = h[v]
      BY <3>1, <3>2 DEF EncodeValue
    <3> QED BY <3>3 DEF v
  <2>3. EncodeValue(f.type, f.data, g) \in Seq(Byte)
    BY <2>1, <2>2
  <2>4. ASSUME NEW h, \A n \in S : h[n] = g[n]
        PROVE  EncodeField(f, h) = EncodeField(f, g)
    <3>1. EncodeValue(f.type, f.data, h) = EncodeValue(f.type, f.data, g)
      BY <2>1, <2>2, <2>4
    <3> QED BY <3>1, Zenon DEF EncodeField
  <2> QED BY <2>3, <2>4
<1> QED
  BY <1>1, <1>2 DEF FieldsOver

(* A message is a sequence of fields of known lengths.                     *)
LEMMA PartsWritten ==
    ASSUME NEW room \in Nat, room <= 256, NEW rank, Ranked(rank, room), NEW m \in Messages, NEW g,
           \A n \in Messages : rank[n] < rank[m] => g[n] \in Seq(Byte)
    PROVE  /\ PartsOf(m, g) \in Seq(Seq(Byte)) /\ Len(PartsOf(m, g)) = Len(m)
           /\ FlattenSeq(PartsOf(m, g)) \in Seq(Byte)
           /\ \A i \in 1..Len(m) :
                 /\ SizeOf(m[i]) \in Nat /\ HeaderOK(m[i])
                 /\ EncodeValue(m[i].type, m[i].data, g) \in Seq(Byte)
                 /\ PartsOf(m, g)[i] = EncodeField(m[i], g)
           /\ \A h : (\A n \in Messages : rank[n] < rank[m] => h[n] = g[n])
                        => PartsOf(m, h) = PartsOf(m, g)
<1> DEFINE B == {n \in Messages : rank[n] < rank[m]}
           FS == FieldsOver(room, B)
<1>1. m \in Seq(FS)
  BY DEF Ranked, FieldsBelow
<1>2. DOMAIN m = 1..Len(m) /\ Len(m) \in Nat
  BY <1>1
<1>3. \A i \in 1..Len(m) : m[i] \in FS
  <2> HIDE DEF FS
  <2> QED BY <1>1, ElementOfSeq
<1>4. \A n \in Messages : rank[n] < rank[m] => MessageLength[n] \in Nat
  BY MessageLengths
<1>5. \A i \in 1..Len(m) : SizeOf(m[i]) \in Nat
  BY <1>4, SizesOfFields DEF SizeOf
<1>6. \A i \in 1..Len(m) : HeaderOK(m[i])
  <2> TAKE i \in 1..Len(m)
  <2>1. m[i] \in LeafFields(room) \/ m[i] \in MsgFields(room, B)
    <3> HIDE DEF B
    <3> QED BY <1>3 DEF FieldsOver
  <2> QED BY <2>1, LeafFacts, MsgFacts
<1>7. \A n \in B : g[n] \in Seq(Byte)
  OBVIOUS
<1>8. ASSUME NEW i \in 1..Len(m)
      PROVE  /\ EncodeValue(m[i].type, m[i].data, g) \in Seq(Byte)
             /\ \A h : (\A n \in B : h[n] = g[n]) => EncodeField(m[i], h) = EncodeField(m[i], g)
  <2>1. m[i] \in FieldsOver(room, B)
    BY <1>3
  <2> HIDE DEF B, FS
  <2> QED BY <1>7, <2>1, ValuesWritten
<1>9. \A i \in 1..Len(m) : EncodeField(m[i], g) \in Seq(Byte)
  <2> TAKE i \in 1..Len(m)
  <2> QED BY <1>5, <1>6, <1>8, FieldWritten
<1>10. /\ PartsOf(m, g) \in Seq(Seq(Byte)) /\ Len(PartsOf(m, g)) = Len(m)
       /\ \A i \in 1..Len(m) : PartsOf(m, g)[i] = EncodeField(m[i], g)
  <2> DEFINE e(i) == EncodeField(m[i], g)
             s == [i \in 1..Len(m) |-> e(i)]
             V == Seq(Byte)
  <2>1. PartsOf(m, g) = s
    BY <1>2 DEF PartsOf
  <2>2. \A i \in 1..Len(m) : e(i) \in V
    BY <1>9
  <2> HIDE DEF e, V
  <2>3. s \in Seq(V) /\ Len(s) = Len(m) /\ \A i \in 1..Len(m) : s[i] = e(i)
    BY <1>2, <2>2
  <2> QED BY <2>1, <2>3 DEF e, V
<1>11. FlattenSeq(PartsOf(m, g)) \in Seq(Byte)
  <2> DEFINE s == PartsOf(m, g)
             sizes == [i \in 1..Len(s) |-> Len(s[i])]
  <2>1. s \in Seq(Seq(Byte))
    BY <1>10
  <2> HIDE DEF s
  <2>2. \A i \in 1..Len(s) : Len(s[i]) \in Nat
    <3>1. \A i \in 1..Len(s) : s[i] \in Seq(Byte)
      BY <2>1, ElementOfSeq
    <3> QED BY <3>1
  <2>3. sizes \in Seq(Nat) /\ Len(sizes) = Len(s) /\ \A i \in 1..Len(s) : Len(s[i]) = sizes[i]
    <3>1. Len(s) \in Nat
      BY <2>1
    <3> QED BY <3>1, <2>2
  <2> HIDE DEF sizes
  <2>4. FlattenSeq(s) \in Seq(Byte)
    BY <2>1, <2>3, FlattenedLength
  <2> QED BY <2>4 DEF s
<1>12. ASSUME NEW h, \A n \in Messages : rank[n] < rank[m] => h[n] = g[n]
       PROVE  PartsOf(m, h) = PartsOf(m, g)
  <2>1. \A n \in B : h[n] = g[n]
    BY <1>12
  <2>2. \A i \in 1..Len(m) : EncodeField(m[i], h) = EncodeField(m[i], g)
    BY <1>8, <2>1
  <2>3. \A i \in DOMAIN m : EncodeField(m[i], h) = EncodeField(m[i], g)
    BY <1>2, <2>2
  <2> QED BY <2>3, Zenon DEF PartsOf
<1> QED
  BY <1>5, <1>6, <1>8, <1>10, <1>11, <1>12

(* What FudgeCodec_encodeMsgFields writes is what its definition says.     *)
LEMMA BytesWritten ==
    ASSUME NEW room \in Nat, room <= 256, NEW rank, Ranked(rank, room)
    PROVE  /\ EncodeMsgFields \in [Messages -> Seq(Byte)]
           /\ \A m \in Messages : EncodeMsgFields[m] = FlattenSeq(PartsOf(m, EncodeMsgFields))
<1> DEFINE S == Messages
           V == Seq(Byte)
           R(g) == [m \in S |-> FlattenSeq(PartsOf(m, g))]
           F == [g \in [S -> V] |-> R(g)]
<1>1. rank \in [S -> Nat] /\ V # {}
  BY EmptySeq DEF Ranked
<1>2. \A g \in [S -> V] : R(g) \in [S -> V]
  <2> TAKE g \in [S -> V]
  <2>1. \A n \in S : g[n] \in Seq(Byte)
    OBVIOUS
  <2>2. \A m \in S : FlattenSeq(PartsOf(m, g)) \in Seq(Byte)
    BY <2>1, PartsWritten
  <2> HIDE DEF S
  <2> QED BY <2>2
<1>3. ASSUME NEW m \in S, NEW g \in [S -> V], NEW h \in [S -> V],
             \A k \in S : rank[k] < rank[m] => g[k] = h[k]
      PROVE  F[g][m] = F[h][m]
  <2>0. \A n \in S : h[n] \in Seq(Byte)
    OBVIOUS
  <2>1. PartsOf(m, g) = PartsOf(m, h)
    BY <1>3, <2>0, PartsWritten
  <2> HIDE DEF V
  <2> QED BY <2>1
<1>4. PICK f \in [S -> V] : F[f] = f
  <2>1. F \in [[S -> V] -> [S -> V]]
    <3> HIDE DEF R, S, V
    <3> QED BY <1>2
  <2> HIDE DEF F, S, V
  <2>2. DependsBelow(S, rank, V, F)
    BY <1>1, <1>3, <2>1 DEF DependsBelow
  <2> QED BY <2>2, Recursion
<1>5. f = R(f)
  <2> HIDE DEF R, S, V
  <2> QED BY <1>4
<1>6. EncodeMsgFields = CHOOSE g : g = R(g)
  BY Zenon DEF EncodeMsgFields, PartsOf
<1>7. EncodeMsgFields = R(EncodeMsgFields)
  <2> HIDE DEF R, S
  <2> QED BY <1>5, <1>6
<1>8. \A m \in S : EncodeMsgFields[m] = FlattenSeq(PartsOf(m, EncodeMsgFields))
  <2> DEFINE T(m) == FlattenSeq(PartsOf(m, EncodeMsgFields))
  <2>1. EncodeMsgFields = [m \in S |-> T(m)]
    BY <1>7
  <2> HIDE DEF T
  <2>2. \A m \in S : EncodeMsgFields[m] = T(m)
    BY <2>1
  <2> QED BY <2>2 DEF T
<1>9. \A m \in S : EncodeMsgFields[m] \in V
  <2> DEFINE Bad == {m \in S : EncodeMsgFields[m] \notin V}
             T == {rank[m] : m \in Bad}
  <2> SUFFICES ASSUME Bad # {} PROVE FALSE
    OBVIOUS
  <2>1. PICK m \in Bad : \A k \in Bad : rank[m] <= rank[k]
    <3>1. T \in SUBSET Nat /\ T # {}
      BY <1>1
    <3>2. PICK t \in T : \A u \in T : t <= u
      <4> HIDE DEF T
      <4> QED BY <3>1, Least
    <3> HIDE DEF Bad
    <3>3. PICK m \in Bad : t = rank[m]
      BY <3>2
    <3>4. \A k \in Bad : rank[m] <= rank[k]
      BY <3>2, <3>3
    <3> QED BY <3>3, <3>4
  <2>2. m \in S /\ rank[m] \in Nat /\ EncodeMsgFields[m] \notin V
    BY <1>1
  <2>3. \A n \in S : rank[n] < rank[m] => EncodeMsgFields[n] \in V
    <3> SUFFICES ASSUME NEW n \in S, rank[n] < rank[m], EncodeMsgFields[n] \notin V
        PROVE  FALSE
      OBVIOUS
    <3>1. rank[n] \in Nat /\ rank[m] <= rank[n]
      BY <1>1, <2>1
    <3> QED BY <2>2, <3>1
  <2>4. FlattenSeq(PartsOf(m, EncodeMsgFields)) \in V
    BY <2>2, <2>3, PartsWritten
  <2> QED BY <1>8, <2>2, <2>4
<1>10. EncodeMsgFields \in [S -> V]
  <2>1. EncodeMsgFields = [m \in S |-> EncodeMsgFields[m]]
    BY <1>7
  <2> QED BY <1>9, <2>1
<1> QED
  BY <1>8, <1>10

(* A message that does not have a property, but all of lower rank do.      *)
LEMMA FirstOfThem ==
    ASSUME NEW S, NEW rank \in [S -> Nat], NEW Bad \in SUBSET S, Bad # {}
    PROVE  \E m \in Bad : \A n \in S : rank[n] < rank[m] => n \notin Bad
<1> DEFINE T == {rank[m] : m \in Bad}
<1>1. PICK m \in Bad : \A k \in Bad : rank[m] <= rank[k]
  <2>1. T \in SUBSET Nat /\ T # {}
    OBVIOUS
  <2>2. PICK t \in T : \A u \in T : t <= u
    <3> HIDE DEF T
    <3> QED BY <2>1, Least
  <2> QED BY <2>2
<1>2. \A n \in S : rank[n] \in Nat
  OBVIOUS
<1>3. \A n \in S : rank[n] < rank[m] => n \notin Bad
  <2> SUFFICES ASSUME NEW n \in S, rank[n] < rank[m], n \in Bad
      PROVE  FALSE
    OBVIOUS
  <2>1. rank[m] <= rank[n] /\ rank[n] \in Nat /\ rank[m] \in Nat
    BY <1>1, <1>2
  <2> QED BY <2>1
<1> QED
  BY <1>3

(* The value of a field with a message is what is written of it.           *)
LEMMA ValueOfMessage ==
    ASSUME NEW v, NEW g
    PROVE  EncodeValue(FUDGE_MSG, v, g) = g[v]
<1>1. FUDGE_MSG # INDICATOR /\ FUDGE_MSG \notin Numbers /\ FUDGE_MSG \notin Arrays
  BY DEF INDICATOR, BOOL, BYTE, SHORT, INT, FLOAT, LONG, DOUBLE, Numbers,
        Arrays, SHORT_ARRAY, INT_ARRAY, LONG_ARRAY, FLOAT_ARRAY, DOUBLE_ARRAY, FUDGE_MSG
<1>2. FUDGE_MSG # DATE /\ FUDGE_MSG # TIME /\ FUDGE_MSG # DATETIME
  BY DEF DATE, TIME, DATETIME, FUDGE_MSG
<1> QED
  BY <1>1, <1>2 DEF EncodeValue

(* FudgeCodec_getMessageLength measures what FudgeCodec_encodeMsgFields    *)
(* writes.                                                                 *)
LEMMA LengthsWritten ==
    ASSUME NEW room \in Nat, room <= 256, NEW rank, Ranked(rank, room)
    PROVE  /\ \A m \in Messages : Len(EncodeMsgFields[m]) = MessageLength[m]
           /\ \A m \in Messages : \A i \in 1..Len(m) :
                 Len(EncodeValue(m[i].type, m[i].data, EncodeMsgFields)) = SizeOf(m[i])
<1> DEFINE E == EncodeMsgFields
           Bad == {m \in Messages : Len(E[m]) # MessageLength[m]}
<1>1. /\ E \in [Messages -> Seq(Byte)]
      /\ \A m \in Messages : E[m] = FlattenSeq(PartsOf(m, E))
      /\ \A m \in Messages : E[m] \in Seq(Byte)
  BY BytesWritten
<1>2. /\ \A m \in Messages : MessageLength[m] = Total(SizesOf(m, MessageLength))
      /\ \A m \in Messages : MessageLength[m] \in Nat
  BY MessageLengths
<1>3. rank \in [Messages -> Nat]
  BY DEF Ranked
<1> HIDE DEF E
<1>4. ASSUME NEW m \in Messages, \A n \in Messages : rank[n] < rank[m] => n \notin Bad
      PROVE  /\ Len(E[m]) = MessageLength[m]
             /\ \A i \in 1..Len(m) : Len(EncodeValue(m[i].type, m[i].data, E)) = SizeOf(m[i])
  <2> DEFINE B == {n \in Messages : rank[n] < rank[m]}
             FS == FieldsOver(room, B)
             s == PartsOf(m, E)
             sizes == SizesOf(m, MessageLength)
  <2>1. m \in Seq(FS)
    BY DEF Ranked, FieldsBelow
  <2>2. /\ s \in Seq(Seq(Byte)) /\ Len(s) = Len(m)
        /\ \A i \in 1..Len(m) :
                 /\ SizeOf(m[i]) \in Nat /\ HeaderOK(m[i])
                 /\ EncodeValue(m[i].type, m[i].data, E) \in Seq(Byte)
                 /\ s[i] = EncodeField(m[i], E)
    BY <1>1, PartsWritten
  <2>3. /\ sizes \in Seq(Nat) /\ Len(sizes) = Len(m)
        /\ \A i \in 1..Len(m) : sizes[i] = FieldLength(Shape(m[i]), SizeOf(m[i]))
    BY <1>2, SizesOfFields DEF SizeOf
  <2>4. ASSUME NEW i \in 1..Len(m)
        PROVE  Len(EncodeValue(m[i].type, m[i].data, E)) = SizeOf(m[i])
    <3>1. m[i] \in LeafFields(room) \/ m[i] \in MsgFields(room, B)
      <4>1. m[i] \in FS
        <5> HIDE DEF FS
        <5> QED BY <2>1, ElementOfSeq
      <4> HIDE DEF B
      <4> QED BY <4>1 DEF FS, FieldsOver
    <3>2. CASE m[i] \in LeafFields(room)
      <4>1. m[i].type \in Byte /\ m[i].type # FUDGE_MSG /\ m[i].data \in DataOf(m[i].type)
        BY <3>2, LeafFacts
      <4>2. Len(EncodeValue(m[i].type, m[i].data, E)) = LeafLength(m[i].type, m[i].data)
        BY <4>1, LeafReadBack
      <4>3. SizeOf(m[i]) = LeafLength(m[i].type, m[i].data)
        BY <3>2, DataLengths DEF SizeOf
      <4> QED BY <4>2, <4>3
    <3>3. CASE m[i] \in MsgFields(room, B)
      <4>1. m[i].type = FUDGE_MSG /\ m[i].data \in B
        BY <3>3, MsgFacts
      <4>2. SizeOf(m[i]) = MessageLength[m[i].data]
        <5> HIDE DEF B
        <5> QED BY <3>3, DataLengths, ZenonT(40) DEF SizeOf
      <4>3. EncodeValue(m[i].type, m[i].data, E) = E[m[i].data]
        BY <4>1, ValueOfMessage
      <4>4. Len(E[m[i].data]) = MessageLength[m[i].data]
        BY <4>1, <1>4
      <4> QED BY <4>2, <4>3, <4>4
    <3> QED BY <3>1, <3>2, <3>3
  <2> HIDE DEF s, sizes
  <2>5. \A i \in 1..Len(s) : Len(s[i]) = sizes[i]
    <3> SUFFICES ASSUME NEW i \in 1..Len(m)
        PROVE  Len(s[i]) = sizes[i]
      BY <2>2
    <3> DEFINE a == Len(EncodeFieldHeader(m[i], SizeOf(m[i])))
               b == Len(WidthBytes(m[i], SizeOf(m[i])))
               c == Len(EncodeValue(m[i].type, m[i].data, E))
    <3>1. SizeOf(m[i]) \in Nat /\ HeaderOK(m[i])
          /\ EncodeValue(m[i].type, m[i].data, E) \in Seq(Byte) /\ s[i] = EncodeField(m[i], E)
      BY <2>2
    <3>2. Len(s[i]) = a + b + c
      BY <3>1, FieldWritten
    <3>3. sizes[i] = a + b + SizeOf(m[i])
      BY <3>1, <2>3, FieldLengths
    <3> HIDE DEF a, b, c
    <3>4. c = SizeOf(m[i])
      BY <2>4 DEF c
    <3> QED BY <3>2, <3>3, <3>4
  <2>6. Len(FlattenSeq(s)) = Total(sizes)
    <3>1. Len(sizes) = Len(s)
      BY <2>2, <2>3
    <3> QED BY <3>1, <2>2, <2>3, <2>5, FlattenedLength
  <2>7. Len(E[m]) = MessageLength[m]
    BY <1>1, <1>2, <2>6 DEF s, sizes
  <2> QED BY <2>4, <2>7
<1>5. Bad = {}
  <2> SUFFICES ASSUME Bad # {} PROVE FALSE
    OBVIOUS
  <2>1. PICK m \in Bad : \A n \in Messages : rank[n] < rank[m] => n \notin Bad
    <3>1. Bad \in SUBSET Messages
      OBVIOUS
    <3> DEFINE S == Messages
    <3>2. rank \in [S -> Nat] /\ Bad \in SUBSET S
      BY <1>3, <3>1
    <3> HIDE DEF Bad, S
    <3>3. \E m \in Bad : \A n \in S : rank[n] < rank[m] => n \notin Bad
      BY <3>2, FirstOfThem
    <3> QED BY <3>3 DEF S
  <2>2. m \in Messages /\ Len(E[m]) # MessageLength[m]
    OBVIOUS
  <2> HIDE DEF Bad
  <2> QED BY <1>4, <2>1, <2>2
<1> QED
  BY <1>4, <1>5 DEF E

(* The length of a field is at most that of its message.                   *)
LEMMA PartsAreShorter ==
    ASSUME NEW sizes \in Seq(Nat), NEW i \in 1..Len(sizes)
    PROVE  sizes[i] <= Total(sizes)
<1>1. /\ Sums(sizes) \in [0..Len(sizes) -> Nat]
      /\ \A n \in 1..Len(sizes) : Sums(sizes)[n] = Sums(sizes)[n - 1] + sizes[n]
  BY SumsStepByStep
<1>2. Total(sizes) \in Nat /\ \A n \in 0..Len(sizes) : Sums(sizes)[n] <= Total(sizes)
  BY SumsGrow
<1>3. i \in 0..Len(sizes) /\ i - 1 \in 0..Len(sizes) /\ sizes[i] \in Nat
  OBVIOUS
<1>4. Sums(sizes)[i - 1] \in Nat /\ Sums(sizes)[i] = Sums(sizes)[i - 1] + sizes[i]
      /\ Sums(sizes)[i] <= Total(sizes)
  BY <1>1, <1>2, <1>3
<1> QED
  BY <1>2, <1>3, <1>4

-----------------------------------------------------------------------------
(* The message that is read.                                               *)

(* The decoder of the type FUDGE_MSG is that of messages.                  *)
LEMMA MessageDecoder ==
    ASSUME NEW b \in Seq(Byte), NEW g
    PROVE  DecodeValue(FUDGE_MSG, b, g) = g[b]
<1>1. FUDGE_MSG # INDICATOR /\ FUDGE_MSG \notin Numbers /\ FUDGE_MSG \notin Arrays
      /\ FUDGE_MSG # STRING_TYPE
  BY DEF INDICATOR, BOOL, BYTE, SHORT, INT, FLOAT, LONG, DOUBLE, Numbers, STRING_TYPE,
        Arrays, SHORT_ARRAY, INT_ARRAY, LONG_ARRAY, FLOAT_ARRAY, DOUBLE_ARRAY, FUDGE_MSG
<1>2. ~(FixedWidth[FUDGE_MSG] > Len(b))
  <2>1. Len(b) \in Nat
    OBVIOUS
  <2> QED BY <2>1, Widths
<1>3. FUDGE_MSG # DATE /\ FUDGE_MSG # TIME /\ FUDGE_MSG # DATETIME
  BY DEF DATE, TIME, DATETIME, FUDGE_MSG
<1> QED
  BY <1>1, <1>2, <1>3 DEF DecodeValue

(* The first field and what follows it.                                    *)
LEMMA FirstFieldRead ==
    ASSUME NEW b \in Seq(Byte), b # <<>>, NEW f, NEW rest \in Seq(Byte), NEW others,
           DecodeField(b, DecodeMsgFields) = [status |-> "OK", rest |-> rest, field |-> f],
           DecodeMsgFields[rest] = Ok(others)
    PROVE  DecodeMsgFields[b] = Ok(<<f>> \o others)
<1> DEFINE first == DecodeField(b, DecodeMsgFields)
           result == DecodeMsgFields[rest]
<1>1. first.status = "OK" /\ first.rest = rest /\ first.field = f
  OBVIOUS
<1>2. result.status = "OK" /\ result.value = others
  BY DEF Ok
<1>3. DecodeMsgFields[first.rest] = result
  BY <1>1
<1> HIDE DEF first, result
<1>4. DecodeTurn(b, DecodeMsgFields) = Ok(<<f>> \o others)
  <2>1. DecodeTurn(b, DecodeMsgFields) =
            IF b = <<>> THEN Ok(<<>>)
            ELSE IF first.status # "OK" THEN first
            ELSE IF DecodeMsgFields[first.rest].status # "OK" THEN DecodeMsgFields[first.rest]
            ELSE Ok(<<first.field>> \o DecodeMsgFields[first.rest].value)
    BY Zenon DEF DecodeTurn, first
  <2> QED BY <1>1, <1>2, <1>3, <2>1
<1> QED
  BY <1>4, DecodedTurnByTurn

(* A field of a message, in front of whatever follows it.                  *)
LEMMA FieldOfMessage ==
    ASSUME NEW room \in Nat, room <= 128, NEW rank, Ranked(rank, room), NEW m \in Messages,
           MessageLength[m] \in I32,
           \A n \in Messages : rank[n] < rank[m] /\ MessageLength[n] \in I32
                                   => DecodeMsgFields[EncodeMsgFields[n]] = Ok(n),
           NEW i \in 1..Len(m), NEW rest \in Seq(Byte)
    PROVE  LET b == EncodeField(m[i], EncodeMsgFields)
           IN  /\ b \in Seq(Byte) /\ Len(b) > 0
               /\ DecodeField(b \o rest, DecodeMsgFields)
                      = [status |-> "OK", rest |-> rest, field |-> m[i]]
<1> DEFINE E == EncodeMsgFields
           D == DecodeMsgFields
           B == {n \in Messages : rank[n] < rank[m]}
           FS == FieldsOver(room, B)
           f == m[i]
           v == EncodeValue(f.type, f.data, E)
           h == EncodeFieldHeader(f, SizeOf(f))
           w == WidthBytes(f, SizeOf(f))
<1>0. room <= 256 /\ m \in Seq(FS) /\ Len(m) \in Nat
  BY DEF Ranked, FieldsBelow
<1>1. /\ \A n \in Messages : E[n] \in Seq(Byte)
      /\ \A n \in Messages : MessageLength[n] \in Nat
  BY <1>0, BytesWritten, MessageLengths
<1>2. /\ SizeOf(f) \in Nat /\ HeaderOK(f)
      /\ v \in Seq(Byte)
  BY <1>0, <1>1, PartsWritten
<1>3. f \in LeafFields(room) \/ f \in MsgFields(room, B)
  <2>1. f \in FS
    <3> HIDE DEF FS
    <3> QED BY <1>0, ElementOfSeq
  <2> HIDE DEF B
  <2> QED BY <2>1 DEF FS, FieldsOver
<1>4. Len(v) = SizeOf(f)
  BY <1>0, LengthsWritten
<1>5. Len(v) \in I32
  <2> DEFINE sizes == SizesOf(m, MessageLength)
  <2>1. sizes \in Seq(Nat) /\ Len(sizes) = Len(m) /\ sizes[i] = FieldLength(Shape(f), SizeOf(f))
    BY <1>0, <1>1, SizesOfFields DEF SizeOf
  <2> HIDE DEF sizes
  <2>2. sizes[i] <= Total(sizes) /\ Total(sizes) \in Nat
    <3>1. i \in 1..Len(sizes)
      BY <2>1
    <3> QED BY <2>1, <3>1, PartsAreShorter, SumsGrow
  <2>3. Total(sizes) = MessageLength[m]
    BY <1>0, MessageLengths DEF sizes
  <2> DEFINE a == Len(h)
             b == Len(w)
  <2>4. sizes[i] = a + b + SizeOf(f) /\ a \in Nat /\ b \in Nat
    <3>1. h \in Seq(Byte)
      BY <1>2, HeaderBytes
    <3>2. w \in Seq(Byte)
      <4>1. f.type \in Byte
        BY <1>2 DEF HeaderOK
      <4> QED BY <1>2, <4>1, WidthWritten
    <3>3. sizes[i] = a + b + SizeOf(f)
      BY <1>2, <2>1, FieldLengths
    <3> HIDE DEF h, w
    <3> QED BY <3>1, <3>2, <3>3
  <2> HIDE DEF a, b
  <2>5. SizeOf(f) <= MessageLength[m]
    BY <1>2, <2>2, <2>3, <2>4
  <2>6. \A x, y \in Nat : x <= y /\ y \in I32 => x \in I32
    BY SMT DEF I32, Between
  <2> QED BY <1>1, <1>2, <1>4, <2>5, <2>6
<1>6. Readable(f) /\ f = Field(f.type, f.name, f.ordinal, f.data) /\ f.type \in Byte
  BY <1>0, <1>3, LeafFacts, MsgFacts
<1>7. FixedWidth[f.type] >= 0 => FixedWidth[f.type] = Len(v)
  <2>1. CASE f \in LeafFields(room)
    BY <1>0, <1>4, <2>1, DataLengths DEF SizeOf
  <2>2. CASE f \in MsgFields(room, B)
    <3> HIDE DEF B
    <3>1. ~(FixedWidth[f.type] >= 0)
      BY <1>0, <2>2, DataLengths
    <3> QED BY <3>1
  <2> QED BY <1>3, <2>1, <2>2
<1>8. DecodeValue(f.type, v, D) = Ok(f.data)
  <2>1. CASE f \in LeafFields(room)
    <3>1. f.type \in Byte /\ f.type # FUDGE_MSG /\ f.data \in DataOf(f.type)
      BY <1>0, <2>1, LeafFacts
    <3> QED BY <3>1, LeafReadBack
  <2>2. CASE f \in MsgFields(room, B)
    <3>1. f.type = FUDGE_MSG /\ f.data \in B
      BY <1>0, <2>2, MsgFacts
    <3>2. v = E[f.data]
      BY <3>1, ValueOfMessage
    <3>3. Len(v) = MessageLength[f.data]
      <4>1. SizeOf(f) = MessageLength[f.data]
        <5> HIDE DEF B
        <5> QED BY <1>0, <2>2, DataLengths DEF SizeOf
      <4> QED BY <1>4, <4>1
    <3>4. D[E[f.data]] = Ok(f.data)
      BY <1>5, <3>1, <3>3
    <3>5. DecodeValue(FUDGE_MSG, v, D) = D[v]
      <4> HIDE DEF v, D
      <4> QED BY <1>2, MessageDecoder
    <3> QED BY <3>1, <3>2, <3>4, <3>5
  <2> QED BY <1>3, <2>1, <2>2
<1>9. EncodeField(f, E) = (h \o w) \o v
  BY <1>2, FieldWritten
<1>10. DecodeField(((EncodeFieldHeader(f, Len(v)) \o WidthBytes(f, Len(v))) \o v) \o rest, D)
           = [status |-> "OK", rest |-> rest, field |-> f]
  <2> HIDE DEF v, D, f
  <2> QED BY <1>2, <1>5, <1>6, <1>7, <1>8, FieldReadBack
<1>11. DecodeField(EncodeField(f, E) \o rest, D) = [status |-> "OK", rest |-> rest, field |-> f]
  <2> HIDE DEF v, D, f
  <2> QED BY <1>4, <1>9, <1>10
<1>12. EncodeField(f, E) \in Seq(Byte) /\ Len(EncodeField(f, E)) > 0
  <2>1. EncodeField(f, E) \in Seq(Byte)
        /\ Len(EncodeField(f, E)) = Len(h) + Len(w) + Len(v)
    BY <1>2, FieldWritten
  <2>2. Len(h) >= 2 /\ h \in Seq(Byte)
    BY <1>2, FieldLengths, HeaderBytes
  <2>3. w \in Seq(Byte)
    BY <1>2, <1>6, WidthWritten
  <2> HIDE DEF h, w, v
  <2>4. Len(h) \in Nat /\ Len(w) \in Nat /\ Len(v) \in Nat
    BY <1>2, <2>2, <2>3
  <2> QED BY <2>1, <2>2, <2>4
<1> QED
  BY <1>11, <1>12

(* What is left of a message.                                              *)
LEMMA RestOfMessage ==
    ASSUME NEW S, NEW m \in Seq(S)
    PROVE  /\ From(m, Len(m)) = <<>> /\ From(m, 0) = m
           /\ \A i \in 1..Len(m) : From(m, i - 1) = <<m[i]>> \o From(m, i)
<1> DEFINE n == Len(m)
           L(i) == SubSeq(m, i + 1, n)
<1>1. n \in Nat
  OBVIOUS
<1>2. \A i \in 1..n : m[i] \in S
  BY ElementOfSeq
<1>3. ASSUME NEW i \in 0..n
      PROVE  /\ L(i) \in Seq(S) /\ Len(L(i)) = n - i
             /\ \A j \in 1..(n - i) : L(i)[j] = m[i + j]
  <2> DEFINE a == i + 1
  <2>1. a \in Int /\ n \in Int /\ \A j \in a..n : m[j] \in S
    BY <1>1, <1>2
  <2>2. /\ SubSeq(m, a, n) \in Seq(S) /\ Len(SubSeq(m, a, n)) = IF a <= n THEN n - a + 1 ELSE 0
        /\ \A j \in 1..(n - a + 1) : SubSeq(m, a, n)[j] = m[a + j - 1]
    <3> HIDE DEF a, n
    <3> QED BY <2>1, SubSeqProperties
  <2>3. (IF a <= n THEN n - a + 1 ELSE 0) = n - i /\ n - a + 1 = n - i
    BY <1>1
  <2>4. \A j \in 1..(n - i) : a + j - 1 = i + j
    BY <1>1
  <2> HIDE DEF n
  <2> QED BY <2>2, <2>3, <2>4
<1>4. \A i : From(m, i) = L(i)
  BY DEF From
<1>5. From(m, n) = <<>>
  <2>1. L(n) \in Seq(S) /\ Len(L(n)) = 0
    <3>1. n \in 0..n /\ n - n = 0
      BY <1>1
    <3> HIDE DEF L, n
    <3> QED BY <1>3, <3>1
  <2>2. L(n) = <<>>
    <3> HIDE DEF L, n
    <3> QED BY <2>1, EmptySeq
  <2> QED BY <1>4, <2>2
<1>6. From(m, 0) = m
  <2>1. L(0) \in Seq(S) /\ Len(L(0)) = n /\ \A j \in 1..n : L(0)[j] = m[j]
    <3>1. 0 \in 0..n /\ n - 0 = n /\ \A j \in 1..n : 0 + j = j
      BY <1>1
    <3> HIDE DEF L, n
    <3> QED BY <1>3, <3>1
  <2>2. L(0) = m
    <3> HIDE DEF L
    <3> QED BY <2>1, SeqEqual
  <2> QED BY <1>4, <2>2
<1>7. ASSUME NEW i \in 1..n
      PROVE  From(m, i - 1) = <<m[i]>> \o From(m, i)
  <2> DEFINE c == L(i - 1)
             one == <<m[i]>>
             t == L(i)
  <2>1. i - 1 \in 0..n /\ i \in 0..n /\ n - (i - 1) = 1 + (n - i)
    BY <1>1
  <2>2. c \in Seq(S) /\ Len(c) = 1 + (n - i) /\ \A j \in 1..(1 + (n - i)) : c[j] = m[(i - 1) + j]
    <3> HIDE DEF L, n
    <3> QED BY <1>3, <2>1
  <2>3. t \in Seq(S) /\ Len(t) = n - i /\ \A j \in 1..(n - i) : t[j] = m[i + j]
    <3> HIDE DEF L, n
    <3> QED BY <1>3, <2>1
  <2>4. one \in Seq(S) /\ Len(one) = 1 /\ one[1] = m[i]
    BY <1>2
  <2> HIDE DEF L, n, one, t, c
  <2>5. /\ one \o t \in Seq(S) /\ Len(one \o t) = Len(one) + Len(t)
        /\ \A j \in 1..(Len(one) + Len(t)) :
              (one \o t)[j] = IF j <= Len(one) THEN one[j] ELSE t[j - Len(one)]
    BY <2>3, <2>4, ConcatProperties
  <2>6. ASSUME NEW j \in 1..(1 + (n - i))
        PROVE  (one \o t)[j] = c[j]
    <3>1. (one \o t)[j] = IF j <= 1 THEN one[j] ELSE t[j - 1]
      BY <2>3, <2>4, <2>5
    <3>2. CASE j = 1
      <4>1. (i - 1) + 1 = i
        OBVIOUS
      <4>2. c[1] = m[i]
        BY <2>2, <3>2, <4>1
      <4> QED BY <2>4, <3>1, <3>2, <4>2
    <3>3. CASE j # 1
      <4>1. j - 1 \in 1..(n - i) /\ i + (j - 1) = (i - 1) + j /\ ~(j <= 1)
        BY <1>1, <3>3
      <4>2. t[j - 1] = m[(i - 1) + j]
        BY <2>3, <4>1
      <4> QED BY <2>2, <3>1, <4>1, <4>2
    <3> QED BY <3>2, <3>3
  <2>7. Len(one \o t) = 1 + (n - i)
    BY <2>3, <2>4, <2>5
  <2>8. one \o t = c
    <3> DEFINE d == one \o t
    <3>1. d \in Seq(S) /\ c \in Seq(S) /\ Len(d) = Len(c) /\ \A j \in 1..Len(d) : d[j] = c[j]
      BY <2>2, <2>5, <2>6, <2>7
    <3> HIDE DEF d
    <3>2. d = c
      BY <3>1, SeqEqual
    <3> QED BY <3>2 DEF d
  <2> QED BY <1>4, <2>8 DEF c, t, one
<1> QED
  BY <1>5, <1>6, <1>7

(* FudgeCodec_decodeMsgFields reads what FudgeCodec_encodeMsgFields wrote. *)
LEMMA MessageReadBack ==
    ASSUME NEW room \in Nat, room <= 128, NEW rank, Ranked(rank, room), NEW m \in Messages,
           MessageLength[m] \in I32,
           \A n \in Messages : rank[n] < rank[m] /\ MessageLength[n] \in I32
                                   => DecodeMsgFields[EncodeMsgFields[n]] = Ok(n)
    PROVE  DecodeMsgFields[EncodeMsgFields[m]] = Ok(m)
<1> DEFINE E == EncodeMsgFields
           D == DecodeMsgFields
           s == PartsOf(m, E)
           len == Len(m)
           FS == FieldsBelow(rank, m, room)
<1>0. room <= 256 /\ m \in Seq(FS) /\ len \in Nat
  BY DEF Ranked
<1>1. /\ \A n \in Messages : E[n] \in Seq(Byte)
      /\ E[m] = FlattenSeq(s)
  BY <1>0, BytesWritten
<1>2. /\ s \in Seq(Seq(Byte)) /\ Len(s) = len
      /\ \A i \in 1..len : s[i] = EncodeField(m[i], E)
  BY <1>0, <1>1, PartsWritten
<1>3. \A i \in 1..len : \A rest \in Seq(Byte) :
          /\ s[i] \in Seq(Byte) /\ Len(s[i]) > 0
          /\ DecodeField(s[i] \o rest, D) = [status |-> "OK", rest |-> rest, field |-> m[i]]
  <2> TAKE i \in 1..len
  <2> TAKE rest \in Seq(Byte)
  <2>1. LET b == EncodeField(m[i], EncodeMsgFields)
        IN  /\ b \in Seq(Byte) /\ Len(b) > 0
            /\ DecodeField(b \o rest, DecodeMsgFields)
                      = [status |-> "OK", rest |-> rest, field |-> m[i]]
    BY FieldOfMessage
  <2> QED BY <1>2, <2>1
<1> HIDE DEF E, D, s
<1>4. \E front, behind : Cut(Byte, s, front, behind)
  BY <1>2, Flattened
<1>5. PICK front, behind : Cut(Byte, s, front, behind)
  BY <1>4
<1>6. /\ \A i \in 0..len : front[i] \in Seq(Byte) /\ behind[i] \in Seq(Byte)
      /\ front[0] = <<>> /\ behind[len] = <<>>
      /\ \A i \in 1..len : behind[i - 1] = s[i] \o behind[i]
      /\ front[0] \o behind[0] = FlattenSeq(s)
  <2>1. /\ front \in [0..Len(s) -> Seq(Byte)] /\ behind \in [0..Len(s) -> Seq(Byte)]
        /\ front[0] = <<>> /\ behind[Len(s)] = <<>>
        /\ \A i \in 1..Len(s) : behind[i - 1] = s[i] \o behind[i]
        /\ \A i \in 0..Len(s) : front[i] \o behind[i] = FlattenSeq(s)
    BY <1>5, Zenon DEF Cut
  <2>2. Len(s) = len
    BY <1>2
  <2> HIDE DEF len
  <2>3. 0 \in 0..len
    BY <1>0
  <2>4. /\ front \in [0..len -> Seq(Byte)] /\ behind \in [0..len -> Seq(Byte)]
        /\ front[0] = <<>> /\ behind[len] = <<>>
        /\ \A i \in 1..len : behind[i - 1] = s[i] \o behind[i]
    BY <2>1, <2>2, Zenon
  <2>5. front[0] \o behind[0] = FlattenSeq(s)
    BY <2>1, <2>2, <2>3, Zenon
  <2>6. \A i \in 0..len : front[i] \in Seq(Byte) /\ behind[i] \in Seq(Byte)
    BY <2>4
  <2> QED BY <2>4, <2>5, <2>6, Zenon
<1> DEFINE T == {i \in 0..len : D[behind[i]] = Ok(From(m, i))}
<1>7. len \in T
  <2>1. <<>> \in Seq(Byte)
    BY EmptySeq
  <2>2. D[<<>>] = Ok(<<>>)
    <3>1. D[<<>>] = DecodeTurn(<<>>, D)
      BY <2>1, DecodedTurnByTurn DEF D
    <3>2. DecodeTurn(<<>>, D) = Ok(<<>>)
      BY Zenon DEF DecodeTurn
    <3> QED BY <3>1, <3>2
  <2>3. From(m, len) = <<>>
    BY <1>0, RestOfMessage
  <2> HIDE DEF len
  <2>4. D[behind[len]] = Ok(From(m, len)) /\ len \in 0..len
    BY <1>0, <1>6, <2>2, <2>3
  <2> QED BY <2>4
<1>8. \A i \in 1..len : i \in T => i - 1 \in T
  <2> SUFFICES ASSUME NEW i \in 1..len, i \in T
      PROVE  i - 1 \in T
    OBVIOUS
  <2>1. D[behind[i]] = Ok(From(m, i))
    OBVIOUS
  <2>2. i \in 0..len /\ i - 1 \in 0..len
    BY <1>0
  <2> DEFINE rest == behind[i]
             b == s[i] \o rest
             others == From(m, i)
             f == m[i]
             first == s[i]
  <2>3. rest \in Seq(Byte)
    BY <1>6, <2>2
  <2>4. first \in Seq(Byte) /\ Len(first) > 0
        /\ DecodeField(b, D) = [status |-> "OK", rest |-> rest, field |-> f]
    BY <1>3, <2>3
  <2>5. b \in Seq(Byte) /\ b # <<>>
    <3> HIDE DEF rest, first
    <3>1. first \o rest \in Seq(Byte) /\ Len(first \o rest) = Len(first) + Len(rest)
      BY <2>3, <2>4, ConcatProperties
    <3>2. Len(first) \in Nat /\ Len(rest) \in Nat
      BY <2>3, <2>4
    <3>3. Len(first \o rest) # 0
      BY <2>4, <3>1, <3>2
    <3>4. first \o rest # <<>>
      BY <3>3, EmptySeq
    <3> QED BY <3>1, <3>4 DEF first
  <2>6. D[rest] = Ok(others)
    BY <2>1
  <2>7. D[b] = Ok(<<f>> \o others)
    <3> HIDE DEF b, rest, f, others
    <3> QED BY <2>3, <2>4, <2>5, <2>6, FirstFieldRead DEF D
  <2>8. From(m, i - 1) = <<f>> \o others
    BY <1>0, RestOfMessage
  <2>9. behind[i - 1] = b
    BY <1>6
  <2>10. D[behind[i - 1]] = Ok(From(m, i - 1))
    <3> HIDE DEF b, f, others
    <3> QED BY <2>7, <2>8, <2>9
  <2> QED BY <2>2, <2>10
<1>9. 0 \in T
  <2> HIDE DEF T, len
  <2>1. 0..len \subseteq T
    BY <1>0, <1>7, <1>8, Downwards
  <2>2. 0 \in 0..len
    BY <1>0
  <2> QED BY <2>1, <2>2
<1>10. D[behind[0]] = Ok(From(m, 0)) /\ From(m, 0) = m
  BY <1>0, <1>9, RestOfMessage
<1>11. behind[0] = E[m]
  <2>1. 0 \in 0..len
    BY <1>0
  <2>2. behind[0] \in Seq(Byte)
    BY <1>6, <2>1
  <2>3. <<>> \o behind[0] = behind[0]
    BY <2>2, ConcatEmptySeq
  <2> QED BY <1>1, <1>6, <2>3
<1> QED
  BY <1>10, <1>11 DEF E, D

(* So it reads every message, by the rank of what it holds.                *)
LEMMA MessagesReadBack ==
    ASSUME NEW room \in Nat, room <= 128, NEW rank, Ranked(rank, room)
    PROVE  \A m \in Messages : MessageLength[m] \in I32
               => DecodeMsgFields[EncodeMsgFields[m]] = Ok(m)
<1> DEFINE S == Messages
           Bad == {m \in S : /\ MessageLength[m] \in I32
                            /\ DecodeMsgFields[EncodeMsgFields[m]] # Ok(m)}
<1>1. rank \in [S -> Nat] /\ Bad \in SUBSET S
  BY DEF Ranked
<1>2. Bad = {}
  <2> SUFFICES ASSUME Bad # {} PROVE FALSE
    OBVIOUS
  <2>1. PICK m \in Bad : \A n \in S : rank[n] < rank[m] => n \notin Bad
    <3> HIDE DEF Bad, S
    <3>1. \E m \in Bad : \A n \in S : rank[n] < rank[m] => n \notin Bad
      BY <1>1, FirstOfThem
    <3> QED BY <3>1
  <2>2. /\ m \in Messages /\ MessageLength[m] \in I32
        /\ DecodeMsgFields[EncodeMsgFields[m]] # Ok(m)
        /\ \A n \in Messages : rank[n] < rank[m] /\ MessageLength[n] \in I32
                                   => DecodeMsgFields[EncodeMsgFields[n]] = Ok(n)
    BY <2>1
  <2> HIDE DEF Bad, S
  <2> QED BY <2>2, MessageReadBack
<1> QED
  BY <1>2

-----------------------------------------------------------------------------
(* Envelopes.                                                              *)
HeadOf(e, length) ==
    (<<e.directives % 256, e.schemaversion % 256>> \o EncodeI16(e.taxonomy)) \o EncodeI32(length)

(* What an envelope says besides its message.                              *)
EnvelopeSet == [directives : -128..127, schemaversion : -128..127, taxonomy : I16]

(* What a decoder finds in bytes that begin with a header, when as many    *)
(* of them have arrived as the header takes, or more.                      *)
HeadRead(e, length, body, b) ==
    /\ b \in Seq(Byte) /\ Len(b) = 8 + Len(body) /\ From(b, 8) = body
    /\ SignedByte(b[1]) = e.directives /\ SignedByte(b[2]) = e.schemaversion
    /\ DecodeI16(SubSeq(b, 3, 4)) = e.taxonomy
    /\ length \in I32 => \A n \in 8..Len(b) : DecodeI32(SubSeq(SubSeq(b, 1, n), 5, 8)) = length

(* FudgeHeader_encodeMsgHeader, in front of whatever follows it.           *)
LEMMA HeadReadBack ==
    ASSUME NEW e \in EnvelopeSet, NEW length \in Int, NEW body \in Seq(Byte)
    PROVE  HeadRead(e, length, body, HeadOf(e, length) \o body)
<1> DEFINE two == <<e.directives % 256, e.schemaversion % 256>>
           tax == EncodeI16(e.taxonomy)
           num == EncodeI32(length)
           hd == HeadOf(e, length)
           b == hd \o body
<1>1. e.directives \in -128..127 /\ e.schemaversion \in -128..127
      /\ e.taxonomy \in I16 /\ e.taxonomy \in Int
  BY DEF EnvelopeSet, I16, Between
<1>2. /\ two \in Seq(Byte) /\ Len(two) = 2
      /\ SignedByte(two[1]) = e.directives /\ SignedByte(two[2]) = e.schemaversion
  <2>1. \A x \in -128..127 : x % 256 \in Byte /\ SignedByte(x % 256) = x
    <3>1. \A x \in Int : x % 256 \in 0..255
      BY SMT
    <3>2. \A x \in -128..127 : SignedByte(x % 256) = x
      BY SMT DEF SignedByte
    <3>3. \A y \in 0..255 : y \in Byte
      BY DEF Byte
    <3> TAKE x \in -128..127
    <3>4. x \in Int
      OBVIOUS
    <3>5. x % 256 \in 0..255
      BY <3>1, <3>4, Zenon
    <3>6. x % 256 \in Byte
      BY <3>3, <3>5
    <3>7. SignedByte(x % 256) = x
      BY SMT DEF SignedByte
    <3> QED BY <3>6, <3>7
  <2>2. \A x, y \in Byte : <<x, y>> \in Seq(Byte) /\ Len(<<x, y>>) = 2
    OBVIOUS
  <2>3. two[1] = e.directives % 256 /\ two[2] = e.schemaversion % 256
    OBVIOUS
  <2> QED BY <1>1, <2>1, <2>2, <2>3, ZenonT(40)
<1>3. tax \in Seq(Byte) /\ Len(tax) = 2 /\ num \in Seq(Byte) /\ Len(num) = 4
  BY <1>1, EncodedBytes
<1>4. /\ DecodeI16(tax) = e.taxonomy
      /\ length \in I32 => DecodeI32(num) = length
  <2>1. <<>> \in Seq(Byte) /\ tax \o <<>> = tax /\ num \o <<>> = num
    <3> HIDE DEF tax, num
    <3> QED BY <1>3, ConcatEmptySeq, EmptySeq
  <2>2. \A v \in I16 : DecodeI16(EncodeI16(v) \o <<>>) = v
    BY <2>1, ReadFirst
  <2>3. \A v \in I32 : DecodeI32(EncodeI32(v) \o <<>>) = v
    BY <2>1, ReadFirst
  <2> QED BY <1>1, <2>1, <2>2, <2>3
<1>5. hd = (two \o tax) \o num
  BY DEF HeadOf
<1> HIDE DEF two, tax, num, hd
<1>6. /\ hd \in Seq(Byte) /\ Len(hd) = 8
      /\ hd[1] = two[1] /\ hd[2] = two[2] /\ hd[3] = tax[1] /\ hd[4] = tax[2]
      /\ SubSeq(hd, 5, 8) = num
  <2>1. LET c == (two \o tax) \o num
        IN  /\ c \in Seq(Byte) /\ Len(c) = Len(two) + Len(tax) + Len(num)
            /\ \A i \in 1..Len(two) : c[i] = two[i]
            /\ \A i \in 1..Len(tax) : c[Len(two) + i] = tax[i]
            /\ SubSeq(c, Len(two) + 1, Len(two) + Len(tax)) = tax
    <3>1. \A r, t, u \in Seq(Byte) :
             LET c == (r \o t) \o u
             IN  /\ c \in Seq(Byte) /\ Len(c) = Len(r) + Len(t) + Len(u)
                 /\ \A i \in 1..Len(r) : c[i] = r[i]
                 /\ \A i \in 1..Len(t) : c[Len(r) + i] = t[i]
                 /\ SubSeq(c, Len(r) + 1, Len(r) + Len(t)) = t
      <4> TAKE r \in Seq(Byte)
      <4> TAKE t \in Seq(Byte)
      <4> TAKE u \in Seq(Byte)
      <4> QED BY Middle
    <3>2. two \in Seq(Byte) /\ tax \in Seq(Byte) /\ num \in Seq(Byte)
      BY <1>2, <1>3
    <3> QED BY <3>1, <3>2, Zenon
  <2>2. /\ hd \in Seq(Byte) /\ Len(hd) = 8
        /\ \A i \in 1..2 : hd[i] = two[i]
        /\ \A i \in 1..2 : hd[2 + i] = tax[i]
    <3>1. /\ hd \in Seq(Byte) /\ Len(hd) = Len(two) + Len(tax) + Len(num)
          /\ \A i \in 1..Len(two) : hd[i] = two[i]
          /\ \A i \in 1..Len(tax) : hd[Len(two) + i] = tax[i]
      BY <1>5, <2>1, Zenon
    <3>2. Len(two) = 2 /\ Len(tax) = 2 /\ Len(num) = 4
      BY <1>2, <1>3
    <3> QED BY <3>1, <3>2
  <2>3. hd[1] = two[1] /\ hd[2] = two[2] /\ hd[2 + 1] = tax[1] /\ hd[2 + 2] = tax[2]
    BY <2>2
  <2>4. From(hd, 4) = num
    <3> DEFINE front == two \o tax
    <3>1. front \in Seq(Byte) /\ Len(front) = 4
      <4>1. two \o tax \in Seq(Byte) /\ Len(two \o tax) = Len(two) + Len(tax)
        BY <1>2, <1>3, ConcatProperties
      <4> QED BY <1>2, <1>3, <4>1
    <3>2. hd = front \o num
      BY <1>5
    <3> HIDE DEF front
    <3>3. From(front \o num, Len(front)) = num
      BY <1>3, <3>1, TakenApart
    <3> QED BY <3>1, <3>2, <3>3
  <2>5. SubSeq(hd, 5, 8) = num
    BY <2>2, <2>4 DEF From
  <2> QED BY <2>2, <2>3, <2>5
<1>7. /\ b \in Seq(Byte) /\ Len(b) = 8 + Len(body)
      /\ From(b, 8) = body
      /\ \A i \in 1..8 : b[i] = hd[i]
  <2>1. b \in Seq(Byte) /\ Len(b) = Len(hd) + Len(body)
    BY <1>6, ConcatProperties
  <2>2. From(hd \o body, Len(hd)) = body
    BY <1>6, TakenApart
  <2>3. \A i \in 1..Len(hd) : (hd \o body)[i] = hd[i]
    BY <1>6, FirstOnes
  <2> QED BY <1>6, <2>1, <2>2, <2>3
<1> HIDE DEF b
<1>8. SignedByte(b[1]) = e.directives /\ SignedByte(b[2]) = e.schemaversion
  <2>1. b[1] = hd[1] /\ b[2] = hd[2]
    BY <1>7
  <2> QED BY <1>2, <1>6, <2>1
<1>9. Len(body) \in Nat
  OBVIOUS
<1>10. DecodeI16(SubSeq(b, 3, 4)) = e.taxonomy
  <2> DEFINE d == SubSeq(b, 3, 4)
  <2>1. \A j \in 3..4 : b[j] \in Byte
    <3>1. \A j \in 3..4 : j \in 1..Len(b)
      BY <1>7, <1>9
    <3> QED BY <1>7, <3>1, ElementOfSeq
  <2>2. \A i \in 1..(4 - 3 + 1) : d[i] = b[3 + i - 1]
    <3>1. 3 \in Int /\ 4 \in Int
      OBVIOUS
    <3> QED BY <2>1, <3>1, SubSeqProperties
  <2> HIDE DEF d
  <2>3. d[1] = b[3] /\ d[2] = b[4]
    BY <2>2
  <2>4. b[3] = tax[1] /\ b[4] = tax[2]
    BY <1>6, <1>7
  <2>5. DecodeI16(d) = DecodeI16(tax)
    BY <2>3, <2>4 DEF DecodeI16
  <2> QED BY <1>4, <2>5 DEF d
<1>11. ASSUME length \in I32, NEW n \in 8..Len(b)
       PROVE  DecodeI32(SubSeq(SubSeq(b, 1, n), 5, 8)) = length
  <2> DEFINE p == SubSeq(b, 1, n)
             d == SubSeq(p, 5, 8)
  <2>1. \A j \in 1..n : b[j] \in Byte
    <3>1. \A j \in 1..n : j \in 1..Len(b)
      BY <1>7, <1>9
    <3> QED BY <1>7, <3>1, ElementOfSeq
  <2>2. /\ p \in Seq(Byte) /\ Len(p) = n
        /\ \A i \in 1..n : p[i] = b[i]
    <3>1. 1 \in Int /\ n \in Int
      BY <1>7, <1>9
    <3>2. /\ p \in Seq(Byte) /\ Len(p) = IF 1 <= n THEN n - 1 + 1 ELSE 0
          /\ \A i \in 1..(n - 1 + 1) : p[i] = b[1 + i - 1]
      BY <2>1, <3>1, SubSeqProperties
    <3>3. (IF 1 <= n THEN n - 1 + 1 ELSE 0) = n /\ n - 1 + 1 = n
      BY <1>7, <1>9
    <3>4. \A i \in 1..n : 1 + i - 1 = i
      OBVIOUS
    <3> HIDE DEF p
    <3> QED BY <3>2, <3>3, <3>4
  <2> HIDE DEF p
  <2>3. \A i \in 1..(8 - 5 + 1) : d[i] = p[5 + i - 1]
    <3>1. \A j \in 5..8 : p[j] \in Byte
      <4>1. \A j \in 5..8 : j \in 1..Len(p)
        BY <1>7, <1>9, <2>2
      <4> QED BY <2>2, <4>1, ElementOfSeq
    <3>2. 5 \in Int /\ 8 \in Int
      OBVIOUS
    <3> QED BY <3>1, <3>2, SubSeqProperties
  <2> HIDE DEF d
  <2>4. d[1] = p[5] /\ d[2] = p[6] /\ d[3] = p[7] /\ d[4] = p[8]
    BY <2>3
  <2>5. \A i \in 1..8 : p[i] = hd[i]
    <3>1. \A i \in 1..8 : i \in 1..n
      BY <1>7, <1>9
    <3> QED BY <1>7, <2>2, <3>1
  <2>6. num[1] = hd[5] /\ num[2] = hd[6] /\ num[3] = hd[7] /\ num[4] = hd[8]
    <3> DEFINE q == SubSeq(hd, 5, 8)
    <3>1. \A i \in 1..(8 - 5 + 1) : q[i] = hd[5 + i - 1]
      <4>1. \A j \in 5..8 : hd[j] \in Byte
        <5>1. \A j \in 5..8 : j \in 1..Len(hd)
          BY <1>6
        <5> QED BY <1>6, <5>1, ElementOfSeq
      <4>2. 5 \in Int /\ 8 \in Int
        OBVIOUS
      <4> QED BY <4>1, <4>2, SubSeqProperties
    <3> HIDE DEF q
    <3>2. q[1] = hd[5] /\ q[2] = hd[6] /\ q[3] = hd[7] /\ q[4] = hd[8]
      BY <3>1
    <3>3. q = num
      BY <1>6 DEF q
    <3> QED BY <3>2, <3>3
  <2>7. d[1] = num[1] /\ d[2] = num[2] /\ d[3] = num[3] /\ d[4] = num[4]
    BY <2>4, <2>5, <2>6
  <2>8. DecodeI32(d) = DecodeI32(num)
    BY <2>7, SMT DEF DecodeI32
  <2> QED BY <1>4, <1>11, <2>8 DEF d, p
<1> QED
  <2>1. HeadRead(e, length, body, b)
    BY <1>6, <1>7, <1>8, <1>10, <1>11 DEF HeadRead
  <2> QED BY <2>1 DEF b, hd

-----------------------------------------------------------------------------
(* What is written and read of the message a client has put together.      *)

(* There is room for its length in four bytes.                             *)
LengthFits == EnvelopeBytes + MessageLength[message] \in I32

(* A name has at most 255 bytes: FudgeMsg_addField refuses a longer one.   *)
LEMMA NamesAllowed == NamesShorter(256)
  BY WireFormatAssumption DEF NamesShorter

(* The message a client puts together is one of those there are to encode. *)
LEMMA MessageIsOne ==
    ASSUME NEW room, NestOK(room)
    PROVE  message \in Messages
<1> DEFINE nest == Append(inner, message)
           S == ToSet(nest)
           U == ToSet(inner) \cup {message}
           n == Len(inner) + 1
<1>1. nest \in Seq(S) /\ inner \in Seq(U) /\ message \in U
  BY DEF NestOK, Nested
<1>2. Len(nest) = n /\ nest[n] = message /\ n \in 1..n
  <2> HIDE DEF U
  <2> QED BY <1>1, AppendProperties
<1>3. S = {nest[i] : i \in 1..Len(nest)}
  BY <1>1, OwnElements
<1> QED
  BY <1>2, <1>3 DEF Messages

(* What FudgeCodec_encodeMsg writes is the header with the length that was *)
(* measured and, behind it, so many bytes.                                 *)
LEMMA EncodedMessage ==
    ASSUME NestOK(256), envelope \in Envelopes
    PROVE  LET length == EnvelopeBytes + MessageLength[message]
           IN  /\ MessageLength[message] \in Nat /\ length \in Nat
               /\ EncodeMsgFields[message] \in Seq(Byte)
               /\ Len(EncodeMsgFields[message]) = MessageLength[message]
               /\ envelope \in EnvelopeSet
               /\ EncodeMsg(envelope, message)
                      = HeadOf(envelope, length) \o EncodeMsgFields[message]
<1>1. PICK rank : Ranked(rank, 256)
  BY RankThem
<1>2. message \in Messages /\ 256 \in Nat /\ 256 <= 256
  BY MessageIsOne
<1>3. MessageLength[message] \in Nat
  BY <1>1, <1>2, MessageLengths
<1>4. EncodeMsgFields[message] \in Seq(Byte)
  BY <1>1, <1>2, BytesWritten
<1>5. Len(EncodeMsgFields[message]) = MessageLength[message]
  BY <1>1, <1>2, LengthsWritten
<1>6. envelope \in EnvelopeSet
  BY WireFormatAssumption DEF EnvelopeSet
<1>7. EnvelopeBytes + MessageLength[message] \in Nat
  BY <1>3 DEF EnvelopeBytes
<1>8. EncodeMsg(envelope, message)
          = HeadOf(envelope, EnvelopeBytes + MessageLength[message]) \o EncodeMsgFields[message]
  BY DEF EncodeMsg, HeadOf
<1> QED
  BY <1>3, <1>4, <1>5, <1>6, <1>7, <1>8

(* Whatever the client has put together: the properties of what is         *)
(* written, and of its beginnings.                                         *)
LEMMA EncodedFits ==
    ASSUME NestOK(256), envelope \in Envelopes
    PROVE  /\ EncodeMsg(envelope, message) \in Seq(Byte)
           /\ MeasuredLengthExact
           /\ LengthFits => TruncationDetected
<1> DEFINE length == EnvelopeBytes + MessageLength[message]
           body == EncodeMsgFields[message]
           b == EncodeMsg(envelope, message)
<1>1. /\ MessageLength[message] \in Nat /\ length \in Nat /\ body \in Seq(Byte)
      /\ Len(body) = MessageLength[message] /\ envelope \in EnvelopeSet
      /\ b = HeadOf(envelope, length) \o body
  BY EncodedMessage
<1> HIDE DEF body, b
<1>2. length \in Int
  BY <1>1
<1> HIDE DEF length
<1>3. /\ b \in Seq(Byte) /\ Len(b) = 8 + Len(body)
      /\ length \in I32 => \A n \in 8..Len(b) : DecodeI32(SubSeq(SubSeq(b, 1, n), 5, 8)) = length
  <2>1. HeadRead(envelope, length, body, HeadOf(envelope, length) \o body)
    BY <1>1, <1>2, HeadReadBack
  <2> QED BY <1>1, <2>1 DEF HeadRead
<1>4. MeasuredLengthExact
  BY <1>1, <1>3 DEF MeasuredLengthExact, EnvelopeBytes, b
<1>5. ASSUME LengthFits, NEW n \in 0..(Len(b) - 1)
      PROVE  DecodeMsg(SubSeq(b, 1, n)) = OutOfBytes
  <2> DEFINE p == SubSeq(b, 1, n)
  <2>0. Len(b) \in Nat /\ Len(body) \in Nat /\ n \in Nat /\ n <= Len(b) /\ n < Len(b)
    <3>1. Len(b) \in Nat /\ Len(body) \in Nat
      BY <1>1, <1>3
    <3> QED BY <3>1
  <2>1. Len(p) = n
    <3> HIDE DEF p
    <3> QED BY <1>3, <2>0, Rest DEF p
  <2>2. CASE n < 8
    <3> HIDE DEF p
    <3> QED BY <2>1, <2>2 DEF DecodeMsg, EnvelopeBytes
  <2>3. CASE ~(n < 8)
    <3>1. n \in 8..Len(b) /\ length \in I32
      BY <1>5, <2>0, <2>3 DEF LengthFits, length
    <3>2. DecodeI32(SubSeq(p, 5, 8)) = length
      BY <1>3, <3>1
    <3>3. length = Len(b)
      BY <1>1, <1>3 DEF length, EnvelopeBytes
    <3> HIDE DEF p
    <3>4. ~(Len(p) < EnvelopeBytes) /\ Len(p) < DecodeI32(SubSeq(p, 5, 8))
      BY <2>0, <2>1, <2>3, <3>2, <3>3 DEF EnvelopeBytes
    <3>5. DecodeMsg(p) = IF Len(p) < EnvelopeBytes THEN OutOfBytes
                         ELSE IF Len(p) < DecodeI32(SubSeq(p, 5, 8)) THEN OutOfBytes
                         ELSE DecodeFrom(p)
      BY Zenon DEF DecodeMsg
    <3>6. DecodeMsg(p) = OutOfBytes
      BY <3>4, <3>5, Zenon
    <3> QED BY <3>6 DEF p
  <2> QED BY <2>2, <2>3
<1>6. LengthFits => TruncationDetected
  BY <1>5 DEF TruncationDetected, b
<1> QED
  BY <1>3, <1>4, <1>6 DEF b

(* And of what is read, if names are short enough to be read at all.       *)
LEMMA EncodedReadBack ==
    ASSUME NestOK(256), NestOK(128), envelope \in Envelopes, LengthFits
    PROVE  RoundTrip
<1> DEFINE length == EnvelopeBytes + MessageLength[message]
           body == EncodeMsgFields[message]
           b == EncodeMsg(envelope, message)
<1>1. /\ MessageLength[message] \in Nat /\ length \in Nat /\ body \in Seq(Byte)
      /\ Len(body) = MessageLength[message] /\ envelope \in EnvelopeSet
      /\ b = HeadOf(envelope, length) \o body
  BY EncodedMessage
<1>2. DecodeMsgFields[body] = Ok(message)
  <2>1. PICK rank : Ranked(rank, 128)
    BY RankThem
  <2>2. message \in Messages /\ 128 \in Nat /\ 128 <= 128
    BY MessageIsOne
  <2>3. MessageLength[message] \in I32
    <3>1. \A x \in Nat : 8 + x \in I32 => x \in I32
      BY SMT DEF I32, Between
    <3> QED BY <1>1, <3>1 DEF LengthFits, EnvelopeBytes
  <2> QED BY <2>1, <2>2, <2>3, MessagesReadBack
<1>3. length \in I32 /\ length \in Int
  BY <1>1 DEF LengthFits
<1> HIDE DEF body, b, length
<1>4. /\ b \in Seq(Byte) /\ Len(b) = 8 + Len(body) /\ From(b, 8) = body
      /\ SignedByte(b[1]) = envelope.directives /\ SignedByte(b[2]) = envelope.schemaversion
      /\ DecodeI16(SubSeq(b, 3, 4)) = envelope.taxonomy
      /\ \A n \in 8..Len(b) : DecodeI32(SubSeq(SubSeq(b, 1, n), 5, 8)) = length
  <2>1. HeadRead(envelope, length, body, HeadOf(envelope, length) \o body)
    BY <1>1, <1>3, HeadReadBack
  <2> QED BY <1>1, <1>3, <2>1 DEF HeadRead
<1>5. Len(b) \in Nat /\ Len(body) \in Nat /\ Len(b) >= 8 /\ Len(b) \in 8..Len(b)
  <2>1. Len(b) \in Nat /\ Len(body) \in Nat
    BY <1>1, <1>4
  <2> QED BY <1>4, <2>1
<1>6. SubSeq(b, 1, Len(b)) = b
  <2>1. /\ SubSeq(b \o <<>>, 1, Len(b)) = b
    BY <1>4, TakenApart, EmptySeq
  <2>2. b \o <<>> = b
    BY <1>4, ConcatEmptySeq
  <2> QED BY <2>1, <2>2
<1>7. DecodeI32(SubSeq(b, 5, 8)) = length
  <2>1. DecodeI32(SubSeq(SubSeq(b, 1, Len(b)), 5, 8)) = length
    BY <1>4, <1>5
  <2> QED BY <1>6, <2>1
<1>8. length = Len(b)
  BY <1>1, <1>4 DEF length, EnvelopeBytes
<1>9. DecodeMsg(b) = DecodeFrom(b)
  <2>1. ~(Len(b) < EnvelopeBytes) /\ ~(Len(b) < DecodeI32(SubSeq(b, 5, 8)))
    BY <1>5, <1>7, <1>8 DEF EnvelopeBytes
  <2> QED BY <2>1, Zenon DEF DecodeMsg
<1>10. DecodeFrom(b) = [status |-> "OK", message |-> message,
              envelope |-> [directives |-> envelope.directives,
                            schemaversion |-> envelope.schemaversion,
                            taxonomy |-> envelope.taxonomy]]
  <2> DEFINE fields == DecodeMsgFields[From(b, EnvelopeBytes)]
  <2>1. fields.status = "OK" /\ fields.value = message
    BY <1>2, <1>4 DEF Ok, EnvelopeBytes
  <2>2. DecodeFrom(b) = IF fields.status # "OK" THEN fields
        ELSE [status |-> "OK", message |-> fields.value,
              envelope |-> [directives |-> SignedByte(b[1]), schemaversion |-> SignedByte(b[2]),
                            taxonomy |-> DecodeI16(SubSeq(b, 3, 4))]]
    BY Zenon DEF DecodeFrom
  <2> HIDE DEF fields
  <2> QED BY <1>4, <2>1, <2>2
<1>11. envelope = [directives |-> envelope.directives, schemaversion |-> envelope.schemaversion,
                   taxonomy |-> envelope.taxonomy]
  BY <1>1 DEF EnvelopeSet
<1> QED
  BY <1>9, <1>10, <1>11 DEF RoundTrip, b

-----------------------------------------------------------------------------
(* The theorems.                                                           *)

(* The inductive invariant: the envelope is one of those given, messages   *)
(* are no deeper than the bound, and what they hold was there before them. *)
(* The names are shorter than 256, or than 128 bytes if those the client   *)
(* gives are.                                                              *)
WireIInv ==
    /\ envelope \in Envelopes
    /\ Len(inner) \in 0..MaxDepth
    /\ NestOK(256)
    /\ NamesShorter(128) => NestOK(128)

(* The messages a client has put together stay so, whatever it does next.  *)
LEMMA WireStep ==
    ASSUME WireIInv, [WireNext]_wireVars \/ [ValuesNext]_valueVars
    PROVE  WireIInv'
<1>1. NestOK(256) /\ envelope \in Envelopes /\ Len(inner) \in 0..MaxDepth
  BY DEF WireIInv
<1>2. NestOK(256)'
  <2>1. 256 \in Nat
    OBVIOUS
  <2> QED BY <1>1, <2>1, NamesAllowed, NestKept, NestKeptByValues
<1>3. (NamesShorter(128) => NestOK(128))'
  <2>1. ASSUME NamesShorter(128) PROVE NestOK(128)'
    <3>1. NestOK(128) /\ 128 \in Nat
      BY <2>1 DEF WireIInv
    <3> QED BY <2>1, <3>1, NestKept, NestKeptByValues
  <2>2. NamesShorter(128)' <=> NamesShorter(128)
    BY DEF NamesShorter
  <2> QED BY <2>1, <2>2
<1>4. ASSUME envelope' = envelope,
             inner' = inner \/ (Len(inner) < MaxDepth /\ inner' = Append(inner, message))
      PROVE  WireIInv'
  <2>1. Len(inner') \in 0..MaxDepth
    <3>1. CASE inner' = inner
      BY <1>1, <3>1
    <3>2. CASE Len(inner) < MaxDepth /\ inner' = Append(inner, message)
      <4> DEFINE U == ToSet(inner) \cup {message}
      <4>1. inner \in Seq(U) /\ message \in U
        BY <1>1 DEF NestOK
      <4> HIDE DEF U
      <4>2. Len(Append(inner, message)) = Len(inner) + 1
        BY <4>1, AppendProperties
      <4> QED BY <1>1, <3>2, <4>2, WireFormatAssumption
    <3> QED BY <1>4, <3>1, <3>2
  <2> QED BY <1>1, <1>2, <1>3, <1>4, <2>1 DEF WireIInv
<1>5. CASE WireNext
  <2>1. envelope' = envelope
    BY <1>5 DEF WireNext, AddField, AddInteger, AddMessage, Add, Enclose
  <2>2. inner' = inner \/ (Len(inner) < MaxDepth /\ inner' = Append(inner, message))
    BY <1>5 DEF WireNext, AddField, AddInteger, AddMessage, Add, Enclose
  <2> QED BY <1>4, <2>1, <2>2
<1>6. CASE ~WireNext
  <2>1. envelope' = envelope /\ inner' = inner
    BY <1>6 DEF ValuesNext, MakeValue, Send, AddField, Add, wireVars, valueVars
  <2> QED BY <1>4, <2>1
<1> QED
  BY <1>5, <1>6

(* The invariant holds in every behaviour of the client of WireFormat, and *)
(* of that of Values, which adds what it has made.                         *)
THEOREM WireInductive ==
    /\ WireSpec => []WireIInv
    /\ ValuesSpec => []WireIInv
<1>1. WireInit => WireIInv
  <2> SUFFICES ASSUME WireInit PROVE WireIInv
    OBVIOUS
  <2>1. NestOK(256) /\ NestOK(128)
    BY NestInit
  <2>2. envelope \in Envelopes /\ Len(inner) = 0
    BY DEF WireInit
  <2> QED BY <2>1, <2>2, WireFormatAssumption DEF WireIInv
<1>2. WireIInv /\ [WireNext]_wireVars => WireIInv'
  BY WireStep
<1>3. WireIInv /\ [ValuesNext]_valueVars => WireIInv'
  BY WireStep
<1>4. WireSpec => []WireIInv
  BY <1>1, <1>2, PTL DEF WireSpec
<1>5. ValuesSpec => []WireIInv
  BY <1>1, <1>3, PTL DEF ValuesSpec, ValuesInit
<1> QED
  BY <1>4, <1>5

(* What is written are bytes, whatever the values and their signs.         *)
THEOREM WireTypes == WireSpec \/ ValuesSpec => []WireTypeOK
<1>1. WireIInv => WireTypeOK
  BY EncodedFits DEF WireIInv, WireTypeOK
<1> QED
  BY <1>1, WireInductive, PTL

(* The length FudgeCodec_getMessageLength measures for a message of any    *)
(* depth and any types of field is the number of bytes the encoders write. *)
THEOREM LengthExact == WireSpec \/ ValuesSpec => []MeasuredLengthExact
<1>1. WireIInv => MeasuredLengthExact
  BY EncodedFits DEF WireIInv
<1> QED
  BY <1>1, WireInductive, PTL

(* As long as a byte of a message is missing, FudgeCodec_decodeMsg answers *)
(* FUDGE_OUT_OF_BYTES and no part of it is taken for the whole; provided   *)
(* that the length fits into the 32 bits it is announced in.               *)
THEOREM NoPartTaken == WireSpec \/ ValuesSpec => [](LengthFits => TruncationDetected)
<1>1. WireIInv => (LengthFits => TruncationDetected)
  BY EncodedFits DEF WireIInv
<1> QED
  BY <1>1, WireInductive, PTL

(* What is encoded is decoded to the same message: its fields in order,    *)
(* each with its type, name, ordinal and data, submessages included, and   *)
(* the envelope; if the length fits into 32 bits, and no name has 128      *)
(* bytes or more. With longer names it does not hold (the run              *)
(* wire_long_names).                                                       *)
THEOREM SentAndReceived ==
    ASSUME NamesShorter(128)
    PROVE  WireSpec \/ ValuesSpec => [](LengthFits => RoundTrip)
<1>1. WireIInv => (LengthFits => RoundTrip)
  BY EncodedReadBack DEF WireIInv
<1> QED
  BY <1>1, WireInductive, PTL

-----------------------------------------------------------------------------
(* What a client has made, and from what.                                  *)
MadeOK ==
    /\ made.kind = "datetime" =>
          /\ made.from \in DateTimeInputs /\ made.precision \in Precisions
          /\ made.result = AtPrecision(made.from, made.precision, made.zone)
    /\ made.kind = "moments" => made.left \in Moments /\ made.right \in Moments
    /\ made.kind = "pair" => made.left \in Chunks /\ made.right \in Chunks
    /\ made.kind = "text" => made.from \in Texts /\ made.result = CreateFromUTF32(made.from)
    /\ made.kind = "bytes" => made.from \in Bytestrings /\ made.result = CreateFromUTF8(made.from)

(* It makes one thing, and keeps it.                                       *)
LEMMA MadeOnce ==
    /\ ValuesInit => MadeOK
    /\ MadeOK /\ [ValuesNext]_valueVars => MadeOK'
<1>1. ValuesInit => MadeOK
  BY DEF ValuesInit, Nothing, MadeOK
<1>2. ASSUME MadeOK, made' = made
      PROVE  MadeOK'
  BY <1>2 DEF MadeOK, AtPrecision
<1>3. ASSUME MakeValue
      PROVE  MadeOK'
  <2>1. ASSUME NEW text \in Texts, MakeText(text)
        PROVE  MadeOK'
    <3> DEFINE result == CreateFromUTF32(text)
    <3>1. made' = [kind |-> "text", from |-> text, result |-> result]
      BY <2>1 DEF MakeText
    <3> HIDE DEF result
    <3>2. made'.kind = "text" /\ made'.from = text /\ made'.result = result
      BY <3>1
    <3> QED
      BY <3>2 DEF MadeOK, result
  <2>2. ASSUME NEW bytes \in Bytestrings, MakeBytes(bytes)
        PROVE  MadeOK'
    <3> DEFINE result == CreateFromUTF8(bytes)
    <3>1. made' = [kind |-> "bytes", from |-> bytes, result |-> result]
      BY <2>2 DEF MakeBytes
    <3> HIDE DEF result
    <3>2. made'.kind = "bytes" /\ made'.from = bytes /\ made'.result = result
      BY <3>1
    <3> QED
      BY <3>2 DEF MadeOK, result
  <2>3. ASSUME NEW left \in Chunks, NEW right \in Chunks, MakePair(left, right)
        PROVE  MadeOK'
    BY <2>3 DEF MakePair, MadeOK
  <2>4. ASSUME NEW i \in DateTimeInputs, NEW p \in Precisions, NEW zone \in Zones,
               MakeDateTime(i, p, zone)
        PROVE  MadeOK'
    <3> DEFINE result == AtPrecision(i, p, zone)
    <3>1. made' = [kind |-> "datetime", from |-> i, precision |-> p, zone |-> zone,
                   result |-> result]
      BY <2>4 DEF MakeDateTime
    <3> HIDE DEF result
    <3>2. /\ made'.kind = "datetime" /\ made'.from = i /\ made'.precision = p
          /\ made'.zone = zone /\ made'.result = result
      BY <3>1
    <3> QED
      BY <3>2 DEF MadeOK, result, AtPrecision
  <2>5. ASSUME NEW left \in Moments, NEW right \in Moments, MakeMoments(left, right)
        PROVE  MadeOK'
    BY <2>5 DEF MakeMoments, MadeOK
  <2> QED
    BY <1>3, <2>1, <2>2, <2>3, <2>4, <2>5 DEF MakeValue
<1>4. ASSUME MadeOK, [ValuesNext]_valueVars
      PROVE  MadeOK'
  <2>1. CASE MakeValue
    BY <1>3, <2>1
  <2>2. CASE ~MakeValue
    <3>1. made' = made
      BY <1>4, <2>2 DEF ValuesNext, Send, valueVars
    <3> QED BY <1>4, <1>2, <3>1
  <2> QED BY <2>1, <2>2
<1> QED
  BY <1>1, <1>4

(* FudgeDate_compare is the comparison of year, month and day taken as one *)
(* number.                                                                 *)
LEMMA OrderOfDates ==
    ASSUME NEW l \in Dates, NEW r \in Dates
    PROVE  DateCompare({l}, {r}) = Sign(l.year * 512 + l.month * 32 + l.day,
                                        r.year * 512 + r.month * 32 + r.day)
<1>1. The({l}) = l /\ The({r}) = r
  BY DEF The
<1>2. DateCompare({l}, {r})
          = FirstOf(Sign(l.year, r.year), FirstOf(Sign(l.month, r.month), Sign(l.day, r.day)))
  BY <1>1, Zenon DEF DateCompare, NullsFirst
<1>3. /\ l.year \in Int /\ l.month \in 0..12 /\ l.day \in 0..31
      /\ r.year \in Int /\ r.month \in 0..12 /\ r.day \in 0..31
  BY DEF Dates, Between
<1>4. FirstOf(Sign(l.year, r.year), FirstOf(Sign(l.month, r.month), Sign(l.day, r.day)))
          = Sign(l.year * 512 + l.month * 32 + l.day, r.year * 512 + r.month * 32 + r.day)
  <2> DEFINE a == l.month * 32 + l.day
             b == r.month * 32 + r.day
  <2>1. a \in 0..511 /\ b \in 0..511
    BY <1>3, SMT
  <2>2. FirstOf(Sign(l.month, r.month), Sign(l.day, r.day)) = Sign(a, b)
    <3> DEFINE m == l.month
               n == r.month
               d == l.day
               e == r.day
    <3>1. m \in Int /\ n \in Int /\ d \in 0..31 /\ e \in 0..31
      BY <1>3, SMT
    <3> HIDE DEF m, n, d, e
    <3>2. FirstOf(Sign(m, n), Sign(d, e)) = Sign(m * 32 + d, n * 32 + e)
      BY <3>1, SMT DEF FirstOf, Sign
    <3> QED BY <3>2 DEF m, n, d, e
  <2> DEFINE low == 0..511
             months == 512
  <2>5. a \in low /\ b \in low
    BY <2>1
  <2>3. /\ l.year * 512 + l.month * 32 + l.day = l.year * months + a
        /\ r.year * 512 + r.month * 32 + r.day = r.year * months + b
    BY <1>3, SMT
  <2> DEFINE y == l.year
             z == r.year
  <2>6. y \in Int /\ z \in Int
    BY <1>3
  <2> HIDE DEF a, b, y, z
  <2>7. FirstOf(Sign(y, z), Sign(a, b)) = Sign(y * months + a, z * months + b)
    BY <2>5, <2>6, SMT DEF FirstOf, Sign
  <2>8. /\ FirstOf(Sign(l.year, r.year), FirstOf(Sign(l.month, r.month), Sign(l.day, r.day)))
               = FirstOf(Sign(y, z), Sign(a, b))
        /\ Sign(l.year * 512 + l.month * 32 + l.day, r.year * 512 + r.month * 32 + r.day)
               = Sign(y * months + a, z * months + b)
    BY <2>2, <2>3 DEF y, z
  <2> QED BY <2>7, <2>8
<1> QED
  BY <1>2, <1>4

(* Both comparisons, of what a client has made.                            *)
LEMMA OrderOfMoments == MadeOK => TimesOrdered
<1> SUFFICES ASSUME MadeOK, made.kind = "moments"
    PROVE  LET l == made.left
               r == made.right
           IN  /\ WithOffset(l.time) >= -86400 /\ WithOffset(r.time) >= -86400 =>
                     TimeCompare({l.time}, {r.time}) =
                         FirstOf(Sign(WithOffset(l.time), WithOffset(r.time)),
                                 Sign(l.time.nanoseconds, r.time.nanoseconds))
               /\ DateCompare({l.date}, {r.date}) =
                      Sign(l.date.year * 512 + l.date.month * 32 + l.date.day,
                           r.date.year * 512 + r.date.month * 32 + r.date.day)
  BY DEF TimesOrdered
<1> DEFINE l == made.left
           r == made.right
<1>1. l.time \in Times /\ r.time \in Times /\ l.date \in Dates /\ r.date \in Dates
  BY ValuesAssumption DEF MadeOK
<1> HIDE DEF l, r
<1>2. ASSUME NEW t \in Times, WithOffset(t) >= -86400
      PROVE  Ordered(t)
  <2>1. /\ t.seconds \in Nat /\ t.nanoseconds \in Nat
        /\ t.hasTimezone \in BOOLEAN /\ t.timezoneOffset \in -128..127
    BY SMT DEF Times, Between, TwoTo30
  <2> QED BY <1>2, <2>1 DEF Ordered
<1>3. ASSUME WithOffset(l.time) >= -86400, WithOffset(r.time) >= -86400
      PROVE  TimeCompare({l.time}, {r.time}) =
                 FirstOf(Sign(WithOffset(l.time), WithOffset(r.time)),
                         Sign(l.time.nanoseconds, r.time.nanoseconds))
  BY <1>1, <1>2, <1>3, ComparesWithOffset
<1>4. DateCompare({l.date}, {r.date}) =
          Sign(l.date.year * 512 + l.date.month * 32 + l.date.day,
               r.date.year * 512 + r.date.month * 32 + r.date.day)
  BY <1>1, OrderOfDates
<1> QED
  BY <1>3, <1>4 DEF l, r

(* Rounding a value once more gives what its arguments give.               *)
RoundsOn(value, year, month, day, seconds, nanoseconds, q, zone) ==
    DateTimeInitialise(value.date.year, value.date.month, value.date.day,
                       value.time.seconds, value.time.nanoseconds, q, zone)
        = DateTimeInitialise(year, month, day, seconds, nanoseconds, q, zone)

(* RoundingInSteps, of a value at hand.                                    *)
LEMMA RoundedOn ==
    ASSUME NEW year \in Int, NEW month \in Nat, NEW day \in Nat, NEW seconds \in Nat,
           NEW nanoseconds \in Nat, NEW p \in Precisions, NEW q \in Precisions, q <= p,
           NEW zone, NEW newZone, NEW result,
           result = DateTimeInitialise(year, month, day, seconds, nanoseconds, p, zone),
           result.status = "OK"
    PROVE  RoundsOn(result.value, year, month, day, seconds, nanoseconds, q, newZone)
<1>1. DateTimeInitialise(year, month, day, seconds, nanoseconds, p, zone).status = "OK"
  OBVIOUS
<1>2. RoundsOn(DateTimeInitialise(year, month, day, seconds, nanoseconds, p, zone).value,
               year, month, day, seconds, nanoseconds, q, newZone)
  BY <1>1, RoundingInSteps, SMTT(30) DEF RoundsOn
<1> QED
  BY <1>2

(* A date and time made at a precision is rounded to it, and rounds to a   *)
(* coarser one as its arguments do.                                        *)
LEMMA RoundedValues == MadeOK => RoundedToPrecision
<1> DEFINE v == made.result.value
           kept == [year |-> v.date.year, month |-> v.date.month, day |-> v.date.day,
                    seconds |-> v.time.seconds, nanoseconds |-> v.time.nanoseconds]
<1> SUFFICES ASSUME MadeOK, made.kind = "datetime", made.result.status = "OK",
                    NEW p \in 0..made.precision
    PROVE  AtPrecision(kept, p, made.zone) = AtPrecision(made.from, p, made.zone)
  BY DEF RoundedToPrecision
<1> DEFINE i == made.from
<1>1. /\ i.year \in Int /\ i.month \in Nat /\ i.day \in Nat
      /\ i.seconds \in Nat /\ i.nanoseconds \in Nat
  BY ValuesAssumption DEF MadeOK
<1>2. made.precision \in Precisions /\ p \in Precisions /\ p <= made.precision
  BY DEF MadeOK, Precisions
<1>3. made.result = DateTimeInitialise(i.year, i.month, i.day, i.seconds, i.nanoseconds,
                                       made.precision, made.zone)
  BY DEF MadeOK, AtPrecision
<1>4. RoundsOn(v, i.year, i.month, i.day, i.seconds, i.nanoseconds, p, made.zone)
  <2> HIDE DEF i
  <2> QED BY <1>1, <1>2, <1>3, RoundedOn
<1>5. /\ kept.year = v.date.year /\ kept.month = v.date.month /\ kept.day = v.date.day
      /\ kept.seconds = v.time.seconds /\ kept.nanoseconds = v.time.nanoseconds
  OBVIOUS
<1> HIDE DEF kept
<1> QED
  BY <1>4, <1>5, Zenon DEF AtPrecision, RoundsOn

(* FudgeTime_compare orders the times any two moments have by their        *)
(* seconds with the offset added, and FudgeDate_compare their dates.       *)
THEOREM MomentsInOrder == ValuesSpec => []TimesOrdered
<1>1. ValuesSpec => []MadeOK
  BY MadeOnce, PTL DEF ValuesSpec
<1> QED
  BY <1>1, OrderOfMoments, PTL

(* A date and time that was made at one precision rounds to a coarser one  *)
(* as the arguments it was made from do.                                   *)
THEOREM RoundedOnce == ValuesSpec => []RoundedToPrecision
<1>1. ValuesSpec => []MadeOK
  BY MadeOnce, PTL DEF ValuesSpec
<1> QED
  BY <1>1, RoundedValues, PTL

-----------------------------------------------------------------------------
(* Reading the integers of a message that has arrived.                     *)

(* FudgeType_coerceInt to a float: the nearest one to every integer of 32  *)
(* bits has been found after taking off at most 8 of them.                 *)
RoundedOff(v, k, unit) ==
    LET m    == v \div unit
        lost == v % unit
    IN  IF 2 * lost > unit \/ (2 * lost = unit /\ m % 2 = 1) THEN <<m + 1, k>> ELSE <<m, k>>

(* By how much that is off, at most half of a unit.                        *)
OffByHalf(v, k, unit) ==
    (RoundedOff(v, k, unit)[1] - v \div unit) * unit - (v % unit)
        \in -(unit \div 2)..(unit \div 2)

(* Off by at most half of a unit.                                          *)
LEMMA RoundedByHalf ==
    ASSUME NEW v \in Int, NEW unit \in {2, 4, 8, 16, 32, 64, 128, 256}, NEW k
    PROVE  OffByHalf(v, k, unit)
<1> USE DEF OffByHalf
<1> DEFINE m == v \div unit
           lost == v % unit
<1>1. m \in Int /\ lost \in Int /\ 0 <= lost /\ lost < unit
  BY SMT
<1>2. \/ 2 * lost >= unit /\ RoundedOff(v, k, unit)[1] = m + 1
      \/ 2 * lost <= unit /\ RoundedOff(v, k, unit)[1] = m
  BY <1>1 DEF RoundedOff
<1> HIDE DEF m, lost
<1>3. CASE 2 * lost >= unit /\ RoundedOff(v, k, unit)[1] = m + 1
  <2>1. ((m + 1) - m) * unit - lost = unit - lost
    BY <1>1, SMT
  <2>2. unit - lost \in -(unit \div 2)..(unit \div 2)
    BY <1>1, <1>3, SMT
  <2> QED BY <1>3, <2>1, <2>2 DEF m, lost
<1>4. CASE 2 * lost <= unit /\ RoundedOff(v, k, unit)[1] = m
  <2>1. (m - m) * unit - lost = -lost
    BY <1>1, SMT
  <2>2. -lost \in -(unit \div 2)..(unit \div 2)
    BY <1>1, <1>4, SMT
  <2> QED BY <1>4, <2>1, <2>2 DEF m, lost
<1> QED
  BY <1>2, <1>3, <1>4

(* So the float is the nearest, for what the integer is before.            *)
LEMMA NearestFloat ==
    ASSUME NEW f, f[1] \in I32, f[2] = 0
    PROVE  IsNearest(RoundTo24Bits(f), f[1])
<1> DEFINE P(i) == 2^i
           Least24(i) == Fits24(f[1] \div P(i)) /\ \A j \in 0..(i - 1) : ~Fits24(f[1] \div P(j))
           k == CHOOSE i \in 0..8 : Least24(i)
           r == RoundTo24Bits(f)
<1>0. f[1] \in Int /\ Fits24(f[1] \div 256)
  BY SMT DEF I32, Between, Fits24
<1>1. /\ P(1) = 2 /\ P(2) = 4 /\ P(3) = 8 /\ P(4) = 16 /\ P(5) = 32 /\ P(6) = 64
      /\ P(7) = 128 /\ P(8) = 256
  BY SMT
<1>2. r = IF k = 0 THEN f ELSE RoundedOff(f[1], f[2] + k, P(k))
  BY Zenon DEF RoundTo24Bits, RoundedOff
<1>3. IsNearest(r, f[1]) <=>
        (r[2] > 0 => (r[1] - f[1] \div P(r[2])) * P(r[2]) - (f[1] % P(r[2]))
                        \in -(P(r[2]) \div 2)..(P(r[2]) \div 2))
  BY Zenon DEF IsNearest
<1> HIDE DEF P
<1>4. k \in 0..8
  <2> DEFINE T == {i \in 0..8 : Fits24(f[1] \div P(i))}
  <2>1. T \in SUBSET Nat /\ T # {}
    BY <1>0, <1>1
  <2>2. PICK i \in T : \A j \in T : i <= j
    <3> HIDE DEF T
    <3> QED BY <2>1, Least
  <2>3. \A j \in 0..(i - 1) : j \in 0..8 /\ ~(i <= j)
    BY <2>2
  <2>4. \A j \in 0..(i - 1) : ~Fits24(f[1] \div P(j))
    BY <2>2, <2>3
  <2>5. i \in 0..8 /\ Least24(i)
    BY <2>2, <2>4
  <2> HIDE DEF Least24
  <2> QED BY <2>5, Zenon
<1> HIDE DEF k, r
<1>5. CASE k = 0
  <2>1. r[2] = 0
    BY <1>2, <1>5
  <2> QED BY <1>3, <2>1 DEF r
<1>6. CASE k # 0
  <2> DEFINE unit == P(k)
  <2>1. k \in Int /\ k > 0 /\ f[2] + k = k /\ r = RoundedOff(f[1], k, unit)
    BY <1>2, <1>4, <1>6
  <2>2. r[2] = k
    BY <2>1 DEF RoundedOff
  <2>3. unit \in {2, 4, 8, 16, 32, 64, 128, 256}
    <3>1. k = 1 \/ k = 2 \/ k = 3 \/ k = 4 \/ k = 5 \/ k = 6 \/ k = 7 \/ k = 8
      BY <1>4, <2>1
    <3> QED BY <1>1, <3>1
  <2> HIDE DEF unit
  <2>4. (r[1] - f[1] \div unit) * unit - (f[1] % unit) \in -(unit \div 2)..(unit \div 2)
    <3>1. f[1] \in Int
      BY <1>0
    <3>2. OffByHalf(f[1], k, unit)
      BY <2>3, <3>1, RoundedByHalf
    <3> QED BY <2>1, <3>2, Zenon DEF OffByHalf
  <2> QED BY <1>3, <2>2, <2>4, Zenon DEF r, unit
<1> QED
  BY <1>5, <1>6

(* A field of an integer as FudgeMsg_addFieldI32 makes it: in the smallest *)
(* type that holds its value.                                              *)
Smallest(f) == f.data \in I32 /\ f.type = PickIntegerType(INT, f.data)

(* What a receiver reads in such a field, as each type of number.          *)
ReadsBack(f, v) ==
    /\ \A type \in {BYTE, SHORT, INT, LONG} :
          GetFieldAsPrimitive(InitialRegistry, f, type) =
              IF v \in Holds(type) THEN Ok(v) ELSE Fail("INVALID_TYPE_COERCION")
    /\ GetFieldAsPrimitive(InitialRegistry, f, DOUBLE) = Ok(<<v, 0>>)
    /\ GetFieldAsPrimitive(InitialRegistry, f, BOOL) = Ok(IF v = 0 THEN 0 ELSE 1)
    /\ IsNearest(GetFieldAsPrimitive(InitialRegistry, f, FLOAT).value, v)
    /\ \A type \in Numbers : GetFieldAs(InitialRegistry, f, type) =
          IF type = f.type THEN Fail("COERCION_NOT_REQUIRED")
          ELSE GetFieldAsPrimitive(InitialRegistry, f, type)

(* The types an integer may be of, those that may hold it besides, and     *)
(* those it can be coerced to.                                             *)
LEMMA IntegerTypes ==
    ASSUME NEW f, Smallest(f)
    PROVE  /\ f.data \in Int
           /\ f.type \in {BYTE, SHORT, INT}
           /\ CoercesTo[f.type] =
                 {BOOL, LONG, FLOAT, DOUBLE}
                    \cup (IF f.type = INT THEN {} ELSE IF f.type = SHORT THEN {INT} ELSE {SHORT, INT})
           /\ \A type \in {BYTE, SHORT, INT, LONG} :
                 f.data \in Holds(type) <=> type = f.type \/ type \in CoercesTo[f.type]
<1> DEFINE v == f.data
<1>1. v \in I32
  BY DEF Smallest
<1>2. v \in Int
  BY <1>1, SMT DEF I32, Between
<1>3. /\ BYTE # SHORT /\ BYTE # INT /\ SHORT # INT
  BY DEF BYTE, SHORT, INT
<1>4. f.type = IF v \in -128..127 THEN BYTE ELSE IF v \in I16 THEN SHORT ELSE INT
  BY <1>3 DEF Smallest, PickIntegerType
<1>5. v \in -128..127 => v \in I16
  BY SMT DEF I16, Between
<1>6. /\ CoercesTo[BYTE] = {BOOL, LONG, FLOAT, DOUBLE, SHORT, INT}
      /\ CoercesTo[SHORT] = {BOOL, LONG, FLOAT, DOUBLE, INT}
      /\ CoercesTo[INT] = {BOOL, LONG, FLOAT, DOUBLE}
  BY SMT DEF CoercesTo, Numbers, BOOL, BYTE, SHORT, INT, LONG, FLOAT, DOUBLE, INDICATOR
<1>7. Holds(BYTE) = -128..127 /\ Holds(SHORT) = I16 /\ Holds(INT) = I32 /\ Holds(LONG) = I32
  BY DEF Holds, BYTE, SHORT, INT, LONG
<1>8. f.type \in {BYTE, SHORT, INT}
  BY <1>4
<1>9. CoercesTo[f.type] =
          {BOOL, LONG, FLOAT, DOUBLE}
             \cup (IF f.type = INT THEN {} ELSE IF f.type = SHORT THEN {INT} ELSE {SHORT, INT})
  BY <1>3, <1>6, <1>8
<1>10. \A type \in {BYTE, SHORT, INT, LONG} :
          type \in CoercesTo[f.type] <=> \/ type = LONG
                                         \/ type = INT /\ f.type # INT
                                         \/ type = SHORT /\ f.type = BYTE
  BY <1>8, <1>9, SMT DEF BOOL, BYTE, SHORT, INT, LONG, FLOAT, DOUBLE
<1> HIDE DEF v
<1>11. ASSUME NEW type \in {BYTE, SHORT, INT, LONG}
       PROVE  v \in Holds(type) <=> type = f.type \/ type \in CoercesTo[f.type]
  <2>1. CASE type = BYTE
    <3>1. BYTE # LONG
      BY DEF BYTE, LONG
    <3> QED BY <1>3, <1>4, <1>7, <1>10, <2>1, <3>1
  <2>2. CASE type = SHORT
    <3>1. SHORT # LONG
      BY DEF SHORT, LONG
    <3> QED BY <1>3, <1>4, <1>5, <1>7, <1>10, <2>2, <3>1
  <2>3. CASE type = INT
    <3>1. INT # LONG
      BY DEF INT, LONG
    <3> QED BY <1>1, <1>3, <1>4, <1>7, <1>10, <2>3, <3>1 DEF v
  <2>4. CASE type = LONG
    BY <1>1, <1>7, <1>10, <2>4 DEF v
  <2> QED BY <1>11, <2>1, <2>2, <2>3, <2>4
<1> QED
  BY <1>2, <1>8, <1>9, <1>11 DEF v

(* FudgeMsg_getFieldAsByte and the others read an integer as every type    *)
(* that holds it, and as no other.                                         *)
LEMMA IntegerReadsBack ==
    ASSUME NEW f, Smallest(f)
    PROVE  ReadsBack(f, f.data)
<1> DEFINE v == f.data
           T == f.type
           As(type) == GetFieldAsPrimitive(InitialRegistry, f, type)
           Got(type) == GetFieldAs(InitialRegistry, f, type)
<1>0. v \in I32
  BY DEF Smallest
<1>1. T \in {BYTE, SHORT, INT}
  BY IntegerTypes
<1>2. InitialRegistry[T].coercer = T /\ T # Null
  BY <1>1, SMTT(30) DEF InitialRegistry, BuiltIn, Numbers, Byte, BOOL, BYTE, SHORT, INT, LONG, FLOAT,
                   DOUBLE, INDICATOR, Null
<1>3. ASSUME NEW type
      PROVE  As(type) = IF type = T THEN Ok(v)
                        ELSE IF type \in CoercesTo[T] THEN Ok(Converted(T, type, v))
                        ELSE Fail("INVALID_TYPE_COERCION")
  <2>1. CASE type = T
    BY <1>2, <2>1 DEF GetFieldAsPrimitive, Coerce, Fail
  <2>2. CASE type # T /\ type \in CoercesTo[T]
    BY <1>2, <2>2 DEF GetFieldAsPrimitive, Coerce, Ok
  <2>3. CASE type # T /\ type \notin CoercesTo[T]
    BY <1>2, <2>3 DEF GetFieldAsPrimitive, Coerce, Fail
  <2> QED BY <2>1, <2>2, <2>3
<1>4. ASSUME NEW type
      PROVE  Got(type) = IF type = T THEN Fail("COERCION_NOT_REQUIRED")
                         ELSE IF type \in CoercesTo[T] THEN Ok(Converted(T, type, v))
                         ELSE Fail("INVALID_TYPE_COERCION")
  BY <1>2 DEF GetFieldAs, Coerce
<1>5. \A type \in {BYTE, SHORT, INT, LONG} : Converted(T, type, v) = v
  BY <1>1, SMT DEF Converted, BOOL, BYTE, SHORT, INT, LONG, FLOAT, DOUBLE
<1>6. /\ Converted(T, DOUBLE, v) = <<v, 0>>
      /\ Converted(T, FLOAT, v) = RoundTo24Bits(<<v, 0>>)
      /\ Converted(T, BOOL, v) = IF v = 0 THEN 0 ELSE 1
  BY <1>1 DEF Converted, BOOL, BYTE, SHORT, INT, LONG, FLOAT, DOUBLE
<1>7. /\ T \notin {BOOL, FLOAT, DOUBLE}
      /\ {BOOL, FLOAT, DOUBLE} \subseteq CoercesTo[T]
  <2>1. T \notin {BOOL, FLOAT, DOUBLE}
    BY <1>1 DEF BOOL, BYTE, SHORT, INT, LONG, FLOAT, DOUBLE
  <2> QED BY <2>1, IntegerTypes
<1>8. \A type \in {BYTE, SHORT, INT, LONG} :
          v \in Holds(type) <=> type = T \/ type \in CoercesTo[T]
  BY IntegerTypes
<1> HIDE DEF v, T, As, Got
<1>9. \A type \in {BYTE, SHORT, INT, LONG} :
          As(type) = IF v \in Holds(type) THEN Ok(v) ELSE Fail("INVALID_TYPE_COERCION")
  BY <1>3, <1>5, <1>8
<1>10. As(DOUBLE) = Ok(<<v, 0>>) /\ As(BOOL) = Ok(IF v = 0 THEN 0 ELSE 1)
  BY <1>3, <1>6, <1>7
<1>11. IsNearest(As(FLOAT).value, v)
  <2> DEFINE p == <<v, 0>>
  <2>1. p[1] = v /\ p[2] = 0
    OBVIOUS
  <2>2. As(FLOAT).value = RoundTo24Bits(p)
    BY <1>3, <1>6, <1>7 DEF Ok
  <2> HIDE DEF p
  <2>3. IsNearest(RoundTo24Bits(p), p[1])
    BY <1>0, <2>1, NearestFloat DEF v
  <2> QED BY <2>1, <2>2, <2>3
<1>12. \A type \in Numbers : Got(type) = IF type = T THEN Fail("COERCION_NOT_REQUIRED")
                                         ELSE As(type)
  BY <1>3, <1>4
<1> QED
  BY <1>9, <1>10, <1>11, <1>12, Zenon DEF ReadsBack, v, T, As, Got

-----------------------------------------------------------------------------
(* Finding a field by its name.                                            *)

(* Names that compare equal are equal: a client gives no two names that    *)
(* differ by byte-order markers alone.                                     *)
NamesApart == \A n, m \in Names : Compare(n, m) = 0 => n = m

(* So a name is found by itself.                                           *)
LEMMA NamesFound ==
    ASSUME NamesApart, NEW name \in Names \cup {{}}, NEW other \in Names, other # {}
    PROVE  Compare(name, other) = 0 <=> name = other
<1>1. PICK n \in other : n \in Seq(Byte)
  BY WireFormatAssumption
<1>2. The(other) = n
  BY <1>1, WireFormatAssumption DEF The, AtMostOne
<1>3. Compare(other, other) = 0
  <2>1. CompareBytes(n, n) = 0
    BY <1>1, ComparesToItself
  <2> QED BY <1>2, <2>1 DEF Compare, NullsFirst
<1>4. Compare({}, other) = -1
  BY DEF Compare, NullsFirst
<1>5. CASE name \in Names
  BY <1>3, <1>5 DEF NamesApart
<1>6. CASE name = {}
  BY <1>4, <1>6
<1> QED
  BY <1>5, <1>6

-----------------------------------------------------------------------------
(* Reading a message that has arrived.                                     *)

(* A field as the client adds it: under a name it gives, with at most one  *)
(* ordinal, and if it is an integer, in the smallest type.                 *)
Given(f) ==
    /\ f.name \in Names \cup {{}}
    /\ AtMostOne(f.ordinal)
    /\ f.type \in {BYTE, SHORT, INT} => Smallest(f)

(* The inductive invariant: the fields of the message are such.            *)
ReadIInv ==
    /\ message \in Seq(ToSet(message))
    /\ \A f \in ToSet(message) : Given(f)

(* The fields the client adds are such.                                    *)
LEMMA GivenFields ==
    /\ \A f \in Fields : Given(f)
    /\ \A name \in Names, v \in Integers32 : Given(Field(PickIntegerType(INT, v), name, {}, v))
    /\ \A name \in Names : \A m : Given(AsField(name, m))
    /\ \A type \in {DATETIME, STRING_TYPE} : \A v : Given(Field(type, {}, {}, v))
<1>1. ASSUME NEW f \in Fields PROVE Given(f)
  BY WireFormatAssumption DEF Given
<1>2. ASSUME NEW name \in Names, NEW v \in Integers32
      PROVE  Given(Field(PickIntegerType(INT, v), name, {}, v))
  <2>1. v \in I32
    BY WireFormatAssumption
  <2> HIDE DEF I32
  <2> QED BY <2>1 DEF Given, Field, AtMostOne, Smallest
<1>3. ASSUME NEW name \in Names, NEW m PROVE Given(AsField(name, m))
  <2>1. FUDGE_MSG \notin {BYTE, SHORT, INT}
    BY DEF FUDGE_MSG, BYTE, SHORT, INT
  <2> QED BY <2>1 DEF Given, Field, AsField, AtMostOne
<1>4. ASSUME NEW type \in {DATETIME, STRING_TYPE}, NEW v PROVE Given(Field(type, {}, {}, v))
  <2>1. type \notin {BYTE, SHORT, INT}
    BY DEF DATETIME, STRING_TYPE, BYTE, SHORT, INT
  <2> QED BY <2>1 DEF Given, Field, AtMostOne
<1> QED
  BY <1>1, <1>2, <1>3, <1>4

(* A message stays one of such fields when one more is added.              *)
LEMMA GivenAppended ==
    ASSUME ReadIInv, NEW f, Given(f), message' = Append(message, f)
    PROVE  ReadIInv'
<1> DEFINE U == ToSet(message) \cup {f}
           new == Append(message, f)
<1>1. message \in Seq(U) /\ f \in U
  BY DEF ReadIInv
<1>2. \A g \in U : Given(g)
  BY DEF ReadIInv
<1> HIDE DEF U
<1>3. new \in Seq(U)
  BY <1>1, AppendProperties
<1> HIDE DEF new
<1>4. new \in Seq(ToSet(new)) /\ ToSet(new) \subseteq U
  BY <1>3, OwnElements
<1>5. message' = new
  BY DEF new
<1>6. (\A g \in ToSet(message) : Given(g))' <=> \A g \in ToSet(message') : Given(g)
  BY DEF Given, Smallest
<1>7. (message \in Seq(ToSet(message)))'
  BY <1>4, <1>5, Zenon
<1>8. \A g \in ToSet(message') : Given(g)
  BY <1>2, <1>4, <1>5
<1> QED
  BY <1>6, <1>7, <1>8 DEF ReadIInv

(* Whatever the client does next.                                          *)
LEMMA ReadStep ==
    ASSUME ReadIInv, [WireNext]_wireVars \/ [ValuesNext]_valueVars
    PROVE  ReadIInv'
<1>1. ASSUME NEW f, Given(f), Add(f) PROVE ReadIInv'
  BY <1>1, GivenAppended DEF Add
<1>2. ASSUME NEW name \in Names, Enclose(name) PROVE ReadIInv'
  <2> DEFINE f == AsField(name, message)
             new == <<f>>
  <2>1. Given(f)
    BY GivenFields
  <2> HIDE DEF f
  <2>2. new \in Seq({f})
    OBVIOUS
  <2>3. message' = new
    BY <1>2 DEF Enclose, f
  <2> HIDE DEF new
  <2>4. new \in Seq(ToSet(new)) /\ ToSet(new) \subseteq {f}
    BY <2>2, OwnElements
  <2>5. (\A g \in ToSet(message) : Given(g))' <=> \A g \in ToSet(message') : Given(g)
    BY DEF Given, Smallest
  <2>6. (message \in Seq(ToSet(message)))'
    BY <2>3, <2>4, Zenon
  <2>7. \A g \in ToSet(message') : Given(g)
    BY <2>1, <2>3, <2>4
  <2> QED BY <2>5, <2>6, <2>7 DEF ReadIInv
<1>3. CASE WireNext
  <2>1. ASSUME NEW f \in Fields, AddField(f) PROVE ReadIInv'
    BY <1>1, <2>1, GivenFields DEF AddField
  <2>2. ASSUME NEW name \in Names, NEW v \in Integers32, AddInteger(name, v) PROVE ReadIInv'
    BY <1>1, <2>2, GivenFields DEF AddInteger
  <2>3. ASSUME NEW name \in Names, NEW m \in ToSet(inner), AddMessage(name, m) PROVE ReadIInv'
    BY <1>1, <2>3, GivenFields DEF AddMessage
  <2> QED BY <1>2, <1>3, <2>1, <2>2, <2>3 DEF WireNext
<1>4. CASE Send
  <2> DEFINE type == IF made.kind = "datetime" THEN DATETIME ELSE STRING_TYPE
             v == made.result.value
  <2>1. type \in {DATETIME, STRING_TYPE}
    OBVIOUS
  <2>2. Add(Field(type, {}, {}, v))
    BY <1>4, Zenon DEF Send, AddField
  <2> HIDE DEF type, v
  <2>3. Given(Field(type, {}, {}, v))
    BY <2>1, GivenFields
  <2> QED BY <1>1, <2>2, <2>3
<1>5. CASE message' = message
  BY <1>5 DEF ReadIInv, Given, Smallest
<1>6. WireNext \/ Send \/ message' = message
  BY DEF ValuesNext, MakeValue, wireVars, valueVars
<1> QED
  BY <1>3, <1>4, <1>5, <1>6

(* The fields of every message a client has put together are such.         *)
LEMMA ReadInductive ==
    /\ WireSpec => []ReadIInv
    /\ ValuesSpec => []ReadIInv
<1>1. WireInit => ReadIInv
  <2> SUFFICES ASSUME WireInit PROVE ReadIInv
    OBVIOUS
  <2>1. message = <<>> /\ DOMAIN message = {}
    BY DEF WireInit
  <2>2. ToSet(message) = {}
    BY <2>1 DEF ToSet
  <2> QED BY <2>1, <2>2, EmptySeq DEF ReadIInv
<1>2. ReadIInv /\ [WireNext]_wireVars => ReadIInv'
  BY ReadStep
<1>3. ReadIInv /\ [ValuesNext]_valueVars => ReadIInv'
  BY ReadStep
<1>4. WireSpec => []ReadIInv
  BY <1>1, <1>2, PTL DEF WireSpec
<1>5. ValuesSpec => []ReadIInv
  BY <1>1, <1>3, PTL DEF ValuesSpec, ValuesInit
<1> QED
  BY <1>4, <1>5

(* A message read after its arrival as it was sent.                        *)
LEMMA MessageRead ==
    ASSUME NamesApart, ReadIInv
    PROVE  ReadBackFrom(message)
<1> DEFINE D == DOMAIN message
<1>1. D = 1..Len(message) /\ Len(message) \in Nat
  BY DEF ReadIInv
<1>2. \A i \in D : message[i] \in ToSet(message) /\ Given(message[i])
  BY DEF ReadIInv, ToSet
<1>3. ASSUME NEW i \in D, message[i].type \in {BYTE, SHORT, INT}
      PROVE  ReadsBack(GetFieldAtIndex(message, i - 1).value, message[i].data)
  <2>1. Smallest(message[i])
    BY <1>2, <1>3 DEF Given
  <2>2. i \in Nat /\ i - 1 < Len(message) /\ (i - 1) + 1 = i
    BY <1>1
  <2>3. GetFieldAtIndex(message, i - 1) = Ok(message[i])
    <3>1. ~(i - 1 >= Len(message))
      BY <1>1, <2>2
    <3> QED BY <2>2, <3>1 DEF GetFieldAtIndex
  <2>4. GetFieldAtIndex(message, i - 1).value = message[i]
    BY <2>3 DEF Ok
  <2> QED BY <2>1, <2>4, IntegerReadsBack
<1>4. ASSUME NEW i \in D, message[i].name # {}
      PROVE  GetFieldByName(message, message[i].name) =
                Ok(message[Min({j \in D : message[j].name = message[i].name})])
  <2> DEFINE name == message[i].name
             matching == {j \in D : Compare(message[j].name, name) = 0}
             equal == {j \in D : message[j].name = name}
  <2>1. name \in Names
    BY <1>2, <1>4 DEF Given
  <2>2. \A j \in D : Compare(message[j].name, name) = 0 <=> message[j].name = name
    <3>1. \A j \in D : message[j].name \in Names \cup {{}}
      BY <1>2 DEF Given
    <3> HIDE DEF name, D
    <3> QED BY <1>4, <2>1, <3>1, NamesFound DEF name
  <2>3. matching = equal
    <3> HIDE DEF name, D
    <3> QED BY <2>2
  <2>4. i \in equal
    OBVIOUS
  <2>5. GetFieldByName(message, name) =
          IF matching = {} THEN Fail("INVALID_NAME") ELSE Ok(message[Min(matching)])
    BY <1>4 DEF GetFieldByName, FirstField
  <2> QED BY <2>3, <2>4, <2>5
<1>5. ASSUME NEW i \in D, message[i].ordinal # {}
      PROVE  GetFieldByOrdinal(message, The(message[i].ordinal)) =
                Ok(message[Min({j \in D : message[j].ordinal = message[i].ordinal})])
  <2> DEFINE ordinal == message[i].ordinal
             matching == {j \in D : The(ordinal) \in message[j].ordinal}
             equal == {j \in D : message[j].ordinal = ordinal}
  <2>1. \A j \in D : AtMostOne(message[j].ordinal)
    BY <1>2 DEF Given
  <2>2. The(ordinal) \in ordinal
    <3> HIDE DEF ordinal
    <3>1. ordinal # {}
      BY <1>5 DEF ordinal
    <3> QED BY <3>1 DEF The
  <2>3. \A j \in D : The(ordinal) \in message[j].ordinal <=> message[j].ordinal = ordinal
    <3> TAKE j \in D
    <3> DEFINE other == message[j].ordinal
    <3>1. AtMostOne(other) /\ AtMostOne(ordinal)
      BY <2>1
    <3> HIDE DEF other, ordinal
    <3>2. The(ordinal) \in other => other = ordinal
      BY <2>2, <3>1 DEF AtMostOne
    <3>3. other = ordinal => The(ordinal) \in other
      BY <2>2
    <3> QED BY <3>2, <3>3 DEF other
  <2>4. matching = equal
    <3> HIDE DEF ordinal, D
    <3> QED BY <2>3
  <2>5. i \in equal
    OBVIOUS
  <2>6. GetFieldByOrdinal(message, The(ordinal)) =
          IF matching = {} THEN Fail("INVALID_ORDINAL") ELSE Ok(message[Min(matching)])
    BY DEF GetFieldByOrdinal, FirstField
  <2> QED BY <2>4, <2>5, <2>6
<1>6. ASSUME \A i \in D : message[i].ordinal # {0}
      PROVE  GetFieldByOrdinal(message, 0) = Fail("INVALID_ORDINAL")
  <2>1. ASSUME NEW j \in D PROVE 0 \notin message[j].ordinal
    BY <1>2, <1>6, <2>1 DEF Given, AtMostOne
  <2>2. {j \in D : 0 \in message[j].ordinal} = {}
    BY <2>1
  <2>3. GetFieldByOrdinal(message, 0) =
          IF {j \in D : 0 \in message[j].ordinal} = {} THEN Fail("INVALID_ORDINAL")
          ELSE Ok(message[Min({j \in D : 0 \in message[j].ordinal})])
    BY DEF GetFieldByOrdinal, FirstField
  <2> QED BY <2>2, <2>3
<1>7. ASSUME NEW n \in 0..(Len(message) + 1)
      PROVE  IsPrefix(GetFields(message, n), message)
  <2> DEFINE m == Min({n, Len(message)})
             first == SubSeq(message, 1, m)
  <2>1. m \in 0..Len(message)
    <3> DEFINE T == {n, Len(message)}
    <3>1. T \in SUBSET Nat /\ T # {}
      BY <1>1
    <3>2. \E k \in T : \A j \in T : k <= j
      <4> HIDE DEF T
      <4> QED BY <3>1, Least
    <3>3. m \in T /\ \A j \in T : m <= j
      <4>1. m = Min(T)
        OBVIOUS
      <4> HIDE DEF T, m
      <4>2. Min(T) \in T /\ \A j \in T : Min(T) <= j
        BY <3>2, Zenon DEF Min
      <4> QED BY <4>1, <4>2
    <3>4. m \in Nat /\ m <= Len(message)
      <4> HIDE DEF m
      <4> QED BY <3>1, <3>3
    <3> HIDE DEF m
    <3> QED BY <1>1, <3>4
  <2> HIDE DEF m, first
  <2>2. Len(first) = m /\ first \in Seq(ToSet(message))
    <3>1. message \in Seq(ToSet(message)) /\ m \in Nat /\ m <= Len(message)
      BY <1>1, <2>1 DEF ReadIInv
    <3> QED BY <3>1, Rest DEF first
  <2>3. SubSeq(first, 1, Len(first)) = first
    <3>1. first \o <<>> = first
      BY <2>2, ConcatEmptySeq
    <3>2. SubSeq(first \o <<>>, 1, Len(first)) = first
      BY <2>2, TakenApart, EmptySeq
    <3> QED BY <3>1, <3>2
  <2>4. Len(first) <= Len(message)
    BY <1>1, <2>1, <2>2
  <2> QED BY <2>2, <2>3, <2>4 DEF GetFields, UpTo, IsPrefix, first, m
<1> QED
  BY <1>3, <1>4, <1>5, <1>6, <1>7 DEF ReadBackFrom, ReadsBack

(* Whatever type FudgeMsg_addFieldI32 keeps an integer in, the receiver    *)
(* reads it as every type of number that can hold it, and as no other, and *)
(* as the nearest float; it finds the first field of each name and of each *)
(* ordinal, and none by the ordinal 0 if there is none.  This holds of     *)
(* messages of any length and depth that fit into 32 bits, if no name has  *)
(* 128 bytes or more and no two differ by byte-order markers alone.        *)
THEOREM NumbersRead ==
    ASSUME NamesShorter(128), NamesApart
    PROVE  WireSpec \/ ValuesSpec => [](LengthFits => NumbersReadBack)
<1>1. WireIInv /\ ReadIInv => (LengthFits => NumbersReadBack)
  <2> SUFFICES ASSUME WireIInv, ReadIInv, LengthFits PROVE NumbersReadBack
    OBVIOUS
  <2>1. RoundTrip
    BY EncodedReadBack DEF WireIInv
  <2>2. DecodeMsg(EncodeMsg(envelope, message)).message = message
    BY <2>1 DEF RoundTrip
  <2>3. ReadBackFrom(message)
    BY MessageRead
  <2> QED BY <2>2, <2>3 DEF NumbersReadBack
<1> QED
  BY <1>1, WireInductive, ReadInductive, PTL

-----------------------------------------------------------------------------
(* The strings a client makes and compares.                                *)

(* A pair that may be of null pointers.                                    *)
LEMMA PairCompares == MadeOK => CompareIsOrder
<1> SUFFICES ASSUME MadeOK, made.kind = "pair"
             PROVE  CompareIsOrder
  BY DEF CompareIsOrder
<1> DEFINE l == made.left
           r == made.right
           Pointer(p) == {FlattenSeq(chunks) : chunks \in p}
<1>1. l \in Chunks /\ r \in Chunks
  BY DEF MadeOK
<1>2. ASSUME NEW p \in Chunks
      PROVE  /\ p = {} => Pointer(p) = {} /\ Cardinality(p) = 0
             /\ p # {} => /\ p = {The(p)} /\ Cardinality(p) = 1
                          /\ Pointer(p) # {} /\ The(Pointer(p)) = FlattenSeq(The(p))
                          /\ The(p) \in Seq(Seq(Byte))
                          /\ \A i \in DOMAIN The(p) : The(p)[i] = BOM \/ Unmarked(The(p)[i])
  <2>1. p \subseteq Seq(Seq(Byte)) /\ AtMostOne(p)
        /\ \A chunks \in p : \A i \in DOMAIN chunks : chunks[i] = BOM \/ Unmarked(chunks[i])
    BY ValuesAssumption
  <2>2. CASE p = {}
    BY <2>2, FS_EmptySet
  <2>3. CASE p # {}
    <3>1. The(p) \in p /\ p = {The(p)}
      BY <2>1, <2>3, OnlyOne
    <3> DEFINE t == The(p)
    <3>2. t \in p /\ p = {t}
      BY <3>1
    <3> HIDE DEF t
    <3>3. Cardinality(p) = 1
      BY <3>2, FS_Singleton
    <3>4. Pointer(p) = {FlattenSeq(t)}
      BY <3>2
    <3>5. The(Pointer(p)) = FlattenSeq(t)
      BY <3>4 DEF The
    <3>6. t \in Seq(Seq(Byte)) /\ \A i \in DOMAIN t : t[i] = BOM \/ Unmarked(t[i])
      BY <2>1, <3>2
    <3> QED BY <2>3, <3>2, <3>3, <3>4, <3>5, <3>6 DEF t
  <2> QED BY <2>2, <2>3
<1> HIDE DEF l, r, Pointer
<1>3. CASE l = {} \/ r = {}
  <2>1. Compare(Pointer(l), Pointer(r)) = Sign(Cardinality(l), Cardinality(r))
    <3>1. /\ l = {} => Pointer(l) = {} /\ Cardinality(l) = 0
          /\ r = {} => Pointer(r) = {} /\ Cardinality(r) = 0
          /\ l # {} => Pointer(l) # {} /\ Cardinality(l) = 1
          /\ r # {} => Pointer(r) # {} /\ Cardinality(r) = 1
      BY <1>1, <1>2
    <3>2. NullsCompared(Pointer(l), Pointer(r))
      BY NullPointers
    <3>3. Sign(0, 0) = 0 /\ Sign(0, 1) = -1 /\ Sign(1, 0) = 1
      BY DEF Sign
    <3>4. CASE l = {} /\ r = {}
      BY <3>1, <3>2, <3>3, <3>4, Zenon DEF NullsCompared
    <3>5. CASE l = {} /\ r # {}
      BY <3>1, <3>2, <3>3, <3>5, Zenon DEF NullsCompared
    <3>6. CASE l # {} /\ r = {}
      BY <3>1, <3>2, <3>3, <3>6, Zenon DEF NullsCompared
    <3> QED BY <1>3, <3>4, <3>5, <3>6
  <2> QED BY <1>3, <2>1 DEF CompareIsOrder, l, r, Pointer
<1>4. CASE l # {} /\ r # {}
  <2>1. Compare(Pointer(l), Pointer(r)) = CompareBytes(The(Pointer(l)), The(Pointer(r)))
    <3>1. Pointer(l) # {} /\ Pointer(r) # {}
      BY <1>1, <1>2, <1>4
    <3> QED BY <3>1, Zenon DEF Compare, NullsFirst
  <2>2. CompareBytes(FlattenSeq(The(l)), FlattenSeq(The(r))) = OrderOf(The(l), The(r))
    BY <1>1, <1>2, <1>4, ChunksInOrder
  <2>3. Compare(Pointer(l), Pointer(r)) = OrderOf(The(l), The(r))
    BY <1>1, <1>2, <1>4, <2>1, <2>2
  <2> QED BY <1>4, <2>3 DEF CompareIsOrder, l, r, Pointer
<1> QED
  BY <1>3, <1>4

(* FudgeString_compare.                                                    *)
THEOREM PairsInOrder == ValuesSpec => []CompareIsOrder
<1>1. ValuesSpec => []MadeOK
  BY MadeOnce, PTL DEF ValuesSpec
<1> QED
  BY <1>1, PairCompares, PTL

(* What a client has made of a text keeps it.                              *)
LEMMA TextIsKept == MadeOK => TextKept
<1> SUFFICES ASSUME MadeOK, made.kind = "text",
                    \A i \in DOMAIN made.from : IsCharacter(made.from[i])
             PROVE  TextKept
  BY Zenon DEF TextKept
<1> DEFINE text == made.from
           u8  == FlattenSeq(InUTF8(text))
           u16 == FlattenSeq(InUTF16(text))
<1>1. text \in Texts /\ made.result = CreateFromUTF32(text)
  BY DEF MadeOK
<1>2. IsText(text)
  BY <1>1, ValuesAssumption DEF IsText
<1>3. /\ CreateFromUTF32(text) = Ok(u8) /\ ConvertToUTF32(u8) = Ok(text)
      /\ ConvertToUTF16(u8) = Ok(u16) /\ CreateFromUTF16(u16) = Ok(u8)
      /\ ConvertUTF32toUTF16(text, 2 * Len(text)).target = u16
      /\ ConvertUTF16toUTF32(u16, Len(u16)).target = text
      /\ \A size \in Nat : CopyToUTF16(size, u8) = IF size + 1 >= 2 * Len(u16) THEN u16 ELSE <<>>
  <2> HIDE DEF text
  <2> QED BY <1>2, ConvertedAndBack
<1>4. CreateFromUTF8(u8) = Ok(u8)
  <2> HIDE DEF text
  <2> QED BY <1>2, BeginsLegal
<1>5. Len(u16) \in Nat
  <2> HIDE DEF text
  <2>1. u16 \in Seq(Nat)
    BY <1>2, LengthsOfText
  <2> HIDE DEF u16
  <2> QED BY <2>1
<1> HIDE DEF u8, u16
<1>6. \A t : Ok(t).status = "OK" /\ Ok(t).value = t
  BY DEF Ok
<1>7. made.result.value = u8 /\ made.result.status = "OK" /\ ConvertToUTF16(u8).value = u16
  BY <1>1, <1>3, <1>6, Zenon
<1>8. \A size \in 0..(2 * Len(u16)) :
          CopyToUTF16(size, u8) = IF size + 1 >= 2 * Len(u16) THEN u16 ELSE <<>>
  <2>1. \A size \in 0..(2 * Len(u16)) : size \in Nat
    OBVIOUS
  <2> QED BY <1>3, <2>1, Zenon
<1> QED
  BY <1>3, <1>4, <1>7, <1>8, Zenon DEF TextKept

(* The text of a string of any characters comes back from it.              *)
THEOREM TextsKept == ValuesSpec => []TextKept
<1>1. ValuesSpec => []MadeOK
  BY MadeOnce, PTL DEF ValuesSpec
<1> QED
  BY <1>1, TextIsKept, PTL

(* And so of every string a client has made.                               *)
LEMMA LengthsOfStringsAgree == MadeOK => LengthsAgree
<1> SUFFICES ASSUME MadeOK, made.kind \in {"text", "bytes"}, made.result.status = "OK"
             PROVE  LengthsOf(made.result.value)
  BY Zenon DEF LengthsAgree, LengthsOf
<1> DEFINE string == made.result.value
<1>1. CASE made.kind = "text"
  <2> DEFINE from == made.from
             c == ConvertUTF32toUTF8(from, 4 * Len(from))
  <2>1. from \in Texts /\ made.result = CreateFromUTF32(from)
    BY <1>1 DEF MadeOK
  <2>2. from \in Seq(Nat)
    BY <2>1, ValuesAssumption
  <2>3. 4 * Len(from) \in Nat
    <3> HIDE DEF from
    <3> QED BY <2>2
  <2>4. c.target \in Seq(Nat)
    <3> HIDE DEF from
    <3> QED BY <2>2, <2>3, NumbersToUTF8
  <2>5. made.result = Outcome(c)
    BY <2>1, Zenon DEF CreateFromUTF32
  <2> HIDE DEF c
  <2>6. made.result = Ok(c.target)
    BY <2>5, OutcomeOK, Zenon
  <2>7. string = c.target
    BY <2>6, ResultOrNot, Zenon
  <2>8. string \in Seq(Nat)
    BY <2>4, <2>7
  <2> QED BY <2>8, LengthsOfAny
<1>2. CASE made.kind = "bytes"
  <2> DEFINE from == made.from
  <2>1. from \in Bytestrings /\ made.result = CreateFromUTF8(from)
    BY <1>2 DEF MadeOK
  <2>2. from \in Seq(Nat)
    <3>1. from \in Seq(Byte)
      BY <2>1, ValuesAssumption
    <3>2. Byte \subseteq Nat
      BY DEF Byte
    <3> HIDE DEF from
    <3>3. \A i \in 1..Len(from) : from[i] \in Nat
      BY <3>1, <3>2, ElementOfSeq
    <3> QED BY <3>1, <3>3
  <2>3. made.result = Ok(from)
    <3>1. made.result = Fail("STRING_INVALID_UNICODE") \/ made.result = Ok(from)
      BY <2>1, Zenon DEF CreateFromUTF8
    <3>2. Fail("STRING_INVALID_UNICODE").status # "OK"
      BY DEF Fail
    <3> QED BY <3>1, <3>2, Zenon
  <2>4. string = from
    BY <2>3, ResultOrNot, Zenon
  <2> QED BY <2>2, <2>4, LengthsOfAny
<1> QED
  BY <1>1, <1>2

(* However a string is walked, its length is the same.                     *)
THEOREM LengthsOfStrings == ValuesSpec => []LengthsAgree
<1>1. ValuesSpec => []MadeOK
  BY MadeOnce, PTL DEF ValuesSpec
<1> QED
  BY <1>1, LengthsOfStringsAgree, PTL
=============================================================================
