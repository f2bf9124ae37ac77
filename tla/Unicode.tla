------------------------------ MODULE Unicode -------------------------------
(***************************************************************************)
(* The conversions between UTF-8, UTF-16 and UTF-32 of convertutf.c.       *)
(* A text is a sequence of code units, each its unsigned value.  Fudge-C   *)
(* always asks for lenientConversion, so the strict branches are left out; *)
(* and no caller looks at where in its source a conversion stopped.        *)
(***************************************************************************)
EXTENDS Integers, Sequences, SequencesExt

UNI_REPLACEMENT_CHAR == 65533     \* U+FFFD
UNI_MAX_BMP          == 65535
UNI_MAX_LEGAL_UTF32  == 1114111   \* U+10FFFF

HighSurrogates == 55296..56319
LowSurrogates  == 56320..57343
Surrogates     == HighSurrogates \cup LowSurrogates

-----------------------------------------------------------------------------
(* A turn of a conversion's loop consumes some units of the source and     *)
(* writes some of the target, or stops it and consumes none.               *)
Turn(used, written) == [result |-> "conversionOK", used |-> used, written |-> written]
Stop(result)        == [result |-> result, used |-> 0, written |-> <<>>]

(* The loop.  TakeTurn(rest, room) is the turn for what is left of the     *)
(* source and of the target.  A result that is not OK is kept even if the  *)
(* loop goes on behind it.                                                 *)
Convert(TakeTurn(_, _), source, targetsize) ==
    LET Next(c) ==
          LET t == TakeTurn(c.rest, targetsize - Len(c.target))
          IN  IF c.stopped \/ c.rest = <<>> THEN c
              ELSE [rest    |-> SubSeq(c.rest, t.used + 1, Len(c.rest)),
                    target  |-> c.target \o t.written,
                    result  |-> IF t.result = "conversionOK" THEN c.result ELSE t.result,
                    stopped |-> t.used = 0]
        after[n \in 0..Len(source)] ==
          IF n = 0 THEN [rest |-> source, target |-> <<>>,
                         result |-> "conversionOK", stopped |-> FALSE]
          ELSE Next(after[n - 1])
        Done == after[Len(source)]
    IN  [result |-> Done.result, target |-> Done.target]

-----------------------------------------------------------------------------
(* UTF-8.                                                                  *)

(* The table: how many bytes follow a first byte.                          *)
trailingBytesForUTF8(byte) ==
    CASE byte < 192 -> 0
      [] byte \in 192..223 -> 1
      [] byte \in 224..239 -> 2
      [] byte \in 240..247 -> 3
      [] byte \in 248..251 -> 4
      [] OTHER -> 5

(* s is one sequence, as long as its first byte says.  The second byte     *)
(* behind 237 and behind 244 has only an upper bound.                      *)
isLegalUTF8(s) ==
    /\ Len(s) <= 4
    /\ \A i \in 3..Len(s) : s[i] \in 128..191
    /\ Len(s) > 1 =>
         /\ s[2] <= 191
         /\ CASE s[1] = 224 -> s[2] >= 160
              [] s[1] = 237 -> s[2] <= 159
              [] s[1] = 240 -> s[2] >= 144
              [] s[1] = 244 -> s[2] <= 143
              [] OTHER      -> s[2] >= 128
    /\ s[1] \notin 128..193
    /\ s[1] <= 244

(* Only the first sequence of the bytes is looked at.                      *)
isLegalUTF8Sequence(s) ==
    LET length == trailingBytesForUTF8(s[1]) + 1
    IN  length <= Len(s) /\ isLegalUTF8(SubSeq(s, 1, length))

offsetsFromUTF8 == <<0, 12416, 925824, 63447168>>

(* The character of a legal sequence.                                      *)
FromUTF8(s) ==
    CASE Len(s) = 1 -> s[1]
      [] Len(s) = 2 -> s[1] * 64 + s[2] - offsetsFromUTF8[2]
      [] Len(s) = 3 -> s[1] * 4096 + s[2] * 64 + s[3] - offsetsFromUTF8[3]
      [] OTHER      -> s[1] * 262144 + s[2] * 4096 + s[3] * 64 + s[4] - offsetsFromUTF8[4]

BytesToWrite_TooFew(ch) ==
    IF ch <= 128 THEN 1 ELSE IF ch < 2048 THEN 2 ELSE IF ch <= UNI_MAX_BMP THEN 3 ELSE 4

BytesToWrite(ch) ==
    IF ch < 128 THEN 1 ELSE IF ch < 2048 THEN 2 ELSE IF ch <= UNI_MAX_BMP THEN 3 ELSE 4

(* firstByteMark and byteMark say which place a byte has in its sequence.  *)
ToUTF8(ch) ==
    CASE BytesToWrite(ch) = 1 -> <<ch>>
      [] BytesToWrite(ch) = 2 -> <<192 + ch \div 64, 128 + (ch % 64)>>
      [] BytesToWrite(ch) = 3 -> <<224 + ch \div 4096, 128 + ((ch \div 64) % 64), 128 + (ch % 64)>>
      [] OTHER -> <<240 + ch \div 262144, 128 + ((ch \div 4096) % 64),
                    128 + ((ch \div 64) % 64), 128 + (ch % 64)>>

-----------------------------------------------------------------------------
(* UTF-16.                                                                 *)
halfBase == 65536

FromPair(high, low) == (high - 55296) * 1024 + (low - 56320) + halfBase

ToUTF16(ch) ==
    IF ch <= UNI_MAX_BMP THEN <<ch>>
    ELSE <<55296 + (ch - halfBase) \div 1024, 56320 + ((ch - halfBase) % 1024)>>

(* What the two conversions to UTF-16 do with a character they have read.  *)
WriteUTF16(used, ch, room) ==
    IF room < 1 THEN Stop("targetExhausted")
    ELSE IF ch \in Surrogates \/ ch > UNI_MAX_LEGAL_UTF32 THEN Turn(used, <<UNI_REPLACEMENT_CHAR>>)
    ELSE IF room < Len(ToUTF16(ch)) THEN Stop("targetExhausted")
    ELSE Turn(used, ToUTF16(ch))

(* What the two conversions from UTF-16 do to read one: a high surrogate   *)
(* is half of a pair, or stands for itself if the other half is missing.   *)
ReadUTF16(s, Write(_, _)) ==
    IF s[1] \notin HighSurrogates THEN Write(1, s[1])
    ELSE IF Len(s) = 1 THEN Stop("sourceExhausted")
    ELSE IF s[2] \in LowSurrogates THEN Write(2, FromPair(s[1], s[2]))
    ELSE Write(1, s[1])

(* And the two from UTF-8.                                                 *)
ReadUTF8(s, Write(_, _)) ==
    LET length == trailingBytesForUTF8(s[1]) + 1
    IN  IF length > Len(s) THEN Stop("sourceExhausted")
        ELSE IF ~isLegalUTF8(SubSeq(s, 1, length)) THEN Stop("sourceIllegal")
        ELSE Write(length, FromUTF8(SubSeq(s, 1, length)))

-----------------------------------------------------------------------------
(* The conversions: result and what was written to a target of targetsize  *)
(* units.                                                                  *)
WriteUTF8(used, ch, room) ==
    IF room < BytesToWrite(ch) THEN Stop("targetExhausted") ELSE Turn(used, ToUTF8(ch))

ConvertUTF16toUTF8(source, targetsize) ==
    LET TakeTurn(s, room) == ReadUTF16(s, LAMBDA used, ch : WriteUTF8(used, ch, room))
    IN  Convert(TakeTurn, source, targetsize)

(* A number that is no character is replaced, and reported at the end.     *)
ConvertUTF32toUTF8(source, targetsize) ==
    LET TakeTurn(s, room) ==
          IF s[1] <= UNI_MAX_LEGAL_UTF32 THEN WriteUTF8(1, s[1], room)
          ELSE IF room < 3 THEN Stop("targetExhausted")
          ELSE [Turn(1, ToUTF8(UNI_REPLACEMENT_CHAR)) EXCEPT !.result = "sourceIllegal"]
    IN  Convert(TakeTurn, source, targetsize)

ConvertUTF8toUTF16(source, targetsize) ==
    LET TakeTurn(s, room) == ReadUTF8(s, LAMBDA used, ch : WriteUTF16(used, ch, room))
    IN  Convert(TakeTurn, source, targetsize)

ConvertUTF32toUTF16(source, targetsize) ==
    LET TakeTurn(s, room) == WriteUTF16(1, s[1], room)
    IN  Convert(TakeTurn, source, targetsize)

ConvertUTF8toUTF32(source, targetsize) ==
    LET Write(used, ch, room) ==
          IF room < 1 THEN Stop("targetExhausted")
          ELSE IF ch > UNI_MAX_LEGAL_UTF32
            THEN [Turn(used, <<UNI_REPLACEMENT_CHAR>>) EXCEPT !.result = "sourceIllegal"]
          ELSE Turn(used, <<IF ch \in Surrogates THEN UNI_REPLACEMENT_CHAR ELSE ch>>)
        TakeTurn(s, room) == ReadUTF8(s, LAMBDA used, ch : Write(used, ch, room))
    IN  Convert(TakeTurn, source, targetsize)

ConvertUTF16toUTF32(source, targetsize) ==
    LET Write(used, ch, room) ==
          IF room < 1 THEN Stop("targetExhausted") ELSE Turn(used, <<ch>>)
        TakeTurn(s, room) == ReadUTF16(s, LAMBDA used, ch : Write(used, ch, room))
    IN  Convert(TakeTurn, source, targetsize)
=============================================================================
