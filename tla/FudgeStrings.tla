---------------------------- MODULE FudgeStrings ----------------------------
(***************************************************************************)
(* Making, reading and comparing strings: string.c.  A FudgeString is the  *)
(* sequence of its bytes; who holds it is a matter for FudgeMsg and        *)
(* StringUse.  Memory is plentiful, and UTF-16 and UTF-32 come in whole    *)
(* units.                                                                  *)
(***************************************************************************)
EXTENDS Unicode, Results

From(s, i) == SubSeq(s, i + 1, Len(s))

(* FudgeString_convertUTFResultToStatus.                                   *)
StatusOf(result) ==
    CASE result = "conversionOK"    -> "OK"
      [] result = "sourceExhausted" -> "STRING_INCOMPLETE_UNICODE"
      [] OTHER                      -> "STRING_INVALID_UNICODE"

Outcome(c) == IF c.result = "conversionOK" THEN Ok(c.target) ELSE Fail(StatusOf(c.result))

-----------------------------------------------------------------------------
(* Making one.                                                             *)
CreateFromASCII(chars) ==
    IF \A i \in DOMAIN chars : chars[i] < 128 THEN Ok(chars) ELSE Fail("STRING_INVALID_ASCII")

(* chars stands for memory, in which strlen looks for the first zero.      *)
CreateFromASCIIZ(chars) ==
    CreateFromASCII(SubSeq(chars, 1, Min({i \in DOMAIN chars : chars[i] = 0}) - 1))

CreateFromUTF8(bytes) ==
    IF bytes # <<>> /\ ~isLegalUTF8Sequence(bytes) THEN Fail("STRING_INVALID_UNICODE")
    ELSE Ok(bytes)

(* The room is two bytes for each byte of the UTF-16, one for each of the  *)
(* UTF-32.                                                                 *)
CreateFromUTF16(units) == Outcome(ConvertUTF16toUTF8(units, 4 * Len(units)))
CreateFromUTF32(units) == Outcome(ConvertUTF32toUTF8(units, 4 * Len(units)))

-----------------------------------------------------------------------------
(* Reading one.                                                            *)
BOM == <<239, 187, 191>>

QuestionMark == 63
ASCIIof(sequence) ==
    IF Len(sequence) = 1 /\ sequence[1] \in 1..126 THEN sequence[1] ELSE QuestionMark

(* How many bytes the sequence takes that is i bytes into the string.      *)
Used(s, i) == trailingBytesForUTF8(s[i + 1]) + 1

AtBOM(s, i) == IsPrefix(BOM, From(s, i))

(* Three loops over a string, from wherever i is in it.                    *)
GetLength(s) ==
    LET length[i \in 0..Len(s)] ==
          LET rest == length[i + Used(s, i)]
          IN  IF i = Len(s) THEN 0
              ELSE IF i + Used(s, i) > Len(s) \/ rest = -1 THEN -1
              ELSE IF AtBOM(s, i) THEN rest ELSE rest + 1
    IN  length[0]

ConvertToASCIIZ_CountsBOM(s) ==
    LET ascii[i \in 0..Len(s)] ==
          LET rest == ascii[i + Used(s, i)]
          IN  IF i = Len(s) THEN Ok(<<>>)
              ELSE IF i + Used(s, i) > Len(s) THEN Fail("STRING_INCOMPLETE_UNICODE")
              ELSE IF rest.status # "OK" THEN rest
              ELSE Ok(<<ASCIIof(SubSeq(s, i + 1, i + Used(s, i)))>> \o rest.value)
    IN  ascii[0]

ConvertToASCIIZ(s) ==
    LET ascii[i \in 0..Len(s)] ==
          LET rest == ascii[i + Used(s, i)]
          IN  IF i = Len(s) THEN Ok(<<>>)
              ELSE IF i + Used(s, i) > Len(s) THEN Fail("STRING_INCOMPLETE_UNICODE")
              ELSE IF rest.status # "OK" \/ AtBOM(s, i) THEN rest
              ELSE Ok(<<ASCIIof(SubSeq(s, i + 1, i + Used(s, i)))>> \o rest.value)
    IN  ascii[0]

(* FudgeString_copyToASCII: what is in the buffer up to the number it      *)
(* returns.  It stops where the buffer is full, or returns 0 where a       *)
(* sequence is incomplete.                                                 *)
CopyToASCII(buffersize, s) ==
    LET copy[at \in (0..Len(s)) \X (0..buffersize)] ==
          LET i       == at[1]
              room    == at[2]
              skipped == copy[<<i + Used(s, i), room>>]
              rest    == copy[<<i + Used(s, i), room - 1>>]
          IN  IF i = Len(s) \/ room = 0 THEN Ok(<<>>)
              ELSE IF i + Used(s, i) > Len(s) THEN Fail("STRING_INCOMPLETE_UNICODE")
              ELSE IF AtBOM(s, i) THEN skipped
              ELSE IF rest.status # "OK" THEN rest
              ELSE Ok(<<ASCIIof(SubSeq(s, i + 1, i + Used(s, i)))>> \o rest.value)
        whole == copy[<<0, buffersize>>]
    IN  IF whole.status = "OK" THEN whole.value ELSE <<>>

(* The room: two bytes, or four, for each byte of the string.              *)
ConvertToUTF16(s) == Outcome(ConvertUTF8toUTF16(s, Len(s)))
ConvertToUTF32(s) == Outcome(ConvertUTF8toUTF32(s, Len(s)))

(* Here the buffer is the caller's.  A unit is written as soon as there is *)
(* a byte left, so the last one of an odd buffer is half outside.          *)
Copied(c) == IF c.result = "conversionOK" THEN c.target ELSE <<>>

CopyToUTF16(buffersize, s) == Copied(ConvertUTF8toUTF16(s, (buffersize + 1) \div 2))
CopyToUTF32(buffersize, s) == Copied(ConvertUTF8toUTF32(s, (buffersize + 3) \div 4))

-----------------------------------------------------------------------------
(* FudgeString_compare, of pointers that may be null.                      *)
SkipBOM_NotLast(s, i) == IF AtBOM(s, i) /\ Len(s) - i > 3 THEN i + 3 ELSE i

SkipBOM(s, i) == IF AtBOM(s, i) THEN i + 3 ELSE i

CompareBytes(left, right) ==
    LET compare[at \in (0..Len(left)) \X (0..Len(right))] ==
          LET i    == at[1]
              j    == at[2]
              newi == SkipBOM(left, i)
              newj == SkipBOM(right, j)
          IN  IF i = Len(left) THEN (IF j = Len(right) THEN 0 ELSE -1)
              ELSE IF j = Len(right) THEN 1
              ELSE IF newi # i \/ newj # j THEN compare[<<newi, newj>>]
              ELSE IF left[i + 1] # right[j + 1]
                THEN (IF left[i + 1] > right[j + 1] THEN 1 ELSE -1)
              ELSE compare[<<i + 1, j + 1>>]
    IN  compare[<<0, 0>>]

Compare(left, right) == NullsFirst(left, right, CompareBytes)

-----------------------------------------------------------------------------
(* What strings stand for.                                                 *)
IsCharacter(c) == c <= UNI_MAX_LEGAL_UTF32 /\ c \notin Surrogates

(* The first n elements of s, or as many as there are.                     *)
UpTo(n, s) == SubSeq(s, 1, Min({n, Len(s)}))

(* Characters as ASCII text: a question mark for each there is not, but    *)
(* nothing for byte-order markers.                                         *)
ByteOrderMark == 65279     \* U+FEFF

ShownOf(c) ==
    IF c = ByteOrderMark THEN <<>> ELSE IF c \in 1..126 THEN <<c>> ELSE <<QuestionMark>>

Shown(characters) == FlattenSeq([i \in DOMAIN characters |-> ShownOf(characters[i])])

(* A piece of text that contains no byte-order marker and does not end in  *)
(* the beginning of one, as is every character but that.                   *)
Unmarked(chunk) ==
    /\ chunk # <<>>
    /\ \A i \in DOMAIN chunk :
          ~IsPrefix(BOM, From(chunk, i - 1)) /\ ~IsPrefix(From(chunk, i - 1), BOM)

(* The text of a string put together of such pieces and of markers, how    *)
(* many of these it ends in, and the order of two of them.                 *)
TextOf(chunks) ==
    FlattenSeq([i \in DOMAIN chunks |-> IF chunks[i] = BOM THEN <<>> ELSE chunks[i]])

Precedes(l, r) ==
    \/ IsStrictPrefix(l, r)
    \/ \E i \in DOMAIN l \cap DOMAIN r : l[i] < r[i] /\ UpTo(i - 1, l) = UpTo(i - 1, r)

Trailing(chunks) ==
    Cardinality({n \in DOMAIN chunks : \A i \in n..Len(chunks) : chunks[i] = BOM})

OrderOf(l, r) ==
    CASE Precedes(TextOf(l), TextOf(r)) -> -1
      [] Precedes(TextOf(r), TextOf(l)) -> 1
      [] OTHER -> Sign(Trailing(l), Trailing(r))
=============================================================================
