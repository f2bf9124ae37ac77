----------------------------- MODULE FieldSizes -----------------------------
(***************************************************************************)
(* How many bytes an encoded field takes (codec_encode.c).  A field is     *)
(* given by what its size depends on: the width of its type, or Variable;  *)
(* the size of its name, or NoName; and whether it has an ordinal.         *)
(***************************************************************************)
EXTENDS Integers, Sequences

Variable == -1
NoName   == -1

BytesToHoldSize_OneMore(size) ==
    IF size <= 256 THEN 1 ELSE IF size < 32768 THEN 2 ELSE 4

BytesToHoldSize(size) ==
    IF size < 256 THEN 1 ELSE IF size < 32768 THEN 2 ELSE 4

(* Prefix and type, then the optional parts: an ordinal, and a name behind *)
(* the byte that holds its length.                                         *)
HeaderLength(f) ==
    2 + (IF f.ordinal THEN 2 ELSE 0) + (IF f.name # NoName THEN f.name + 1 ELSE 0)

(* The length in front of the data, where the type does not give it.       *)
PrefixLength(f, size) == IF f.fixedwidth >= 0 THEN 0 ELSE BytesToHoldSize(size)

FieldLength_NoNameByte(f, size) ==
    2 + (IF f.ordinal THEN 2 ELSE 0) + (IF f.name # NoName THEN f.name ELSE 0)
      + PrefixLength(f, size) + size

FieldLength(f, size) == HeaderLength(f) + PrefixLength(f, size) + size

(* The sum of the first n of some sizes, for every n.                      *)
Sums(sizes) ==
    LET sum[n \in 0..Len(sizes)] == IF n = 0 THEN 0 ELSE sum[n - 1] + sizes[n]
    IN  sum

Total(sizes) == Sums(sizes)[Len(sizes)]
=============================================================================
