-------------------------- MODULE MsgEncoderProofs --------------------------
(***************************************************************************)
(* Encoding writes exactly what it has measured, allocated and announced,  *)
(* but for the parts of elements that arrays end in.                       *)
(***************************************************************************)
EXTENDS MsgEncoder, WellFoundedInduction, TLAPS

(* FudgeMsg_addFieldOpaque does not compare the number of bytes it is      *)
(* given with the width of the type; the client is to give that number.    *)
WidthsAsRegistered ==
    \A f \in Leaves : f.fixedwidth >= 0 => f.numbytes = f.fixedwidth

FieldKinds == Leaves \cup {Submessage(s) : s \in Msgs}

FrameRecords == [msg : Msgs, done : Nat, start : Nat, length : Nat]

(* The state has the shape MsgEncoder gives it.                            *)
TypeOK ==
    /\ fields \in [Msgs -> Seq(FieldKinds)]
    /\ width \in [Msgs -> Nat \cup {-1}]
    /\ frames \in Seq(FrameRecords)
    /\ room \in Nat
    /\ written \in Nat
    /\ status \in {"none", "running", "OK", "OUT_OF_MEMORY", "OUT_OF_BYTES"}

(* Messages contain none but smaller ones, so lengths are well defined.    *)
Layered ==
    \A m \in Msgs : \A i \in DOMAIN fields[m] :
        fields[m][i].msg \in Msgs => fields[m][i].msg < m

Sizes(m) == [i \in DOMAIN fields[m] |-> EncodedSize(fields[m][i], EncodedLength)]

(* Where the fields of a frame that are done, and the one under way in a   *)
(* frame that is not the innermost, end in the output.                     *)
Reached(fr) == fr.start + Sums(Sizes(fr.msg))[fr.done]

End(fr) == fr.start + fr.length

(* No array in a field, at any depth, ends in part of an element.          *)
WholeField(f) == IF f.msg = Null THEN f.numbytes % f.element = 0 ELSE Whole(f.msg)

(* Nor in the first n fields of a frame.                                   *)
Intact(fr, n) == \A j \in 1..n : WholeField(fields[fr.msg][j])

(* Each submessage is in the field under way of the frame around it, and   *)
(* ends where that does, if nothing is missing before it; the outermost    *)
(* message ends with the allocation.                                       *)
Within(fr, outer) ==
    /\ outer.done > 0
    /\ fields[outer.msg][outer.done].msg = fr.msg
    /\ End(fr) <= Reached(outer)
    /\ End(fr) = Reached(outer) <=> Intact(outer, outer.done - 1)

FrameFits(fs, i) ==
    /\ fs[i].done \in 0..Len(fields[fs[i].msg])
    /\ fs[i].length = EncodedLength[fs[i].msg]
    /\ End(fs[i]) <= room
    /\ i = Len(fs) => End(fs[i]) = room
    /\ i # Len(fs) => Within(fs[i], fs[i + 1])

(* The output is where the innermost frame has got to, or short of that by *)
(* what is missing.                                                        *)
WrittenTo(fr, end) ==
    /\ end <= Reached(fr)
    /\ end = Reached(fr) <=> Intact(fr, fr.done)

(* The frames fit into each other, and the output ends in the innermost.   *)
FramesOK ==
    /\ status = "running" <=> frames # <<>>
    /\ frames = <<>> => written = 0 /\ room = 0
    /\ frames # <<>> => WrittenTo(frames[1], written)
    /\ \A i \in 1..Len(frames) : FrameFits(frames, i)

IInv == TypeOK /\ Layered /\ CachedWidthExact /\ FramesOK

-----------------------------------------------------------------------------
(* Recursion over natural numbers.                                         *)

(* A set of natural numbers that is not empty has a least element.         *)
LEMMA Least ==
    ASSUME NEW T \in SUBSET Nat, T # {}
    PROVE  \E n \in T : \A k \in T : n <= k
<1>1. PICK n \in T : \A k \in T : ~(<<k, n>> \in OpToRel(<, Nat))
  BY NatLessThanWellFounded, WFMin
<1>2. \A k \in T : ~(k < n)
  BY <1>1 DEF OpToRel
<1>3. n \in Nat /\ \A k \in T : k \in Nat /\ n <= k
  BY <1>2
<1> QED
  BY <1>3

(* F makes the right-hand side of a recursive definition from its left.    *)
(* The value at n depends on values below n.                               *)
DependsBelow(S, V, F) ==
    /\ S \subseteq Nat
    /\ V # {}
    /\ F \in [[S -> V] -> [S -> V]]
    /\ \A n \in S : \A g, h \in [S -> V] :
           (\A k \in S : k < n => g[k] = h[k]) => F[g][n] = F[h][n]

(* There is a function that such a definition defines.                     *)
LEMMA Recursion ==
    ASSUME NEW S, NEW V, NEW F, DependsBelow(S, V, F)
    PROVE  \E f \in [S -> V] : F[f] = f
<1> USE DEF DependsBelow
<1> DEFINE GoodTo(g, n) == \A k \in S : k < n => F[g][k] = g[k]
           Bad == {n \in Nat : ~ \E g \in [S -> V] : GoodTo(g, n)}
           Differ(g, h, n) == {k \in S : k < n /\ g[k] # h[k]}
<1>1. ASSUME NEW g \in [S -> V], NEW h \in [S -> V], NEW n \in Nat,
             GoodTo(g, n), GoodTo(h, n)
      PROVE  \A k \in S : k < n => g[k] = h[k]
  <2> SUFFICES ASSUME Differ(g, h, n) # {} PROVE FALSE
    OBVIOUS
  <2>1. Differ(g, h, n) \in SUBSET Nat
    OBVIOUS
  <2>2. PICK k \in Differ(g, h, n) : \A j \in Differ(g, h, n) : k <= j
    <3> HIDE DEF Differ
    <3> QED BY <2>1, Least
  <2>3. k \in S /\ k \in Nat /\ k < n /\ g[k] # h[k]
    OBVIOUS
  <2>4. \A j \in S : j < k => g[j] = h[j]
    BY <2>2, <2>3
  <2>5. F[g][k] = F[h][k]
    BY <2>3, <2>4
  <2> QED
    BY <1>1, <2>3, <2>5
<1>2. ASSUME NEW n \in Nat PROVE \E g \in [S -> V] : GoodTo(g, n)
  <2> SUFFICES ASSUME Bad # {} PROVE FALSE
    OBVIOUS
  <2>1. PICK b \in Bad : \A k \in Bad : b <= k
    <3>1. Bad \in SUBSET Nat
      OBVIOUS
    <3> HIDE DEF Bad
    <3> QED BY <3>1, Least
  <2>2. PICK v \in V : TRUE
    OBVIOUS
  <2>3. b # 0
    <3>1. [s \in S |-> v] \in [S -> V] /\ GoodTo([s \in S |-> v], 0)
      OBVIOUS
    <3> QED BY <3>1
  <2>4. PICK g \in [S -> V] : GoodTo(g, b - 1)
    <3>1. b \in Nat /\ b - 1 \in Nat /\ ~(b <= b - 1)
      BY <2>3
    <3>2. b - 1 \notin Bad
      <4> HIDE DEF Bad
      <4> QED BY <2>1, <3>1
    <3> QED BY <3>1, <3>2
  <2> DEFINE h == [k \in S |-> F[g][k]]
  <2>5. F[g] \in [S -> V]
    OBVIOUS
  <2>6. h \in [S -> V] /\ \A k \in S : h[k] = F[g][k]
    BY <2>5
  <2>7. \A k \in S : k < b - 1 => h[k] = g[k]
    BY <2>4, <2>6
  <2>8. GoodTo(h, b)
    <3> SUFFICES ASSUME NEW k \in S, k < b PROVE F[h][k] = h[k]
      OBVIOUS
    <3> HIDE DEF h
    <3>1. \A j \in S : j < k => h[j] = g[j]
      BY <2>7
    <3> QED BY <3>1, <2>6
  <2> QED
    BY <2>6, <2>8
<1> DEFINE Upto(n) == CHOOSE g \in [S -> V] : GoodTo(g, n + 1)
           f == [n \in S |-> Upto(n)[n]]
<1>3. \A n \in S : Upto(n) \in [S -> V] /\ GoodTo(Upto(n), n + 1)
  <2> TAKE n \in S
  <2> HIDE DEF GoodTo
  <2>1. n + 1 \in Nat
    OBVIOUS
  <2>2. \E g \in [S -> V] : GoodTo(g, n + 1)
    BY <1>2, <2>1
  <2> QED BY <2>2
<1>4. f \in [S -> V] /\ \A n \in S : f[n] = Upto(n)[n]
  <2> HIDE DEF GoodTo, Upto
  <2> QED BY <1>3
<1>5. ASSUME NEW n \in S PROVE F[f][n] = f[n]
  <2> DEFINE g == Upto(n)
  <2>1. g \in [S -> V] /\ GoodTo(g, n + 1)
    BY <1>3
  <2>2. ASSUME NEW k \in S, k < n PROVE f[k] = g[k]
    <3>1. Upto(k) \in [S -> V] /\ GoodTo(Upto(k), k + 1) /\ f[k] = Upto(k)[k]
      BY <1>3, <1>4
    <3> HIDE DEF Upto, f, g
    <3>2. GoodTo(g, k + 1)
      BY <2>1, <2>2
    <3> HIDE DEF GoodTo
    <3>3. \A j \in S : j < k + 1 => Upto(k)[j] = g[j]
      BY <3>1, <3>2, <2>1, <1>1
    <3>4. k \in S /\ k < k + 1
      OBVIOUS
    <3>5. Upto(k)[k] = g[k]
      BY <3>3, <3>4
    <3> QED BY <3>1, <3>5
  <2>3. f[n] = g[n]
    BY <1>4
  <2> HIDE DEF Upto, f, g
  <2> QED
    BY <1>4, <2>1, <2>2, <2>3
<1>6. f \in [S -> V] /\ \A n \in S : F[f][n] = f[n]
  BY <1>4, <1>5
<1> HIDE DEF GoodTo, Bad, Differ, Upto, f
<1>7. F[f] \in [S -> V]
  BY <1>6
<1>8. F[f] = [n \in S |-> F[f][n]] /\ f = [n \in S |-> f[n]]
  BY <1>6, <1>7
<1>9. [n \in S |-> F[f][n]] = [n \in S |-> f[n]]
  BY <1>6
<1>10. F[f] = f
  BY <1>8, <1>9
<1> QED
  BY <1>6, <1>10

-----------------------------------------------------------------------------
(* Sums of sizes, and the sizes of fields.                                 *)

(* Sums is what its definition says.                                       *)
LEMMA SumsStepByStep ==
    ASSUME NEW sizes \in Seq(Nat)
    PROVE  /\ Sums(sizes) \in [0..Len(sizes) -> Nat]
           /\ Sums(sizes)[0] = 0
           /\ \A n \in 1..Len(sizes) : Sums(sizes)[n] = Sums(sizes)[n - 1] + sizes[n]
<1> DEFINE S == 0..Len(sizes)
           Next1(g, n) == IF n = 0 THEN 0 ELSE g[n - 1] + sizes[n]
           F == [g \in [S -> Nat] |-> [n \in S |-> Next1(g, n)]]
           sums == Sums(sizes)
<1>1. Len(sizes) \in Nat /\ S \subseteq Nat
  OBVIOUS
<1>2. \A n \in S : n # 0 => n - 1 \in S /\ n \in 1..Len(sizes) /\ sizes[n] \in Nat
  BY <1>1
<1>3. \A g \in [S -> Nat] : \A n \in S : Next1(g, n) \in Nat
  <2> TAKE g \in [S -> Nat]
  <2> TAKE n \in S
  <2> HIDE DEF S
  <2> QED BY <1>2
<1>4. F \in [[S -> Nat] -> [S -> Nat]]
  <2> HIDE DEF S, Next1
  <2> QED BY <1>3
<1>5. \A n \in S : \A g, h \in [S -> Nat] :
          (\A k \in S : k < n => g[k] = h[k]) => F[g][n] = F[h][n]
  <2> TAKE n \in S
  <2> TAKE g, h \in [S -> Nat]
  <2> HAVE \A k \in S : k < n => g[k] = h[k]
  <2>1. n # 0 => n - 1 \in S /\ n - 1 < n
    BY <1>2, <1>1
  <2>2. Next1(g, n) = Next1(h, n)
    <3> HIDE DEF S
    <3> QED BY <2>1
  <2> HIDE DEF S, Next1
  <2> QED BY <2>2
<1>6. PICK f \in [S -> Nat] : F[f] = f
  <2>1. S \subseteq Nat /\ Nat # {}
    BY <1>1
  <2> HIDE DEF S, F
  <2>2. DependsBelow(S, Nat, F)
    BY <2>1, <1>4, <1>5 DEF DependsBelow
  <2> QED BY <2>2, Recursion
<1>7. f = [n \in S |-> Next1(f, n)]
  <2> HIDE DEF S, Next1
  <2> QED BY <1>6
<1>8. sums = [n \in S |-> Next1(sums, n)]
  <2>1. sums = CHOOSE sum : sum = [n \in S |-> Next1(sum, n)]
    BY DEF Sums
  <2> HIDE DEF S, Next1, sums
  <2> QED BY <1>7, <2>1
<1> HIDE DEF sums
<1>9. \A n \in S : sums[n] \in Nat
  <2> DEFINE T == {n \in S : sums[n] \notin Nat}
  <2> SUFFICES ASSUME T # {} PROVE FALSE
    OBVIOUS
  <2>1. PICK n \in T : \A k \in T : n <= k
    <3>1. T \in SUBSET Nat
      BY <1>1
    <3> HIDE DEF T
    <3> QED BY <3>1, Least
  <2>2. n # 0 => n - 1 \in S /\ sizes[n] \in Nat /\ ~(n <= n - 1)
    BY <1>1, <1>2
  <2>3. n # 0 => sums[n - 1] \in Nat
    BY <2>1, <2>2
  <2>4. sums[n] = Next1(sums, n)
    BY <1>8
  <2>5. n \in S /\ sums[n] \notin Nat
    OBVIOUS
  <2> QED
    BY <2>2, <2>3, <2>4, <2>5
<1>10. sums \in [S -> Nat]
  <2> HIDE DEF S, Next1
  <2> QED BY <1>8, <1>9
<1>11. sums[0] = 0
  BY <1>8, <1>1
<1>12. \A n \in 1..Len(sizes) : sums[n] = sums[n - 1] + sizes[n]
  BY <1>8, <1>1
<1> QED
  BY <1>10, <1>11, <1>12 DEF sums

(* The sum of the first ones is at most that of all.                       *)
LEMMA SumsGrow ==
    ASSUME NEW sizes \in Seq(Nat)
    PROVE  /\ Total(sizes) \in Nat
           /\ \A n \in 0..Len(sizes) : Sums(sizes)[n] <= Total(sizes)
<1> DEFINE len == Len(sizes)
           sums == Sums(sizes)
           T == {d \in Nat : d <= len /\ sums[len] < sums[len - d]}
<1>1. len \in Nat
  OBVIOUS
<1>2. /\ \A n \in 0..len : sums[n] \in Nat
      /\ \A n \in 1..len : sums[n] = sums[n - 1] + sizes[n]
  BY SumsStepByStep
<1>3. \A n \in 1..len : sizes[n] \in Nat
  OBVIOUS
<1> HIDE DEF len, sums
<1>4. T = {}
  <2> SUFFICES ASSUME T # {} PROVE FALSE
    OBVIOUS
  <2>1. PICK d \in T : \A e \in T : d <= e
    <3>1. T \in SUBSET Nat
      OBVIOUS
    <3> HIDE DEF T
    <3> QED BY <3>1, Least
  <2>2. d \in Nat /\ d <= len /\ sums[len] < sums[len - d]
    OBVIOUS
  <2>3. sums[len] \in Nat
    BY <1>1, <1>2
  <2>4. d # 0
    BY <2>2, <2>3, <1>1
  <2>5. d - 1 \in Nat /\ d - 1 <= len /\ ~(d <= d - 1) /\ len - d + 1 \in 1..len
    BY <2>2, <2>4, <1>1
  <2>6. ~(sums[len] < sums[len - (d - 1)])
    BY <2>1, <2>5
  <2>7. len - (d - 1) = len - d + 1 /\ (len - d + 1) - 1 = len - d /\ len - d \in 0..len
    BY <2>2, <2>5, <1>1
  <2>8. sums[len - d + 1] = sums[len - d] + sizes[len - d + 1]
    BY <2>5, <2>7, <1>2
  <2>9. sums[len - d + 1] \in Nat /\ sums[len - d] \in Nat /\ sizes[len - d + 1] \in Nat
    BY <2>5, <2>7, <1>1, <1>2, <1>3
  <2> QED
    BY <2>2, <2>3, <2>6, <2>7, <2>8, <2>9
<1>5. ASSUME NEW n \in 0..len PROVE sums[n] <= sums[len]
  <2>1. len - n \in Nat /\ len - n <= len /\ len - (len - n) = n
    BY <1>1
  <2>2. ~(sums[len] < sums[n])
    BY <2>1, <1>4
  <2> QED
    BY <2>2, <1>1, <1>2
<1> QED
  BY <1>1, <1>2, <1>5 DEF Total, len, sums

(* The size of a field depends on that of the message in it, if any.       *)
LEMMA SizeOfField ==
    ASSUME NEW f \in FieldKinds, NEW g, f.msg \in Msgs => g[f.msg] \in Nat
    PROVE  /\ EncodedSize(f, g) \in Nat
           /\ \A h : (f.msg \in Msgs => h[f.msg] = g[f.msg])
                      => EncodedSize(f, h) = EncodedSize(f, g)
<1> DEFINE size == IF f.msg = Null THEN f.numbytes ELSE g[f.msg]
<1>1. size \in Nat /\ f.ordinal \in BOOLEAN /\ (f.name = NoName \/ f.name \in Nat)
      /\ f.msg \in Msgs \cup {Null}
  <2>1. CASE f \in Leaves
    BY <2>1, MsgEncoderAssumption
  <2>2. CASE f \in {Submessage(s) : s \in Msgs}
    <3>1. PICK s \in Msgs : f = Submessage(s)
      BY <2>2
    <3>2. f.msg = s /\ f.ordinal = FALSE /\ f.name = NoName
      BY <3>1 DEF Submessage
    <3> QED BY <3>2, MsgEncoderAssumption
  <2> QED BY <2>1, <2>2 DEF FieldKinds
<1>2. EncodedSize(f, g) \in Nat
  BY <1>1 DEF EncodedSize
<1>3. ASSUME NEW h, f.msg \in Msgs => h[f.msg] = g[f.msg]
      PROVE  EncodedSize(f, h) = EncodedSize(f, g)
  BY <1>1, <1>3 DEF EncodedSize
<1> QED
  BY <1>2, <1>3

-----------------------------------------------------------------------------
(* The recursive definitions of MsgEncoder.                                *)

(* What a field of a message is.                                           *)
LEMMA FieldIs ==
    ASSUME TypeOK, Layered, NEW m \in Msgs
    PROVE  /\ Len(fields[m]) \in Nat
           /\ DOMAIN fields[m] = 1..Len(fields[m])
           /\ \A i \in DOMAIN fields[m] :
                 /\ fields[m][i] \in FieldKinds
                 /\ fields[m][i].msg \in Msgs => fields[m][i].msg < m
BY DEF TypeOK, Layered

(* The length of a message is the sum of the sizes of its fields.          *)
LengthsOK ==
    /\ EncodedLength \in [Msgs -> Nat]
    /\ \A m \in Msgs : /\ Sizes(m) \in Seq(Nat)
                       /\ Len(Sizes(m)) = Len(fields[m])
                       /\ EncodedLength[m] = Total(Sizes(m))

(* EncodedLength is defined: a message's length is the total of its        *)
(* fields' sizes.                                                          *)
LEMMA LengthsDefined == TypeOK /\ Layered => LengthsOK
<1> SUFFICES ASSUME TypeOK, Layered PROVE LengthsOK
  OBVIOUS
<1> DEFINE SizesBy(g, m) == [i \in DOMAIN fields[m] |-> EncodedSize(fields[m][i], g)]
           Body(g, m) == Total(SizesBy(g, m))
           F == [g \in [Msgs -> Nat] |-> [m \in Msgs |-> Body(g, m)]]
<1>1. ASSUME NEW m \in Msgs, NEW g, \A k \in Msgs : k < m => g[k] \in Nat
      PROVE  /\ SizesBy(g, m) \in Seq(Nat)
             /\ Len(SizesBy(g, m)) = Len(fields[m])
             /\ Body(g, m) \in Nat
  <2>1. \A i \in DOMAIN fields[m] : EncodedSize(fields[m][i], g) \in Nat
    BY <1>1, FieldIs, SizeOfField
  <2>2. SizesBy(g, m) \in Seq(Nat) /\ Len(SizesBy(g, m)) = Len(fields[m])
    BY <2>1, FieldIs
  <2> HIDE DEF SizesBy
  <2> QED BY <2>2, SumsGrow
<1>2. ASSUME NEW m \in Msgs, NEW g, NEW h,
             \A k \in Msgs : k < m => g[k] \in Nat /\ h[k] = g[k]
      PROVE  Body(h, m) = Body(g, m)
  <2>1. \A i \in DOMAIN fields[m] : EncodedSize(fields[m][i], h) = EncodedSize(fields[m][i], g)
    BY <1>2, FieldIs, SizeOfField
  <2>2. SizesBy(h, m) = SizesBy(g, m)
    BY <2>1
  <2> QED BY <2>2
<1>3. DependsBelow(Msgs, Nat, F)
  <2> HIDE DEF Body
  <2>1. \A g \in [Msgs -> Nat] : \A m \in Msgs : Body(g, m) \in Nat
    BY <1>1
  <2>2. F \in [[Msgs -> Nat] -> [Msgs -> Nat]]
    BY <2>1
  <2>3. \A m \in Msgs : \A g, h \in [Msgs -> Nat] :
            (\A k \in Msgs : k < m => g[k] = h[k]) => Body(g, m) = Body(h, m)
    BY <1>2
  <2>4. \A m \in Msgs : \A g, h \in [Msgs -> Nat] :
            (\A k \in Msgs : k < m => g[k] = h[k]) => F[g][m] = F[h][m]
    BY <2>3
  <2> HIDE DEF F
  <2> QED BY <2>2, <2>4, MsgEncoderAssumption DEF DependsBelow
<1>4. PICK f \in [Msgs -> Nat] : F[f] = f
  <2> HIDE DEF F
  <2> QED BY <1>3, Recursion
<1>5. f = [m \in Msgs |-> Body(f, m)]
  <2> HIDE DEF Body
  <2> QED BY <1>4
<1>6. EncodedLength = [m \in Msgs |-> Body(EncodedLength, m)]
  <2>1. EncodedLength = CHOOSE g : g = [m \in Msgs |-> Body(g, m)]
    BY DEF EncodedLength
  <2> HIDE DEF Body
  <2> QED BY <1>5, <2>1
<1>7. \A m \in Msgs : EncodedLength[m] = Body(EncodedLength, m)
  <2> HIDE DEF Body
  <2> QED BY <1>6
<1>8. \A m \in Msgs : EncodedLength[m] \in Nat
  <2> DEFINE T == {m \in Msgs : EncodedLength[m] \notin Nat}
  <2> SUFFICES ASSUME T # {} PROVE FALSE
    OBVIOUS
  <2>1. PICK m \in T : \A k \in T : m <= k
    <3>1. T \in SUBSET Nat
      BY MsgEncoderAssumption
    <3> HIDE DEF T
    <3> QED BY <3>1, Least
  <2>2. \A k \in Msgs : k < m => EncodedLength[k] \in Nat
    BY <2>1, MsgEncoderAssumption
  <2> HIDE DEF Body
  <2> QED BY <1>1, <1>7, <2>2
<1>9. EncodedLength \in [Msgs -> Nat]
  <2> HIDE DEF Body
  <2> QED BY <1>6, <1>8
<1> QED
  BY <1>1, <1>7, <1>8, <1>9 DEF LengthsOK, Sizes

(* As long as the caches are right, what is measured is what is written.   *)
MeasuresOK == \A m \in Msgs : MessageLength[m] = EncodedLength[m]

(* What getFieldLength says of a field is what encoding it writes, if the  *)
(* length of the message in it is right.                                   *)
LEMMA SizeMeasured ==
    ASSUME WidthsAsRegistered, NEW f \in FieldKinds, NEW g, NEW h,
           f.msg \in Msgs => g[f.msg] \in Nat /\ h[f.msg] = g[f.msg]
    PROVE  FieldLength(f, DataLength(f, h)) = EncodedSize(f, g)
<1>1. CASE f \in Leaves
  <2>1. /\ f.msg = Null /\ f.numbytes \in Nat /\ f.ordinal \in BOOLEAN
        /\ f.name = -1 \/ f.name \in Nat
        /\ f.fixedwidth = -1 \/ f.fixedwidth \in Nat
        /\ f.fixedwidth >= 0 => f.numbytes = f.fixedwidth
    BY <1>1, MsgEncoderAssumption DEF WidthsAsRegistered, NoName, Variable
  <2> QED
    BY <2>1 DEF FieldLength, HeaderLength, PrefixLength, BytesToHoldSize, DataLength,
                EncodedSize, NoName, Variable
<1>2. CASE f \in {Submessage(s) : s \in Msgs}
  <2>1. PICK s \in Msgs : f = Submessage(s)
    BY <1>2
  <2>2. f.msg = s /\ f.ordinal = FALSE /\ f.name = -1 /\ f.fixedwidth = -1 /\ s # Null
    BY <2>1, MsgEncoderAssumption DEF Submessage, NoName, Variable
  <2>3. g[s] \in Nat /\ h[s] = g[s]
    BY <2>2
  <2> QED
    BY <2>2, <2>3 DEF FieldLength, HeaderLength, PrefixLength, BytesToHoldSize, DataLength,
                EncodedSize, NoName, Variable
<1> QED
  BY <1>1, <1>2 DEF FieldKinds

(* getMessageLength measures right, through right caches.                  *)
LEMMA MeasuresRight ==
    ASSUME WidthsAsRegistered, TypeOK, Layered, CachedWidthExact
    PROVE  MeasuresOK
<1> DEFINE MeasuredSizes(g, m) ==
               [i \in DOMAIN fields[m] |-> FieldLength(fields[m][i], DataLength(fields[m][i], g))]
           Body(g, m) == IF Cached(m) THEN width[m] ELSE Total(MeasuredSizes(g, m))
<1>1. LengthsOK
  BY LengthsDefined
<1>2. ASSUME NEW m \in Msgs, NEW g, \A k \in Msgs : k < m => g[k] = EncodedLength[k]
      PROVE  Body(g, m) = EncodedLength[m]
  <2>1. CASE Cached(m)
    BY <2>1 DEF CachedWidthExact, Cached
  <2>2. CASE ~ Cached(m)
    <3>1. \A i \in DOMAIN fields[m] : FieldLength(fields[m][i], DataLength(fields[m][i], g))
                                        = EncodedSize(fields[m][i], EncodedLength)
      BY <1>1, <1>2, FieldIs, SizeMeasured DEF LengthsOK
    <3>2. MeasuredSizes(g, m) = Sizes(m)
      BY <3>1 DEF Sizes
    <3> HIDE DEF MeasuredSizes
    <3> QED BY <2>2, <3>2, <1>1 DEF LengthsOK
  <2> QED BY <2>1, <2>2
<1>3. EncodedLength = [m \in Msgs |-> Body(EncodedLength, m)]
  <2>1. \A m \in Msgs : Body(EncodedLength, m) = EncodedLength[m]
    BY <1>2
  <2> HIDE DEF Body
  <2> QED BY <2>1, <1>1 DEF LengthsOK
<1>4. MessageLength = [m \in Msgs |-> Body(MessageLength, m)]
  <2>1. MessageLength = CHOOSE g : g = [m \in Msgs |-> Body(g, m)]
    BY DEF MessageLength
  <2> HIDE DEF Body
  <2> QED BY <1>3, <2>1
<1>5. \A m \in Msgs : MessageLength[m] = Body(MessageLength, m)
  <2> HIDE DEF Body
  <2> QED BY <1>4
<1> HIDE DEF Body
<1> DEFINE T == {m \in Msgs : MessageLength[m] # EncodedLength[m]}
<1> SUFFICES ASSUME T # {} PROVE FALSE
  BY DEF MeasuresOK
<1>6. PICK m \in T : \A k \in T : m <= k
  <2>1. T \in SUBSET Nat
    BY MsgEncoderAssumption
  <2> HIDE DEF T
  <2> QED BY <2>1, Least
<1>7. \A k \in Msgs : k < m => MessageLength[k] = EncodedLength[k]
  BY <1>6, MsgEncoderAssumption
<1> QED
  BY <1>2, <1>5, <1>7

(* A message contains itself and what the messages in it contain.          *)
ContentsOK ==
    \A m \in Msgs :
        /\ m \in Contents[m]
        /\ \A c \in Children(m) : Contents[c] \subseteq Contents[m]
        /\ \A k \in Contents[m] : k = m \/ \E c \in Children(m) : k \in Contents[c]

(* Contents is defined.                                                    *)
LEMMA ContentsDefined == TypeOK /\ Layered => ContentsOK
<1> SUFFICES ASSUME TypeOK, Layered PROVE ContentsOK
  OBVIOUS
<1> DEFINE Body(g, m) == {m} \cup UNION {g[c] : c \in Children(m)}
           V == SUBSET Msgs
           F == [g \in [Msgs -> V] |-> [m \in Msgs |-> Body(g, m)]]
<1>1. \A m \in Msgs : \A c \in Children(m) : c \in Msgs /\ c < m
  <2> TAKE m \in Msgs
  <2> TAKE c \in Children(m)
  <2>1. PICK i \in DOMAIN fields[m] : c = fields[m][i].msg /\ c # Null
    BY DEF Children, ToSet
  <2>2. c \in Msgs
    <3>1. fields[m][i] \in FieldKinds
      BY FieldIs
    <3>2. CASE fields[m][i] \in Leaves
      BY <2>1, <3>2, MsgEncoderAssumption
    <3>3. CASE fields[m][i] \in {Submessage(s) : s \in Msgs}
      BY <2>1, <3>3 DEF Submessage
    <3> QED BY <3>1, <3>2, <3>3 DEF FieldKinds
  <2> QED BY <2>1, <2>2, FieldIs
<1>2. DependsBelow(Msgs, V, F)
  <2>1. \A g \in [Msgs -> V] : \A m \in Msgs : Body(g, m) \in V
    BY <1>1
  <2>2. \A m \in Msgs : \A g, h \in [Msgs -> V] :
            (\A k \in Msgs : k < m => g[k] = h[k]) => Body(g, m) = Body(h, m)
    <3> TAKE m \in Msgs
    <3> TAKE g, h \in [Msgs -> V]
    <3> HAVE \A k \in Msgs : k < m => g[k] = h[k]
    <3>1. {g[c] : c \in Children(m)} = {h[c] : c \in Children(m)}
      BY <1>1
    <3> QED BY <3>1
  <2> HIDE DEF Body
  <2>3. F \in [[Msgs -> V] -> [Msgs -> V]]
    BY <2>1
  <2>4. \A m \in Msgs : \A g, h \in [Msgs -> V] :
            (\A k \in Msgs : k < m => g[k] = h[k]) => F[g][m] = F[h][m]
    BY <2>2
  <2>5. V # {}
    OBVIOUS
  <2> HIDE DEF F, V
  <2> QED BY <2>3, <2>4, <2>5, MsgEncoderAssumption DEF DependsBelow
<1>3. PICK f \in [Msgs -> V] : F[f] = f
  <2> HIDE DEF F, V
  <2> QED BY <1>2, Recursion
<1>4. f = [m \in Msgs |-> Body(f, m)]
  <2> HIDE DEF Body, V
  <2> QED BY <1>3
<1>5. Contents = [m \in Msgs |-> Body(Contents, m)]
  <2>1. Contents = CHOOSE g : g = [m \in Msgs |-> Body(g, m)]
    BY DEF Contents
  <2> HIDE DEF Body
  <2> QED BY <1>4, <2>1
<1>6. \A m \in Msgs : Contents[m] = Body(Contents, m)
  <2> HIDE DEF Body
  <2> QED BY <1>5
<1> QED
  BY <1>6 DEF ContentsOK

(* A message is whole if each of its fields is.                            *)
LEMMA WholeByFields ==
    ASSUME TypeOK, Layered, NEW m \in Msgs
    PROVE  Whole(m) <=> \A j \in 1..Len(fields[m]) : WholeField(fields[m][j])
<1> DEFINE Whole1(c) == \A f \in ToSet(fields[c]) : f.numbytes % f.element = 0
<1>1. ContentsOK
  BY ContentsDefined
<1>2. /\ fields[m] \in Seq(FieldKinds)
      /\ ToSet(fields[m]) = {fields[m][j] : j \in 1..Len(fields[m])}
  BY DEF TypeOK, ToSet
<1>3. \A k \in Msgs : Whole(k) <=> \A c \in Contents[k] : Whole1(c)
  BY DEF Whole
<1>4. Children(m) = {c \in Msgs : \E f \in ToSet(fields[m]) : f.msg = c}
  <2>1. \A f \in FieldKinds : f.msg \in Msgs \/ f.msg = Null
    BY MsgEncoderAssumption DEF FieldKinds, Submessage
  <2> QED BY <1>2, <2>1, MsgEncoderAssumption DEF Children
<1>5. \A f \in ToSet(fields[m]) : f.msg \in Msgs => f.numbytes % f.element = 0
  <2>1. \A f \in FieldKinds : f.msg \in Msgs => f \notin Leaves
    BY MsgEncoderAssumption
  <2>2. \A s \in Msgs : Submessage(s).numbytes % Submessage(s).element = 0
    BY DEF Submessage
  <2> QED BY <1>2, <2>1, <2>2 DEF FieldKinds
<1>6. ASSUME NEW f \in ToSet(fields[m])
      PROVE  WholeField(f) <=> f.numbytes % f.element = 0 /\ (f.msg # Null => Whole(f.msg))
  <2>1. f.msg # Null => f.msg \in Msgs
    BY <1>4 DEF Children
  <2> QED BY <1>5, <2>1 DEF WholeField
<1>7. Whole(m) <=> Whole1(m) /\ \A c \in Children(m) : Whole(c)
  <2> HIDE DEF Whole1
  <2> QED BY <1>1, <1>3, <1>4 DEF ContentsOK
<1>8. Whole(m) <=> \A f \in ToSet(fields[m]) : WholeField(f)
  <2>1. \A f \in ToSet(fields[m]) : f.msg # Null <=> f.msg \in Children(m)
    BY <1>4, MsgEncoderAssumption DEF Children
  <2>2. \A c \in Children(m) : \E f \in ToSet(fields[m]) : f.msg = c /\ c # Null
    BY DEF Children
  <2> QED BY <1>6, <1>7, <2>1, <2>2
<1> QED
  BY <1>2, <1>8

-----------------------------------------------------------------------------
(* The steps.                                                              *)

(* Lengths and sizes depend on nothing but the fields.                     *)
LEMMA SameFields ==
    ASSUME fields' = fields
    PROVE  EncodedLength' = EncodedLength /\ \A m : Sizes(m)' = Sizes(m)
<1>1. EncodedLength' = EncodedLength
  BY DEF EncodedLength
<1> QED
  BY <1>1 DEF Sizes

(* Nothing has been written yet, and no width is cached.                   *)
LEMMA InitOK == Init => IInv
<1> SUFFICES ASSUME Init PROVE IInv
  OBVIOUS
<1> USE DEF Init
<1>1. TypeOK
  BY DEF TypeOK
<1>2. Layered
  BY DEF Layered
<1>3. CachedWidthExact
  BY DEF CachedWidthExact
<1>4. FramesOK
  BY DEF FramesOK
<1> QED
  BY <1>1, <1>2, <1>3, <1>4 DEF IInv

(* Adding to m changes the lengths of the messages that contain m only,    *)
(* and none of these has a cached width.                                   *)
LEMMA AddFieldKeeps ==
    ASSUME IInv, ~ EditsSubmessages, NEW m \in Msgs, NEW f \in FieldKinds,
           f.msg \in Msgs => f.msg < m, AddField(m, f)
    PROVE  IInv'
<1> USE DEF AddField
<1>1. TypeOK /\ Layered /\ CachedWidthExact /\ FramesOK
  BY DEF IInv
<1>2. TypeOK'
  BY <1>1 DEF TypeOK
<1>3. /\ fields' \in [Msgs -> Seq(FieldKinds)]
      /\ \A n \in Msgs : n # m => fields'[n] = fields[n]
      /\ fields'[m] = Append(fields[m], f)
  BY <1>1, <1>2 DEF TypeOK
<1>4. Layered'
  <2> SUFFICES ASSUME NEW n \in Msgs, NEW i \in DOMAIN fields'[n], fields'[n][i].msg \in Msgs
               PROVE  fields'[n][i].msg < n
    BY DEF Layered
  <2>1. CASE n # m
    BY <2>1, <1>1, <1>3 DEF Layered
  <2>2. CASE n = m
    <3>1. fields[m] \in Seq(FieldKinds)
      BY <1>1 DEF TypeOK
    <3>2. i \in 1..(Len(fields[m]) + 1) /\ fields'[m][i] = Append(fields[m], f)[i]
      BY <2>2, <1>3, <3>1
    <3>3. CASE i = Len(fields[m]) + 1
      BY <2>2, <3>1, <3>2, <3>3
    <3>4. CASE i \in DOMAIN fields[m]
      BY <2>2, <3>1, <3>2, <3>4, <1>1 DEF Layered
    <3> QED BY <3>1, <3>2, <3>3, <3>4
  <2> QED BY <2>1, <2>2
<1>5. LengthsOK /\ ContentsOK
  BY <1>1, LengthsDefined, ContentsDefined
<1>6. LengthsOK'
  BY <1>2, <1>4, LengthsDefined, PTL
<1>7. \A n \in Msgs : m \notin Contents[n] => EncodedLength'[n] = EncodedLength[n]
  <2> DEFINE T == {n \in Msgs : m \notin Contents[n] /\ EncodedLength'[n] # EncodedLength[n]}
  <2> SUFFICES ASSUME T # {} PROVE FALSE
    OBVIOUS
  <2>1. PICK n \in T : \A k \in T : n <= k
    <3>1. T \in SUBSET Nat
      BY MsgEncoderAssumption
    <3> HIDE DEF T
    <3> QED BY <3>1, Least
  <2>2. n \in Msgs /\ m \notin Contents[n]
    OBVIOUS
  <2>3. n # m /\ fields'[n] = fields[n]
    BY <2>2, <1>3, <1>5 DEF ContentsOK
  <2>4. \A i \in DOMAIN fields[n] : fields[n][i] \in FieldKinds
          /\ (fields[n][i].msg \in Msgs => EncodedLength'[fields[n][i].msg] = EncodedLength[fields[n][i].msg]
                                           /\ EncodedLength[fields[n][i].msg] \in Nat)
    <3> SUFFICES ASSUME NEW i \in DOMAIN fields[n], fields[n][i].msg \in Msgs
                 PROVE  EncodedLength'[fields[n][i].msg] = EncodedLength[fields[n][i].msg]
      BY <2>2, <1>1, <1>5, FieldIs DEF LengthsOK
    <3> DEFINE c == fields[n][i].msg
    <3>1. c \in Msgs /\ c < n
      BY <2>2, <1>1, FieldIs
    <3>2. c \in Children(n)
      BY <3>1, MsgEncoderAssumption DEF Children, ToSet
    <3>3. m \notin Contents[c]
      BY <2>2, <3>2, <1>5 DEF ContentsOK
    <3>4. ~(n <= c)
      <4>1. n \in Nat /\ c \in Nat /\ c < n
        BY <2>2, <3>1, MsgEncoderAssumption
      <4> HIDE DEF c
      <4> QED BY <4>1
    <3>5. c \notin T
      BY <2>1, <3>4
    <3> HIDE DEF c
    <3>6. EncodedLength'[c] = EncodedLength[c]
      BY <3>1, <3>3, <3>5
    <3> QED BY <3>6 DEF c
  <2>5. \A i \in DOMAIN fields[n] : EncodedSize(fields[n][i], EncodedLength')
                                      = EncodedSize(fields[n][i], EncodedLength)
    BY <2>4, SizeOfField
  <2>6. Sizes(n)' = Sizes(n)
    BY <2>3, <2>5 DEF Sizes
  <2>7. EncodedLength'[n] = EncodedLength[n]
    BY <2>2, <2>6, <1>5, <1>6 DEF LengthsOK
  <2> QED
    BY <2>7
<1>8. CachedWidthExact'
  <2> SUFFICES ASSUME NEW n \in Msgs, width'[n] >= 0 PROVE width'[n] = EncodedLength'[n]
    BY DEF CachedWidthExact
  <2>1. n # m /\ width'[n] = width[n]
    BY <1>1 DEF TypeOK
  <2>2. m \notin Contents[n]
    BY <2>1 DEF Fresh
  <2> QED
    BY <2>1, <2>2, <1>1, <1>7 DEF CachedWidthExact
<1>9. FramesOK'
  BY <1>1 DEF FramesOK, TypeOK
<1> QED
  BY <1>2, <1>4, <1>8, <1>9 DEF IInv

(* An addition that fails has dropped caches, and no more.                 *)
LEMMA AddFieldFailsKeeps ==
    ASSUME IInv, NEW m \in Msgs, AddFieldFails(m)
    PROVE  IInv'
<1> USE DEF AddFieldFails
<1>1. EncodedLength' = EncodedLength
  BY SameFields
<1>2. TypeOK' /\ Layered'
  BY DEF IInv, TypeOK, Layered
<1>3. CachedWidthExact'
  BY <1>1 DEF IInv, TypeOK, CachedWidthExact
<1>4. FramesOK'
  BY DEF IInv, TypeOK, FramesOK
<1> QED
  BY <1>2, <1>3, <1>4 DEF IInv

(* Measuring caches the right widths, whatever it visits.                  *)
LEMMA MeasuredRight ==
    ASSUME WidthsAsRegistered, IInv, fields' = fields, NEW m \in Msgs, width' = Measured(m)
    PROVE  /\ width' \in [Msgs -> Nat \cup {-1}]
           /\ CachedWidthExact'
           /\ MessageLength[m] = EncodedLength[m] /\ EncodedLength[m] \in Nat
<1>1. TypeOK /\ Layered /\ CachedWidthExact
  BY DEF IInv
<1>2. LengthsOK /\ MeasuresOK /\ EncodedLength' = EncodedLength
  BY <1>1, LengthsDefined, MeasuresRight, SameFields
<1>3. \A n \in Msgs : width'[n] = IF n \in Visited[m] THEN EncodedLength[n] ELSE width[n]
  BY <1>2 DEF Measured, MeasuresOK
<1>4. \A n \in Msgs : EncodedLength[n] \in Nat /\ width[n] \in Nat \cup {-1}
  BY <1>1, <1>2 DEF LengthsOK, TypeOK
<1>5. width' \in [Msgs -> Nat \cup {-1}]
  <2>1. width' = [n \in Msgs |-> width'[n]]
    BY DEF Measured
  <2>2. \A n \in Msgs : width'[n] \in Nat \cup {-1}
    BY <1>3, <1>4
  <2> QED BY <2>1, <2>2
<1>6. CachedWidthExact'
  BY <1>1, <1>2, <1>3, <1>4 DEF CachedWidthExact
<1> QED
  BY <1>2, <1>4, <1>5, <1>6 DEF MeasuresOK

(* A call starts with one frame, which fills the allocation behind the     *)
(* envelope's header.                                                      *)
LEMMA EncodeKeeps ==
    ASSUME WidthsAsRegistered, IInv, NEW m \in Msgs, Encode(m)
    PROVE  IInv'
<1>1. fields' = fields /\ width' = Measured(m)
  BY DEF Encode
<1>2. /\ width' \in [Msgs -> Nat \cup {-1}]
      /\ CachedWidthExact'
      /\ MessageLength[m] = EncodedLength[m] /\ EncodedLength[m] \in Nat
      /\ EncodedLength' = EncodedLength
  BY <1>1, MeasuredRight, SameFields
<1>3. TypeOK /\ Layered
  BY DEF IInv
<1>4. Layered'
  BY <1>1, <1>3 DEF Layered
<1>5. CASE Stop("OUT_OF_MEMORY")
  <2>1. TypeOK'
    BY <1>1, <1>2, <1>3, <1>5 DEF TypeOK, Stop
  <2>2. FramesOK'
    BY <1>5 DEF FramesOK, Stop
  <2> QED BY <1>2, <1>4, <2>1, <2>2 DEF IInv
<1>6. CASE /\ status' = "running"
           /\ room' = MessageLength[m] + EnvelopeBytes
           /\ written' = EnvelopeBytes
           /\ frames' = <<Frame(m, EnvelopeBytes, MessageLength[m])>>
  <2> DEFINE fr == [msg |-> m, done |-> 0, start |-> 8, length |-> EncodedLength[m]]
  <2>1. frames' = <<fr>> /\ room' = EncodedLength[m] + 8 /\ written' = 8
    BY <1>2, <1>6 DEF Frame, EnvelopeBytes
  <2>2. TypeOK'
    BY <1>1, <1>2, <1>3, <1>6, <2>1 DEF TypeOK, FrameRecords
  <2>3. Sizes(m) \in Seq(Nat)
    BY <1>3, LengthsDefined DEF LengthsOK
  <2>4. Sizes(m)' = Sizes(m)
    BY <1>1, SameFields
  <2>5. Reached(fr)' = 8
    BY <2>3, <2>4, SumsStepByStep DEF Reached
  <2>6. Len(fields[m]) \in Nat
    BY <1>3, FieldIs
  <2>7. WrittenTo(fr, 8)'
    BY <2>5 DEF WrittenTo, Intact
  <2>8. FrameFits(<<fr>>, 1)'
    BY <1>1, <1>2, <2>1, <2>6 DEF FrameFits, End
  <2>9. FramesOK'
    <3>1. fr' = fr
      BY <1>2
    <3> HIDE DEF fr
    <3>2. /\ frames' # <<>> /\ status' = "running" /\ written' = 8
          /\ frames'[1] = fr /\ Len(frames') = 1 /\ frames' = <<fr>>
      BY <1>6, <2>1
    <3> QED BY <2>7, <2>8, <3>1, <3>2 DEF FramesOK
  <2> QED BY <1>2, <1>4, <2>2, <2>9 DEF IInv
<1> QED
  BY <1>5, <1>6 DEF Encode

(* A sequence that is not empty.                                           *)
LEMMA HeadAndTail ==
    ASSUME NEW T, NEW s \in Seq(T), s # <<>>
    PROVE  /\ Len(s) \in Nat \ {0}
           /\ s[1] \in T
           /\ Tail(s) \in Seq(T)
           /\ Len(Tail(s)) = Len(s) - 1
           /\ \A i \in 1..(Len(s) - 1) : Tail(s)[i] = s[i + 1]
OBVIOUS

(* Pushing a frame moves the others one on.                                *)
LEMMA Pushed ==
    ASSUME NEW T, NEW s \in Seq(T), NEW x \in T
    PROVE  /\ <<x>> \o s \in Seq(T)
           /\ Len(<<x>> \o s) = Len(s) + 1
           /\ (<<x>> \o s)[1] = x
           /\ \A i \in 1..Len(s) : (<<x>> \o s)[i + 1] = s[i]
OBVIOUS

(* Changing the first frame leaves the others.                             *)
LEMMA FirstChanged ==
    ASSUME NEW T, NEW s \in Seq(T), s # <<>>, NEW x \in T
    PROVE  /\ [s EXCEPT ![1] = x] \in Seq(T)
           /\ Len([s EXCEPT ![1] = x]) = Len(s)
           /\ [s EXCEPT ![1] = x][1] = x
           /\ \A i \in 2..Len(s) : [s EXCEPT ![1] = x][i] = s[i]
OBVIOUS

(* The frames of a running call, and the field that is next.               *)
LEMMA Running ==
    ASSUME IInv, status = "running"
    PROVE  /\ frames \in Seq(FrameRecords) /\ frames # <<>> /\ Len(frames) \in Nat \ {0}
           /\ Current = frames[1]
           /\ Current \in FrameRecords
           /\ \A i \in 1..Len(frames) : FrameFits(frames, i)
           /\ WrittenTo(Current, written)
           /\ Sizes(Current.msg) \in Seq(Nat)
           /\ Len(Sizes(Current.msg)) = Len(fields[Current.msg])
           /\ Current.length = Total(Sizes(Current.msg))
<1>1. TypeOK /\ Layered /\ FramesOK
  BY DEF IInv
<1>2. frames \in Seq(FrameRecords) /\ frames # <<>>
  BY <1>1 DEF TypeOK, FramesOK
<1>3. Len(frames) \in Nat \ {0} /\ 1 \in 1..Len(frames)
      /\ Current = frames[1] /\ Current \in FrameRecords
  BY <1>2, HeadAndTail DEF Current
<1>4. /\ \A i \in 1..Len(frames) : FrameFits(frames, i)
      /\ WrittenTo(Current, written)
  BY <1>1, <1>2, <1>3 DEF FramesOK
<1>5. Current.msg \in Msgs
  BY <1>3 DEF FrameRecords
<1>6. Current.length = EncodedLength[Current.msg]
  BY <1>3, <1>4 DEF FrameFits
<1> QED
  BY <1>1, <1>2, <1>3, <1>4, <1>5, <1>6, LengthsDefined DEF LengthsOK

(* The next field of a frame, and where it ends.                           *)
LEMMA NextFieldIs ==
    ASSUME IInv, status = "running", ~ Exhausted(Current)
    PROVE  /\ Current.done + 1 \in 1..Len(fields[Current.msg])
           /\ NextField \in FieldKinds
           /\ NextField.msg \in Msgs => EncodedLength[NextField.msg] \in Nat
           /\ EncodedSize(NextField, EncodedLength) \in Nat
           /\ NextField = fields[Current.msg][Current.done + 1]
           /\ Reached(Current) \in Nat
           /\ Current.start + Sums(Sizes(Current.msg))[Current.done + 1]
                = Reached(Current) + EncodedSize(NextField, EncodedLength)
           /\ Reached(Current) + EncodedSize(NextField, EncodedLength) <= End(Current)
           /\ End(Current) <= room
<1> DEFINE m == Current.msg
           n == Current.done + 1
<1>1. /\ TypeOK /\ Layered
      /\ m \in Msgs /\ Current.done \in Nat /\ Current.start \in Nat
      /\ FrameFits(frames, 1)
  BY Running DEF IInv, FrameRecords
<1>2. Current.done \in 0..Len(fields[m]) /\ End(Current) <= room
  BY <1>1, Running DEF FrameFits
<1>3. n \in 1..Len(fields[m]) /\ n - 1 = Current.done
  BY <1>1, <1>2, FieldIs DEF Exhausted
<1>4. NextField = fields[m][n] /\ NextField \in FieldKinds
  BY <1>1, <1>3, FieldIs DEF NextField
<1>5. Sizes(m) \in Seq(Nat) /\ Len(Sizes(m)) = Len(fields[m]) /\ Current.length = Total(Sizes(m))
  BY Running
<1>6. Sizes(m)[n] = EncodedSize(NextField, EncodedLength) /\ Sizes(m)[n] \in Nat
  BY <1>1, <1>3, <1>4, <1>5, FieldIs DEF Sizes
<1>7. /\ Sums(Sizes(m))[n - 1] \in Nat
      /\ Sums(Sizes(m))[n] = Sums(Sizes(m))[n - 1] + Sizes(m)[n]
      /\ Sums(Sizes(m))[n] <= Total(Sizes(m))
      /\ Total(Sizes(m)) \in Nat
  BY <1>1, <1>3, <1>5, SumsStepByStep, SumsGrow
<1>8. Reached(Current) = Current.start + Sums(Sizes(m))[n - 1]
  BY <1>3 DEF Reached
<1>9. /\ Current.start + Sums(Sizes(m))[n]
           = Reached(Current) + EncodedSize(NextField, EncodedLength)
      /\ Reached(Current) \in Nat
      /\ Current.start + Sums(Sizes(m))[n] <= End(Current)
  <2> HIDE DEF m, n
  <2> QED BY <1>1, <1>5, <1>6, <1>7, <1>8 DEF End
<1>10. NextField.msg \in Msgs => EncodedLength[NextField.msg] \in Nat
  BY <1>1, LengthsDefined DEF LengthsOK
<1> QED
  BY <1>2, <1>3, <1>4, <1>6, <1>9, <1>10

(* What is missing from one more field is missing.                         *)
LEMMA OneMore ==
    ASSUME NEW fr, NEW n \in Nat \ {0}
    PROVE  Intact(fr, n) <=> Intact(fr, n - 1) /\ WholeField(fields[fr.msg][n])
<1>1. \A j : j \in 1..n <=> j \in 1..(n - 1) \/ j = n
  OBVIOUS
<1> QED
  BY <1>1 DEF Intact

(* The frames fit when the next field counts as done.                      *)
LEMMA AdvancedFits ==
    ASSUME IInv, status = "running", ~ Exhausted(Current)
    PROVE  /\ Advanced \in Seq(FrameRecords)
           /\ Len(Advanced) = Len(frames)
           /\ \A i \in 1..Len(frames) : FrameFits(Advanced, i)
           /\ Reached(Advanced[1]) = Reached(Current) + EncodedSize(NextField, EncodedLength)
           /\ Advanced[1].done \in Nat \ {0} /\ Advanced[1].done - 1 = Current.done
           /\ fields[Advanced[1].msg][Advanced[1].done] = NextField
           /\ Intact(Advanced[1], Advanced[1].done - 1) <=> Intact(Current, Current.done)
           /\ Intact(Advanced[1], Advanced[1].done)
                <=> Intact(Current, Current.done) /\ WholeField(NextField)
<1> DEFINE fr == [Current EXCEPT !.done = @ + 1]
<1>1. /\ frames \in Seq(FrameRecords) /\ frames # <<>> /\ Len(frames) \in Nat \ {0}
      /\ Current = frames[1] /\ Current \in FrameRecords
      /\ \A i \in 1..Len(frames) : FrameFits(frames, i)
  BY Running
<1>2. /\ fr \in FrameRecords /\ fr.msg = Current.msg /\ fr.start = Current.start
      /\ fr.length = Current.length /\ fr.done = Current.done + 1
  <2>1. ASSUME NEW r \in FrameRecords, NEW s, s = [r EXCEPT !.done = @ + 1]
        PROVE  /\ s \in FrameRecords /\ s.msg = r.msg /\ s.start = r.start
               /\ s.length = r.length /\ s.done = r.done + 1
    BY <2>1 DEF FrameRecords
  <2> QED BY <1>1, <2>1
<1>3. Advanced = [frames EXCEPT ![1] = fr]
  BY <1>1 DEF Advanced
<1> HIDE DEF fr
<1>4. /\ Advanced \in Seq(FrameRecords) /\ Len(Advanced) = Len(frames)
      /\ Advanced[1] = fr
      /\ \A i \in 2..Len(frames) : Advanced[i] = frames[i]
  BY <1>1, <1>2, <1>3, FirstChanged
<1>5. fr.done \in 0..Len(fields[fr.msg])
  BY <1>2, NextFieldIs
<1>6. ASSUME NEW i \in 1..Len(frames) PROVE FrameFits(Advanced, i)
  <2>1. FrameFits(frames, i)
    BY <1>1
  <2>2. i # Len(frames) => Advanced[i + 1] = frames[i + 1]
    <3>1. i # Len(frames) => i + 1 \in 2..Len(frames)
      BY <1>1
    <3> QED BY <3>1, <1>4
  <2>3. CASE i = 1
    BY <1>1, <1>2, <1>4, <1>5, <2>1, <2>2, <2>3 DEF FrameFits, Within, End
  <2>4. CASE i # 1
    <3>1. i \in 2..Len(frames)
      BY <2>4, <1>1
    <3> QED BY <3>1, <1>4, <2>1, <2>2 DEF FrameFits
  <2> QED BY <2>3, <2>4
<1>7. Reached(fr) = Reached(Current) + EncodedSize(NextField, EncodedLength)
  <2>1. Reached(fr) = Current.start + Sums(Sizes(Current.msg))[Current.done + 1]
    BY <1>2 DEF Reached
  <2> QED BY <2>1, NextFieldIs
<1>8. fr.done \in Nat \ {0} /\ fr.done - 1 = Current.done
  BY <1>1, <1>2 DEF FrameRecords
<1>9. fields[fr.msg][fr.done] = NextField
  BY <1>2, NextFieldIs
<1>10. \A n : Intact(fr, n) <=> Intact(Current, n)
  BY <1>2 DEF Intact
<1>11. Intact(fr, fr.done) <=> Intact(Current, Current.done) /\ WholeField(NextField)
  BY <1>8, <1>9, <1>10, OneMore
<1> QED
  BY <1>4, <1>6, <1>7, <1>8, <1>9, <1>10, <1>11

(* What is the same after a step of the encoder that leaves the fields.    *)
LEMMA StepKeeps ==
    ASSUME IInv, fields' = fields, room' = room
    PROVE  /\ Layered' /\ EncodedLength' = EncodedLength
           /\ (width' = width => CachedWidthExact')
           /\ \A fs, i : FrameFits(fs, i)' = FrameFits(fs, i)
           /\ \A fr : Reached(fr)' = Reached(fr)
           /\ \A fr, end : WrittenTo(fr, end)' = WrittenTo(fr, end)
<1>1. EncodedLength' = EncodedLength /\ \A m : Sizes(m)' = Sizes(m)
  BY SameFields
<1>2. \A fr : Reached(fr)' = Reached(fr)
  BY <1>1 DEF Reached
<1>3. Contents' = Contents
  BY DEF Contents, Children
<1>4. \A m : Whole(m)' = Whole(m)
  BY <1>3 DEF Whole
<1>5. \A fr, n : Intact(fr, n)' = Intact(fr, n)
  BY <1>4 DEF Intact, WholeField
<1>6. \A fr, end : WrittenTo(fr, end)' = WrittenTo(fr, end)
  BY <1>2, <1>5 DEF WrittenTo
<1>7. \A fr, outer : Within(fr, outer)' = Within(fr, outer)
  BY <1>2, <1>5 DEF Within, End
<1>8. \A fs, i : FrameFits(fs, i)' = FrameFits(fs, i)
  BY <1>1, <1>7 DEF FrameFits, End
<1> QED
  BY <1>1, <1>2, <1>6, <1>8 DEF IInv, Layered, CachedWidthExact

(* Of a leaf, the part of an element it may end in is missing.             *)
LEMMA ElementsWritten ==
    ASSUME NEW f \in Leaves
    PROVE  /\ WholeElements(f) \in Nat /\ WholeElements(f) <= f.numbytes
           /\ WholeElements(f) = f.numbytes <=> WholeField(f)
<1>1. f.msg = Null /\ f.numbytes \in Nat /\ f.element \in {1, 2, 4, 8}
  BY MsgEncoderAssumption
<1> DEFINE n == f.numbytes
<1>2. ASSUME NEW k \in Nat
      PROVE  /\ (k \div 1) * 1 = k /\ k % 1 = 0
             /\ (k \div 2) * 2 \in Nat /\ (k \div 2) * 2 <= k
             /\ ((k \div 2) * 2 = k <=> k % 2 = 0)
             /\ (k \div 4) * 4 \in Nat /\ (k \div 4) * 4 <= k
             /\ ((k \div 4) * 4 = k <=> k % 4 = 0)
             /\ (k \div 8) * 8 \in Nat /\ (k \div 8) * 8 <= k
             /\ ((k \div 8) * 8 = k <=> k % 8 = 0)
  OBVIOUS
<1> QED
  BY <1>1, <1>2 DEF WholeElements, WholeField

(* A leaf is written up to where it ends, or what is missing short of it.  *)
LEMMA WriteLeafKeeps ==
    ASSUME IInv, WriteLeaf
    PROVE  IInv'
<1> DEFINE f == NextField
<1>1. /\ status = "running" /\ ~ Exhausted(Current) /\ f.msg = Null
      /\ written' = written + HeaderLength(f) + PrefixLength(f, f.numbytes) + WholeElements(f)
      /\ frames' = Advanced
      /\ fields' = fields /\ width' = width /\ room' = room /\ status' = status
  BY DEF WriteLeaf
<1>2. TypeOK /\ written \in Nat
  BY DEF IInv, TypeOK
<1>3. f \in FieldKinds /\ EncodedSize(f, EncodedLength) \in Nat /\ Reached(Current) \in Nat
  BY <1>1, NextFieldIs
<1>4. WrittenTo(Current, written)
  BY <1>1, Running
<1> HIDE DEF f
<1>5. f \in Leaves
  <2>1. CASE f \in {Submessage(s) : s \in Msgs}
    BY <1>1, <2>1, MsgEncoderAssumption DEF Submessage
  <2> QED BY <1>3, <2>1 DEF FieldKinds
<1>6. HeaderLength(f) + PrefixLength(f, f.numbytes) + f.numbytes = EncodedSize(f, EncodedLength)
      /\ HeaderLength(f) \in Nat /\ PrefixLength(f, f.numbytes) \in Nat /\ f.numbytes \in Nat
  <2>1. /\ f.msg = Null /\ f.numbytes \in Nat /\ f.ordinal \in BOOLEAN
        /\ f.name = -1 \/ f.name \in Nat
        /\ f.fixedwidth = -1 \/ f.fixedwidth \in Nat
    BY <1>5, MsgEncoderAssumption DEF NoName, Variable
  <2> QED
    BY <2>1 DEF HeaderLength, PrefixLength, BytesToHoldSize, EncodedSize, NoName, Variable
<1>7. /\ WholeElements(f) \in Nat /\ WholeElements(f) <= f.numbytes
      /\ WholeElements(f) = f.numbytes <=> WholeField(f)
  BY <1>5, ElementsWritten
<1>8. /\ written' \in Nat
      /\ written' <= Reached(Current) + EncodedSize(f, EncodedLength)
      /\ written' = Reached(Current) + EncodedSize(f, EncodedLength)
           <=> written = Reached(Current) /\ WholeElements(f) = f.numbytes
  <2>1. written <= Reached(Current)
    BY <1>4 DEF WrittenTo
  <2>2. ASSUME NEW w \in Nat, NEW r \in Nat, w <= r, NEW h \in Nat, NEW p \in Nat,
               NEW n \in Nat, NEW k \in Nat, k <= n
        PROVE  /\ w + h + p + k \in Nat /\ w + h + p + k <= r + (h + p + n)
               /\ w + h + p + k = r + (h + p + n) <=> w = r /\ k = n
    BY <2>2
  <2> QED BY <1>1, <1>2, <1>3, <1>6, <1>7, <2>1, <2>2
<1>9. /\ Advanced \in Seq(FrameRecords) /\ Len(Advanced) = Len(frames)
      /\ Len(frames) \in Nat \ {0}
      /\ \A i \in 1..Len(frames) : FrameFits(Advanced, i)
      /\ Reached(Advanced[1]) = Reached(Current) + EncodedSize(f, EncodedLength)
      /\ Intact(Advanced[1], Advanced[1].done)
           <=> Intact(Current, Current.done) /\ WholeField(f)
  BY <1>1, AdvancedFits, Running DEF f
<1>10. WrittenTo(Advanced[1], written')
  BY <1>4, <1>7, <1>8, <1>9 DEF WrittenTo
<1>11. TypeOK'
  BY <1>1, <1>2, <1>8, <1>9 DEF TypeOK
<1>12. FramesOK'
  <2>1. frames' # <<>> /\ \A i \in 1..Len(frames') : FrameFits(frames', i)
    BY <1>1, <1>9
  <2> QED BY <1>1, <1>10, <2>1, StepKeeps DEF FramesOK
<1> QED
  BY <1>1, <1>11, <1>12, StepKeeps DEF IInv

(* A submessage's frame ends where its field does, if nothing is missing   *)
(* before it.                                                              *)
LEMMA EnterSubmessageKeeps ==
    ASSUME WidthsAsRegistered, IInv, NEW sub \in Msgs, EnterSubmessage(sub)
    PROVE  IInv'
<1> DEFINE f == NextField
           fr == [msg |-> sub, done |-> 0, start |-> written', length |-> EncodedLength[sub]]
<1>1. /\ status = "running" /\ ~ Exhausted(Current) /\ sub = f.msg
      /\ width' = Measured(sub)
      /\ written' = written + HeaderLength(f) + BytesToHoldSize(MessageLength[sub])
      /\ frames' = <<Frame(sub, written', MessageLength[sub])>> \o Advanced
      /\ fields' = fields /\ room' = room /\ status' = status
  BY DEF EnterSubmessage
<1>2. TypeOK /\ Layered /\ written \in Nat
  BY DEF IInv, TypeOK
<1>3. /\ width' \in [Msgs -> Nat \cup {-1}]
      /\ CachedWidthExact'
      /\ MessageLength[sub] = EncodedLength[sub] /\ EncodedLength[sub] \in Nat
  BY <1>1, MeasuredRight
<1>4. /\ f \in FieldKinds /\ EncodedSize(f, EncodedLength) \in Nat
      /\ Reached(Current) + EncodedSize(f, EncodedLength) <= End(Current)
      /\ End(Current) <= room /\ Reached(Current) \in Nat
      /\ WrittenTo(Current, written)
  BY <1>1, NextFieldIs, Running
<1> HIDE DEF f
<1>5. /\ HeaderLength(f) + BytesToHoldSize(EncodedLength[sub]) + EncodedLength[sub]
           = EncodedSize(f, EncodedLength)
      /\ HeaderLength(f) \in Nat /\ BytesToHoldSize(EncodedLength[sub]) \in Nat
  <2>1. CASE f \in Leaves
    BY <1>1, <2>1, MsgEncoderAssumption
  <2>2. CASE f \in {Submessage(s) : s \in Msgs}
    <3>1. PICK s \in Msgs : f = Submessage(s)
      BY <2>2
    <3>2. f.msg = sub /\ f.ordinal = FALSE /\ f.name = -1 /\ f.fixedwidth = -1 /\ sub # Null
      BY <1>1, <3>1, MsgEncoderAssumption DEF Submessage, NoName, Variable
    <3> QED
      BY <1>3, <3>2 DEF HeaderLength, BytesToHoldSize, EncodedSize, NoName, Variable
  <2> QED BY <1>4, <2>1, <2>2 DEF FieldKinds
<1>6. /\ written' \in Nat
      /\ written' + EncodedLength[sub] = written + EncodedSize(f, EncodedLength)
  BY <1>1, <1>2, <1>3, <1>5
<1>7. fr \in FrameRecords /\ frames' = <<fr>> \o Advanced
  BY <1>1, <1>3, <1>6 DEF Frame, FrameRecords
<1>8. /\ fr.done = 0 /\ fr.msg = sub /\ fr.length = EncodedLength[sub]
      /\ End(fr) = written + EncodedSize(f, EncodedLength)
  BY <1>6 DEF End
<1>9. /\ Advanced \in Seq(FrameRecords)
      /\ Len(Advanced) = Len(frames) /\ Len(frames) \in Nat \ {0}
      /\ \A i \in 1..Len(frames) : FrameFits(Advanced, i)
      /\ Reached(Advanced[1]) = Reached(Current) + EncodedSize(f, EncodedLength)
      /\ Advanced[1].done \in Nat \ {0}
      /\ fields[Advanced[1].msg][Advanced[1].done] = f
      /\ Intact(Advanced[1], Advanced[1].done - 1) <=> Intact(Current, Current.done)
  BY <1>1, AdvancedFits, Running DEF f
<1>10. Reached(fr) = written'
  <2>1. Sizes(sub) \in Seq(Nat)
    BY <1>2, LengthsDefined DEF LengthsOK
  <2>2. Sums(Sizes(sub))[0] = 0
    BY <2>1, SumsStepByStep
  <2> QED BY <1>6, <2>2 DEF Reached
<1> HIDE DEF fr
<1>11. /\ frames' \in Seq(FrameRecords)
       /\ Len(frames') = Len(frames) + 1
       /\ frames'[1] = fr
       /\ \A i \in 1..Len(frames) : frames'[i + 1] = Advanced[i]
  BY <1>7, <1>9, Pushed
<1>12. \A i \in 1..Len(frames') : FrameFits(frames', i)
  <2> TAKE i \in 1..Len(frames')
  <2>1. CASE i = 1
    <3>1. Len(fields[sub]) \in Nat
      BY <1>2, FieldIs
    <3>2. frames'[2] = Advanced[1] /\ 1 # Len(frames')
      <4>1. 1 \in 1..Len(frames) /\ 1 + 1 = 2
        BY <1>9
      <4> QED BY <4>1, <1>9, <1>11
    <3>3. End(fr) <= room /\ End(fr) \in Int
      <4>1. End(Current) \in Int
        BY <1>1, Running DEF End, FrameRecords
      <4>2. written <= Reached(Current)
        BY <1>4 DEF WrittenTo
      <4> QED BY <4>1, <4>2, <1>2, <1>4, <1>8 DEF TypeOK
    <3>4. Within(fr, Advanced[1])
      <4>1. /\ End(fr) <= Reached(Advanced[1])
            /\ End(fr) = Reached(Advanced[1]) <=> written = Reached(Current)
        BY <1>2, <1>4, <1>8, <1>9 DEF WrittenTo
      <4> QED BY <4>1, <1>1, <1>4, <1>8, <1>9 DEF Within, WrittenTo
    <3> QED BY <2>1, <3>1, <3>2, <3>3, <3>4, <1>8, <1>9, <1>11 DEF FrameFits
  <2>2. CASE i # 1
    <3> DEFINE j == i - 1
    <3>1. j \in 1..Len(frames) /\ i = j + 1
      BY <2>2, <1>9, <1>11
    <3>2. FrameFits(Advanced, j) /\ frames'[i] = Advanced[j]
      BY <3>1, <1>9, <1>11
    <3>3. /\ i = Len(frames') <=> j = Len(Advanced)
          /\ j # Len(Advanced) => frames'[i + 1] = Advanced[j + 1]
      <4>1. j # Len(Advanced) => j + 1 \in 1..Len(frames)
        BY <3>1, <1>9
      <4> HIDE DEF j
      <4> QED BY <3>1, <4>1, <1>9, <1>11
    <3> HIDE DEF j
    <3> QED BY <3>2, <3>3 DEF FrameFits
  <2> QED BY <2>1, <2>2
<1>13. TypeOK'
  BY <1>1, <1>2, <1>3, <1>6, <1>11 DEF TypeOK
<1>14. frames' # <<>>
  BY <1>9, <1>11
<1>15. FramesOK'
  <2>1. WrittenTo(frames'[1], written')
    BY <1>6, <1>8, <1>10, <1>11 DEF WrittenTo, Intact
  <2> QED BY <2>1, <1>1, <1>12, <1>14, StepKeeps DEF FramesOK
<1> QED
  BY <1>1, <1>3, <1>13, <1>15, StepKeeps DEF IInv

(* A frame whose fields are all done ends where the output does, if        *)
(* nothing is missing from its message.                                    *)
LEMMA ExhaustedEnds ==
    ASSUME IInv, frames # <<>>, Exhausted(Current)
    PROVE  /\ status = "running" /\ End(Current) \in Nat
           /\ written <= End(Current)
           /\ written = End(Current) <=> Whole(Current.msg)
<1>1. status = "running" /\ TypeOK /\ Layered
  BY DEF IInv, FramesOK
<1>2. /\ Current.done = Len(Sizes(Current.msg))
      /\ Current.done = Len(fields[Current.msg])
      /\ WrittenTo(Current, written)
      /\ Current.length = Total(Sizes(Current.msg))
      /\ Current.msg \in Msgs /\ Current.start \in Nat /\ Current.length \in Nat
  BY <1>1, Running DEF Exhausted, FrameRecords
<1>3. Reached(Current) = End(Current) /\ End(Current) \in Nat
  <2>1. Current.length = Sums(Sizes(Current.msg))[Current.done]
    <3>1. Current.length = Total(Sizes(Current.msg)) /\ Current.done = Len(Sizes(Current.msg))
      BY <1>2
    <3> QED BY <3>1 DEF Total
  <2>2. End(Current) \in Nat
    BY <1>2 DEF End
  <2> QED BY <2>1, <2>2 DEF Reached, End
<1>4. Intact(Current, Current.done) <=> Whole(Current.msg)
  BY <1>1, <1>2, WholeByFields DEF Intact
<1> QED
  BY <1>1, <1>2, <1>3, <1>4 DEF WrittenTo

(* Leaving a submessage, the output is where its field ends, or short of   *)
(* that by what is missing.                                                *)
LEMMA LeaveSubmessageKeeps ==
    ASSUME IInv, LeaveSubmessage
    PROVE  IInv'
<1>1. /\ Len(frames) > 1 /\ Exhausted(Current) /\ frames' = Tail(frames)
      /\ fields' = fields /\ width' = width /\ room' = room
      /\ written' = written /\ status' = status
  BY DEF LeaveSubmessage
<1>2. TypeOK /\ frames # <<>>
  BY <1>1 DEF IInv, TypeOK
<1>3. /\ status = "running" /\ End(Current) \in Nat
      /\ written <= End(Current)
      /\ written = End(Current) <=> Whole(Current.msg)
  BY <1>1, <1>2, ExhaustedEnds
<1>4. /\ frames \in Seq(FrameRecords) /\ Len(frames) \in Nat
      /\ Current = frames[1] /\ Current \in FrameRecords
      /\ \A i \in 1..Len(frames) : FrameFits(frames, i)
  BY <1>3, Running
<1>5. /\ frames' \in Seq(FrameRecords) /\ Len(frames') = Len(frames) - 1
      /\ \A i \in 1..(Len(frames) - 1) : frames'[i] = frames[i + 1]
  BY <1>1, <1>2, <1>4, HeadAndTail
<1>6. WrittenTo(frames[2], written) /\ frames'[1] = frames[2]
  <2>1. Within(Current, frames[2])
    <3>1. 1 \in 1..Len(frames) /\ 1 # Len(frames) /\ 1 + 1 = 2
      BY <1>1, <1>4
    <3> QED BY <3>1, <1>4 DEF FrameFits
  <2>2. frames'[1] = frames[2]
    BY <1>1, <1>4, <1>5
  <2>3. /\ frames[2] \in FrameRecords
        /\ frames[2].done \in 0..Len(fields[frames[2].msg])
    <3>1. 2 \in 1..Len(frames)
      BY <1>1, <1>4
    <3> QED BY <3>1, <1>4 DEF FrameFits
  <2>4. frames[2].done \in Nat \ {0} /\ frames[2].msg \in Msgs /\ frames[2].start \in Nat
    BY <2>1, <2>3 DEF Within, FrameRecords
  <2>5. Reached(frames[2]) \in Nat
    <3>1. Sizes(frames[2].msg) \in Seq(Nat) /\ Len(Sizes(frames[2].msg)) = Len(fields[frames[2].msg])
      BY <1>2, <2>4, LengthsDefined DEF IInv, LengthsOK
    <3>2. Sums(Sizes(frames[2].msg))[frames[2].done] \in Nat
      BY <2>3, <3>1, SumsStepByStep
    <3> QED BY <2>4, <3>2 DEF Reached
  <2>6. Intact(frames[2], frames[2].done)
          <=> Intact(frames[2], frames[2].done - 1) /\ Whole(Current.msg)
    <3>1. Current.msg \in Msgs /\ Current.msg # Null
      BY <1>4, MsgEncoderAssumption DEF FrameRecords
    <3>2. WholeField(fields[frames[2].msg][frames[2].done]) <=> Whole(Current.msg)
      BY <2>1, <3>1 DEF Within, WholeField
    <3> QED BY <2>4, <3>2, OneMore
  <2>7. written \in Nat
    BY <1>2 DEF TypeOK
  <2>8. End(Current) <= Reached(frames[2])
    BY <2>1 DEF Within
  <2>9. /\ written <= Reached(frames[2])
        /\ written = Reached(frames[2])
             <=> written = End(Current) /\ End(Current) = Reached(frames[2])
    BY <1>3, <2>5, <2>7, <2>8
  <2> QED BY <1>3, <2>1, <2>2, <2>6, <2>9 DEF WrittenTo, Within
<1>7. \A i \in 1..Len(frames') : FrameFits(frames', i)
  <2> TAKE i \in 1..Len(frames')
  <2>1. i + 1 \in 1..Len(frames) /\ i \in 1..(Len(frames) - 1)
    BY <1>4, <1>5
  <2>2. FrameFits(frames, i + 1) /\ frames'[i] = frames[i + 1]
    BY <2>1, <1>4, <1>5
  <2>3. /\ i = Len(frames') <=> i + 1 = Len(frames)
        /\ i # Len(frames') => frames'[i + 1] = frames[i + 1 + 1]
    BY <2>1, <1>4, <1>5
  <2> QED BY <2>2, <2>3 DEF FrameFits
<1>8. frames' # <<>> /\ TypeOK'
  <2>1. Len(frames') \in Nat /\ Len(frames') > 0
    BY <1>1, <1>4, <1>5
  <2>2. frames' # <<>>
    <3>1. Len(<<>>) = 0
      OBVIOUS
    <3> QED BY <2>1, <3>1
  <2>3. TypeOK'
    BY <1>1, <1>2, <1>5 DEF TypeOK
  <2> QED BY <2>2, <2>3
<1>9. FramesOK'
  <2>1. WrittenTo(frames'[1], written')
    BY <1>1, <1>6
  <2> QED BY <2>1, <1>1, <1>3, <1>7, <1>8, StepKeeps DEF FramesOK
<1> QED
  BY <1>1, <1>8, <1>9, StepKeeps DEF IInv

(* When a call returns, it leaves nothing behind but the caches.           *)
LEMMA StopKeeps ==
    ASSUME IInv, UNCHANGED <<fields, width>>,
           NEW s \in {"OK", "OUT_OF_MEMORY", "OUT_OF_BYTES"}, Stop(s)
    PROVE  IInv'
<1>1. EncodedLength' = EncodedLength
  BY SameFields
<1>2. TypeOK' /\ Layered' /\ CachedWidthExact'
  BY <1>1 DEF IInv, TypeOK, Layered, CachedWidthExact, Stop
<1>3. FramesOK'
  BY DEF FramesOK, Stop
<1> QED
  BY <1>2, <1>3 DEF IInv

(* When the outermost frame is done, the output is full, if nothing is     *)
(* missing from the message.                                               *)
LEMMA FinishChecks ==
    ASSUME IInv, Finish
    PROVE  /\ status' = IF Whole(Outermost) THEN "OK" ELSE "OUT_OF_BYTES"
           /\ IInv'
<1>1. /\ frames # <<>> /\ Len(frames) = 1 /\ Exhausted(Current)
      /\ Stop(IF written = room THEN "OK" ELSE "OUT_OF_BYTES")
      /\ UNCHANGED <<fields, width>>
  BY DEF Finish
<1>2. status = "running" /\ (written = End(Current) <=> Whole(Current.msg))
  BY <1>1, ExhaustedEnds
<1>3. FrameFits(frames, 1) /\ Current = frames[1]
  BY <1>1, <1>2, Running
<1>4. written = room <=> Whole(Outermost)
  BY <1>1, <1>2, <1>3 DEF FrameFits, Outermost
<1> QED
  BY <1>1, <1>4, StopKeeps DEF Stop

(* Every step keeps the invariant.                                         *)
LEMMA StepOK ==
    ASSUME WidthsAsRegistered, ~ EditsSubmessages, IInv, [Next]_vars
    PROVE  IInv'
<1>1. CASE Client
  <2>1. ASSUME NEW m \in Msgs, NEW f \in Leaves, AddField(m, f) PROVE IInv'
    BY <2>1, AddFieldKeeps, MsgEncoderAssumption DEF FieldKinds
  <2>2. ASSUME NEW m \in Msgs, NEW s \in Msgs, s < m, AddField(m, Submessage(s)) PROVE IInv'
    <3>1. Submessage(s) \in FieldKinds /\ Submessage(s).msg = s
      BY DEF FieldKinds, Submessage
    <3> QED BY <2>2, <3>1, AddFieldKeeps
  <2> QED
    BY <1>1, <2>1, <2>2, AddFieldFailsKeeps, EncodeKeeps DEF Client
<1>2. CASE Encoding
  <2>1. CASE NameCopyFails
    BY <2>1, StopKeeps DEF NameCopyFails
  <2> QED
    BY <1>2, <2>1, WriteLeafKeeps, EnterSubmessageKeeps, LeaveSubmessageKeeps, FinishChecks
    DEF Encoding
<1>3. CASE UNCHANGED vars
  <2>1. fields' = fields /\ width' = width /\ frames' = frames /\ room' = room
        /\ written' = written /\ status' = status
    BY <1>3 DEF vars
  <2>2. TypeOK'
    BY <2>1 DEF IInv, TypeOK
  <2>3. FramesOK'
    BY <2>1, StepKeeps DEF IInv, FramesOK
  <2> QED BY <2>1, <2>2, <2>3, StepKeeps DEF IInv
<1> QED
  BY <1>1, <1>2, <1>3 DEF Next

-----------------------------------------------------------------------------
(* Of a client that does not add to a message after having encoded one     *)
(* that contains it.                                                       *)

(* The frames of a call fit into each other, and the caches are right: the *)
(* invariant that implies the others.                                      *)
THEOREM Inductive ==
    ASSUME WidthsAsRegistered, ~ EditsSubmessages
    PROVE  Spec => []IInv
BY InitOK, StepOK, PTL DEF Spec

(* A cached width is the length its message would be encoded to            *)
(* (codec_encode.c:96), whatever was added, encoded or failed before.      *)
THEOREM CachesRight ==
    ASSUME WidthsAsRegistered, ~ EditsSubmessages
    PROVE  Spec => []CachedWidthExact
<1>1. IInv => CachedWidthExact
  BY DEF IInv
<1> QED
  BY Inductive, <1>1, PTL

(* Encoding writes nothing outside what it has allocated.                  *)
THEOREM NothingOutside ==
    ASSUME WidthsAsRegistered, ~ EditsSubmessages
    PROVE  Spec => []WritesFit
<1>1. IInv => WritesFit
  <2> SUFFICES ASSUME IInv PROVE WritesFit
    OBVIOUS
  <2>1. CASE frames = <<>>
    BY <2>1 DEF IInv, FramesOK, WritesFit
  <2>2. CASE frames # <<>>
    <3>1. status = "running" /\ room \in Nat
      BY <2>2 DEF IInv, FramesOK, TypeOK
    <3>2. /\ Current \in FrameRecords /\ FrameFits(frames, 1) /\ Current = frames[1]
          /\ WrittenTo(Current, written)
          /\ Sizes(Current.msg) \in Seq(Nat)
          /\ Len(Sizes(Current.msg)) = Len(fields[Current.msg])
          /\ Current.length = Total(Sizes(Current.msg))
      BY <3>1, Running
    <3> DEFINE sum == Sums(Sizes(Current.msg))[Current.done]
    <3>3. /\ sum \in Nat /\ sum <= Current.length /\ Current.length \in Nat
          /\ Current.start \in Nat
      BY <3>2, SumsStepByStep, SumsGrow DEF FrameFits, FrameRecords
    <3>4. written <= Current.start + sum /\ Current.start + Current.length <= room
      BY <3>2 DEF WrittenTo, Reached, FrameFits, End
    <3>5. written \in Nat
      BY DEF IInv, TypeOK
    <3> HIDE DEF sum
    <3> QED BY <3>1, <3>3, <3>4, <3>5 DEF WritesFit
  <2> QED BY <2>1, <2>2
<1> QED
  BY Inductive, <1>1, PTL

(* As long as a message takes less than 2^31 bytes, every submessage in it *)
(* takes the number of bytes that was announced for it, unless an array in *)
(* it lacks part of an element (codec_encode.c:230-241), and that number   *)
(* is read back as it was written: lengths are signed and of 32 bits.      *)
THEOREM AnnouncedRight ==
    ASSUME WidthsAsRegistered, ~ EditsSubmessages
    PROVE  Spec => [](room < 2^31 => AnnouncedLengthExact)
<1>1. IInv => (room < 2^31 => AnnouncedLengthExact)
  <2> SUFFICES ASSUME IInv, room < 2147483648 PROVE AnnouncedLengthExact
    OBVIOUS
  <2>1. frames # <<>> /\ Exhausted(Current) =>
            (written - Current.start = Current.length <=> Whole(Current.msg))
    <3> SUFFICES ASSUME frames # <<>>, Exhausted(Current)
                 PROVE  written - Current.start = Current.length <=> Whole(Current.msg)
      OBVIOUS
    <3>1. status = "running" /\ (written = End(Current) <=> Whole(Current.msg))
      BY ExhaustedEnds
    <3>2. Current.start \in Nat /\ Current.length \in Nat /\ written \in Nat
      BY <3>1, Running DEF FrameRecords, IInv, TypeOK
    <3>3. written - Current.start = Current.length <=> written = End(Current)
      BY <3>2 DEF End
    <3> QED BY <3>1, <3>3
  <2>2. ASSUME NEW i \in DOMAIN frames
        PROVE  frames[i].length < Holds(BytesToHoldSize(frames[i].length))
    <3>1. /\ frames \in Seq(FrameRecords) /\ room \in Nat
          /\ \A j \in 1..Len(frames) : FrameFits(frames, j)
      BY DEF IInv, TypeOK, FramesOK
    <3>2. i \in 1..Len(frames) /\ frames[i] \in FrameRecords
      BY <3>1
    <3>3. frames[i].length \in Nat /\ frames[i].start \in Nat
      BY <3>2 DEF FrameRecords
    <3>4. frames[i].start + frames[i].length <= room
      BY <3>1, <3>2 DEF FrameFits, End
    <3>5. frames[i].length < 2147483648
      BY <3>1, <3>3, <3>4
    <3> QED BY <3>3, <3>5 DEF Holds, BytesToHoldSize
  <2> QED BY <2>1, <2>2 DEF AnnouncedLengthExact
<1> QED
  BY Inductive, <1>1, PTL

(* The check at the end of FudgeCodec_encodeMsg (codec_encode.c:330) is    *)
(* exact: it fails for the messages with an array, at any depth, that ends *)
(* in part of an element, and for no others.                               *)
THEOREM NoneMissing ==
    ASSUME WidthsAsRegistered, ~ EditsSubmessages
    PROVE  Spec => AllBytesWritten
<1> DEFINE Checked == frames # <<>> /\ status' \in {"OK", "OUT_OF_BYTES"}
                        => (status' = "OK" <=> Whole(Outermost))
<1>1. IInv /\ [Next]_vars => [Checked]_vars
  <2> SUFFICES ASSUME IInv, Next, frames # <<>>, status' \in {"OK", "OUT_OF_BYTES"}
               PROVE  status' = "OK" <=> Whole(Outermost)
    OBVIOUS
  <2>1. status = "running"
    BY DEF IInv, FramesOK
  <2>2. ~ Client
    BY <2>1 DEF Client, AddField, AddFieldFails, Encode
  <2>3. Finish
    BY <2>1, <2>2 DEF Next, Encoding, WriteLeaf, EnterSubmessage, LeaveSubmessage,
                      NameCopyFails, Stop
  <2> QED BY <2>3, FinishChecks
<1>2. Spec => []IInv
  BY Inductive
<1> QED
  BY <1>1, <1>2, PTL DEF Spec, AllBytesWritten
=============================================================================
