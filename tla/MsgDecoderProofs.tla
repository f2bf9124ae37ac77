-------------------------- MODULE MsgDecoderProofs --------------------------
(***************************************************************************)
(* What FudgeCodec_decodeMsg keeps true of the heap while it builds a      *)
(* message, for any number of messages, any depth of nesting and whatever  *)
(* fails but the making of the name of a field that owns its payload.      *)
(*                                                                         *)
(* The calls of decodeMsgFields form a chain, each building a message that *)
(* the call around it holds, and everything made so far is referred to     *)
(* once. IInv says so for each place at which the code can be.             *)
(***************************************************************************)
EXTENDS MsgDecoder, ObjectHeapProofs

(* The name of a field that owns its payload is always made: where it is   *)
(* not, codec_decode.c:57 loses the payload.                               *)
NamesMade == "object_name" \notin FailsIn

(* The calls of decodeMsgFields counted from the outermost, and their      *)
(* locals.                                                                 *)
Depth      == Len(frames)
FrameAt(d) == frames[Depth + 1 - d]
DataAt(d)  == <<-d, 1, "data">>
NameAt(d)  == <<-d, 1, "name">>

(* Each call has a message of its own, so there are at most as many calls  *)
(* as messages that have been created.                                     *)
Used == {m \in Msgs : mem[m] # "unused"}

(* What a call of decodeMsgFields may be.                                  *)
Frames == [msg : Msgs, fields : 0..MaxFields, named : BOOLEAN, failed : BOOLEAN,
           at : {"next", "width", "payload", "name", "append", "cleanup", "return"}]

(* Where decodeMsg may be.                                                 *)
Positions == {"idle", "envelope", "handover", "fields", "drop_envelope", "drop_message"}

(* The types of what is not the heap.                                      *)
TypesOK ==
    /\ at \in Positions
    /\ frames \in Seq(Frames)
    /\ Depth <= Cardinality(Used)
    /\ at = "fields" => Depth >= 1
    /\ at = "drop_envelope" => Depth = 1 /\ Current.at = "return"
    /\ at \in {"idle", "envelope", "handover"} => frames = <<>>
    /\ at = "drop_message" => Depth <= 1

(* The message is in its envelope, which is the client's to be.            *)
Building == at \in {"fields", "drop_envelope"}

(* A message that an envelope holds, which the client holds.               *)
Handed(m) == \E c \in ClientVars, e \in Envs : ptr[c] = e /\ ptr[<<e, 1, "data">>] = m

(* The slots of a message above its n-th are empty.                        *)
Empty(m, n) == \A i \in 1..MaxFields, k \in {"data", "name"} : i > n => ptr[<<m, i, k>>] = Null

(* Before the fields are decoded: the message is empty, and once there is  *)
(* an envelope it holds the message.                                       *)
NoFrames ==
    /\ at = "envelope" => Unused(Envs) # {}
    /\ at = "handover" => Handed(ptr[Message])
    /\ at \in {"envelope", "handover"} => ptr[Message] \in Msgs /\ Empty(ptr[Message], 0)

(* The calls form a chain. The outermost builds the message of the         *)
(* envelope; every other builds the message that the data of the call      *)
(* around it holds, which waits for it at the payload of a field. No two   *)
(* build the same one, and none is full while it has a field to add.       *)
FramesOK ==
    /\ Handed(FrameAt(1).msg)
    /\ \A d \in 1..Depth :
          /\ Empty(FrameAt(d).msg, FrameAt(d).fields)
          /\ FrameAt(d).at \in {"width", "payload", "name", "append"}
                => FrameAt(d).fields < MaxFields
    /\ \A d \in 1..(Depth - 1) : FrameAt(d).at = "payload" /\ ptr[DataAt(d)] = FrameAt(d + 1).msg
    /\ \A d, e \in 1..Depth : FrameAt(d).msg = FrameAt(e).msg => d = e

(* A local holds something only where the code still has to hand it on or  *)
(* release it: data from the payload of a field to its addition, name from *)
(* its creation to the clean-up, and decodeMsg's own message until the     *)
(* envelope has it.                                                        *)
LocalsOK ==
    /\ ptr[NameAt(0)] = Null
    /\ ptr[Message] \in Msgs \cup {Null}
    /\ ptr[Message] # Null <=>
          at \in {"envelope", "handover"} \/ (at = "drop_message" /\ frames = <<>>)
    /\ \A d \in 1..Cardinality(Msgs) :
          /\ ptr[DataAt(d)] \notin Envs
          /\ ptr[DataAt(d)] # Null =>
                at = "fields" /\ (d < Depth \/ (d = Depth /\ Current.at \in {"name", "append"}))
          /\ ptr[NameAt(d)] \in Strs \cup {Null}
          /\ ptr[NameAt(d)] # Null =>
                at = "fields" /\ d = Depth /\ Current.at \in {"append", "cleanup"}

(* Everything is referred to once. There are two moments at which          *)
(* something is referred to twice: the message between                     *)
(* FudgeMsgEnvelope_create and the release of decodeMsg's own reference,   *)
(* and the name between its field and decodeField's release.               *)
OnceHeld ==
    \A o \in Counted : mem[o] = "live" =>
        \/ count[o] <= 1
        \/ count[o] = 2 /\ at = "handover" /\ o = ptr[Message]
        \/ count[o] = 2 /\ at = "fields" /\ Current.at = "cleanup" /\ o = ptr[Name]

(* However a set of messages is chosen, one of them is in no other: they   *)
(* form no cycle. ObjectHeapProofs has an order of addresses for this;     *)
(* here a submessage may be at any address.                                *)
Rooted ==
    \A S \in SUBSET Msgs :
        S # {} => \E m \in S : \A p \in FieldPlaces : p[1] \in S => ptr[p] # m

(* And nothing holds an envelope but the client.                           *)
Shape == Rooted /\ \A p \in ObjectPlaces : ptr[p] \notin Envs

(* The inductive invariant.                                                *)
IInv ==
    /\ HeapOK /\ Shape /\ OnceHeld
    /\ TypesOK /\ NoFrames /\ (Building => FramesOK) /\ LocalsOK

-----------------------------------------------------------------------------
(* There are finitely many messages.                                       *)
LEMMA MsgsFinite ==
    /\ IsFiniteSet(Msgs) /\ Cardinality(Msgs) \in Nat
    /\ IsFiniteSet(Used) /\ Cardinality(Used) \in Nat /\ Cardinality(Used) <= Cardinality(Msgs)
<1>1. IsFiniteSet(Msgs) /\ Used \subseteq Msgs
  BY ObjectHeapAssumption DEF Used
<1> QED
  BY <1>1, FS_Subset, FS_CardinalityType

(* The outermost level is the local message of decodeMsg.                  *)
LEMMA MinusZero == -0 = 0
<1>1. \A n \in Int : -n \in Int /\ n + (-n) = 0
  OBVIOUS
<1>2. PICK x : x = -0
  OBVIOUS
<1>3. x \in Int /\ 0 + x = 0
  BY <1>1, <1>2
<1>4. x = 0
  BY <1>3
<1> QED
  BY <1>2, <1>4, Zenon

(* The locals of different calls are different places, none of them the    *)
(* client's or an object's, and there are no others.                       *)
LEMMA Levels ==
    /\ \A d \in 0..Cardinality(Msgs) :
          /\ DataAt(d) \in LocalPlaces /\ NameAt(d) \in LocalPlaces
          /\ DataAt(d) \in Places /\ NameAt(d) \in Places
          /\ DataAt(d) \notin ClientVars /\ NameAt(d) \notin ClientVars
          /\ DataAt(d) \notin ObjectPlaces /\ NameAt(d) \notin ObjectPlaces
    /\ \A d, e \in 0..Cardinality(Msgs) :
          /\ DataAt(d) # NameAt(e)
          /\ DataAt(d) = DataAt(e) => d = e
          /\ NameAt(d) = NameAt(e) => d = e
    /\ \A p \in LocalPlaces : \E d \in 0..Cardinality(Msgs) : p = DataAt(d) \/ p = NameAt(d)
    /\ Message = DataAt(0)
<1> DEFINE N == Cardinality(Msgs)
<1>0. N \in Nat
  BY MsgsFinite
<1> HIDE DEF N
<1>1. Locals = {-d : d \in 0..N}
  BY MsgDecoderAssumption DEF N
<1>2. \A d \in 0..N : DataAt(d) \in LocalPlaces /\ NameAt(d) \in LocalPlaces
  BY <1>1 DEF DataAt, NameAt, LocalPlaces
<1>3. \A d, e \in 0..N : /\ DataAt(d) # NameAt(e)
                         /\ DataAt(d) = DataAt(e) => d = e
                         /\ NameAt(d) = NameAt(e) => d = e
  BY <1>0 DEF DataAt, NameAt
<1>4. \A p \in LocalPlaces : \E d \in 0..N : p = DataAt(d) \/ p = NameAt(d)
  BY <1>1 DEF DataAt, NameAt, LocalPlaces
<1>5. Message = DataAt(0)
  BY MinusZero DEF Message, DataAt
<1> QED
  BY <1>2, <1>3, <1>4, <1>5, PlacesApart DEF N

(* The place of an envelope's message is not the slot of a field.          *)
LEMMA HandedPlaces ==
    \A e \in Envs : /\ <<e, 1, "data">> \in ObjectPlaces /\ <<e, 1, "data">> \in Places
                    /\ <<e, 1, "data">> \notin FieldPlaces
<1>1. \A e \in Envs : <<e, 1, "data">> \in EnvPlaces /\ e \notin Msgs
  BY KindsApart DEF EnvPlaces
<1> QED
  BY <1>1, PlacesApart DEF ObjectPlaces, FieldPlaces

(* The innermost call.                                                     *)
LEMMA Innermost ==
    ASSUME TypesOK, frames # <<>>
    PROVE  /\ Depth \in 1..Cardinality(Msgs) /\ Current \in Frames /\ Current = FrameAt(Depth)
           /\ Payload = DataAt(Depth) /\ Name = NameAt(Depth)
           /\ \A d \in 1..Depth : FrameAt(d) \in Frames
           /\ \A d \in 1..(Depth - 1) : d \in 1..Depth /\ d + 1 \in 1..Depth
           /\ Depth > 1 => Parent = DataAt(Depth - 1) /\ Depth - 1 \in 1..(Depth - 1)
<1>1. frames \in Seq(Frames) /\ Depth \in Nat /\ Depth >= 1
  BY DEF TypesOK, Depth
<1>2. Depth \in 1..Cardinality(Msgs)
  BY <1>1, MsgsFinite DEF TypesOK
<1>3. Current = FrameAt(Depth) /\ \A d \in 1..Depth : FrameAt(d) \in Frames
  BY <1>1 DEF Current, FrameAt, Depth
<1>4. Payload = DataAt(Depth) /\ Name = NameAt(Depth)
  BY DEF Payload, Name, Level, Depth, DataAt, NameAt
<1>5. Depth > 1 => Parent = DataAt(Depth - 1)
  <2>1. -Depth + 1 = -(Depth - 1)
    BY <1>1
  <2> QED
    BY <2>1 DEF Parent, Level, Depth, DataAt
<1> QED
  BY <1>1, <1>2, <1>3, <1>4, <1>5

(* A step of the innermost call, a call and a return, opaque to the        *)
(* provers until a step asks for them.                                     *)
Turns(f) == frames' = [frames EXCEPT ![1] = f]
Pushes(f) == frames' = <<f>> \o frames
Pops(f) == frames' = [Tail(frames) EXCEPT ![1] = f]

(* What a step, a call and a return leave of the calls.                    *)
LEMMA TurnedFrames ==
    ASSUME TypesOK, frames # <<>>, NEW f \in Frames, Turns(f)
    PROVE  /\ frames' \in Seq(Frames) /\ Depth' = Depth /\ Current' = f /\ frames' # <<>>
           /\ \A d \in 1..Depth : FrameAt(d)' = IF d = Depth THEN f ELSE FrameAt(d)
           /\ Payload' = Payload /\ Name' = Name
<1>1. frames \in Seq(Frames) /\ Len(frames) \in Nat /\ Len(frames) >= 1
  BY DEF TypesOK
<1>2. /\ frames' \in Seq(Frames) /\ Len(frames') = Len(frames) /\ frames' # <<>>
      /\ \A i \in 1..Len(frames) : frames'[i] = IF i = 1 THEN f ELSE frames[i]
  BY <1>1 DEF Turns
<1> QED
  BY <1>1, <1>2 DEF Depth, Current, FrameAt, Payload, Name, Level

LEMMA PushedFrames ==
    ASSUME TypesOK, NEW f \in Frames, Pushes(f)
    PROVE  /\ frames' \in Seq(Frames) /\ Depth' = Depth + 1 /\ Current' = f /\ frames' # <<>>
           /\ Depth \in Nat
           /\ \A d \in 1..(Depth + 1) : FrameAt(d)' = IF d = Depth + 1 THEN f ELSE FrameAt(d)
<1>1. frames \in Seq(Frames) /\ Len(frames) \in Nat
  BY DEF TypesOK
<1>2. /\ frames' \in Seq(Frames) /\ Len(frames') = Len(frames) + 1 /\ frames' # <<>>
      /\ frames'[1] = f /\ \A i \in 1..Len(frames) : frames'[i + 1] = frames[i]
  BY <1>1 DEF Pushes
<1>3. ASSUME NEW d \in 1..Depth PROVE FrameAt(d)' = FrameAt(d)
  <2>1. Depth + 1 - d \in 1..Len(frames) /\ Depth' + 1 - d = (Depth + 1 - d) + 1
    BY <1>1, <1>2 DEF Depth
  <2> QED
    BY <1>2, <2>1 DEF FrameAt
<1>4. /\ frames' \in Seq(Frames) /\ Depth' = Depth + 1 /\ Current' = f /\ frames' # <<>>
      /\ Depth \in Nat
  BY <1>1, <1>2 DEF Depth, Current
<1>5. ASSUME NEW d \in 1..(Depth + 1), d = Depth + 1 PROVE FrameAt(d)' = f
  BY <1>1, <1>2, <1>5 DEF Depth, FrameAt
<1>6. \A d \in 1..(Depth + 1) : FrameAt(d)' = IF d = Depth + 1 THEN f ELSE FrameAt(d)
  BY <1>3, <1>4, <1>5
<1> QED
  BY <1>4, <1>6

LEMMA PoppedFrames ==
    ASSUME TypesOK, Depth > 1, NEW f \in Frames, Pops(f)
    PROVE  /\ frames' \in Seq(Frames) /\ Depth' = Depth - 1 /\ Current' = f /\ frames' # <<>>
           /\ \A d \in 1..(Depth - 1) :
                FrameAt(d)' = IF d = Depth - 1 THEN f ELSE FrameAt(d)
<1>1. frames \in Seq(Frames) /\ Len(frames) \in Nat /\ Len(frames) > 1
  BY DEF TypesOK, Depth
<1>2. PICK rest : rest = Tail(frames)
  OBVIOUS
<1>3. /\ frames' \in Seq(Frames) /\ Len(frames') = Len(frames) - 1 /\ frames' # <<>>
      /\ \A i \in 1..(Len(frames) - 1) : frames'[i] = IF i = 1 THEN f ELSE frames[i + 1]
  <2>1. /\ rest \in Seq(Frames) /\ Len(rest) = Len(frames) - 1
        /\ \A i \in 1..(Len(frames) - 1) : rest[i] = frames[i + 1]
    BY <1>1, <1>2
  <2>2. frames' = [rest EXCEPT ![1] = f]
    BY <1>2 DEF Pops
  <2>3. /\ frames' \in Seq(Frames) /\ Len(frames') = Len(rest)
        /\ \A i \in 1..Len(rest) : frames'[i] = IF i = 1 THEN f ELSE rest[i]
    BY <1>1, <2>1, <2>2
  <2> QED
    BY <1>1, <2>1, <2>3
<1>4. ASSUME NEW d \in 1..(Depth - 1)
      PROVE  FrameAt(d)' = IF d = Depth - 1 THEN f ELSE FrameAt(d)
  <2>1. /\ Depth' + 1 - d \in 1..(Len(frames) - 1)
        /\ (Depth' + 1 - d) + 1 = Depth + 1 - d
        /\ Depth' + 1 - d = 1 <=> d = Depth - 1
    BY <1>1, <1>3 DEF Depth
  <2> QED
    BY <1>3, <2>1 DEF FrameAt
<1>5. frames' \in Seq(Frames) /\ Depth' = Depth - 1 /\ Current' = f /\ frames' # <<>>
  BY <1>1, <1>3 DEF Depth, Current
<1> QED
  BY <1>4, <1>5

-----------------------------------------------------------------------------
(* The program begins so.                                                  *)
LEMMA InitIInv == Init => IInv
<1> SUFFICES ASSUME Init PROVE IInv
  OBVIOUS
<1> USE PlacesApart, KindsApart
<1>1. HeapOK
  BY InitKeeps DEF Init
<1>2. (\A p \in Places : ptr[p] = Null) /\ (\A o \in Counted : mem[o] # "live")
  BY DEF Init, HeapInit
<1>3. Shape
  BY <1>2 DEF Shape, Rooted, ObjectPlaces
<1>4. OnceHeld
  BY <1>2 DEF OnceHeld
<1>5. TypesOK /\ NoFrames /\ ~ Building
  BY MsgsFinite DEF TypesOK, NoFrames, Building, Init, Positions, Depth
<1>6. LocalsOK
  <2>1. \A d \in 0..Cardinality(Msgs) : ptr[DataAt(d)] = Null /\ ptr[NameAt(d)] = Null
    BY <1>2, Levels
  <2> QED
    BY <2>1, Levels, MsgsFinite DEF LocalsOK, Init
<1> QED
  BY <1>1, <1>3, <1>4, <1>5, <1>6 DEF IInv

(* A step that writes no field's slot but to empty it makes no cycle.      *)
LEMMA ShapeKept ==
    ASSUME Shape,
           \A p \in ObjectPlaces : \/ ptr'[p] = ptr[p] \/ ptr'[p] = Null
                                   \/ p \notin FieldPlaces /\ ptr'[p] \in Msgs
    PROVE  Shape'
<1>1. \A p \in ObjectPlaces : ptr'[p] \notin Envs
  BY KindsApart DEF Shape
<1>2. \A p \in FieldPlaces : ptr'[p] = ptr[p] \/ ptr'[p] = Null
  BY DEF ObjectPlaces
<1>3. Rooted'
  <2> SUFFICES ASSUME NEW S \in SUBSET Msgs, S # {}
               PROVE  \E m \in S : \A p \in FieldPlaces : p[1] \in S => ptr'[p] # m
    BY DEF Rooted
  <2>1. PICK m \in S : \A p \in FieldPlaces : p[1] \in S => ptr[p] # m
    BY DEF Shape, Rooted
  <2>2. m # Null
    BY KindsApart
  <2> QED
    BY <1>2, <2>1, <2>2
<1> QED
  BY <1>1, <1>3 DEF Shape

(* Messages are not unused again.                                          *)
LEMMA UsedKept ==
    ASSUME TypesOK, \A m \in Used : mem'[m] # "unused"
    PROVE  /\ Depth <= Cardinality(Used') /\ Cardinality(Used') \in Nat
           /\ Cardinality(Used) <= Cardinality(Used')
<1>1. Used \subseteq Used' /\ Used' \subseteq Msgs
  BY DEF Used
<1>2. IsFiniteSet(Used') /\ Cardinality(Used) <= Cardinality(Used')
  BY <1>1, MsgsFinite, FS_Subset
<1>3. Cardinality(Used') \in Nat
  BY <1>2, FS_CardinalityType
<1>4. frames \in Seq(Frames)
  BY DEF TypesOK
<1> QED
  BY <1>2, <1>3, <1>4, MsgsFinite DEF TypesOK, Depth

(* The innermost call of decodeMsgFields makes a step.                     *)
LEMMA TurnKeeps ==
    ASSUME IInv, at = "fields", at' = "fields", NEW f \in Frames, Turns(f),
           f.msg = Current.msg,
           f.at \in {"width", "payload", "name", "append"} => f.fields < MaxFields,
           \A p \in Places : \/ p = Payload \/ p = Name
                             \/ p \in FieldPlaces /\ p[1] = Current.msg
                             \/ ptr'[p] = ptr[p],
           \A i \in 1..MaxFields, k \in {"data", "name"} :
                i > f.fields => ptr'[<<f.msg, i, k>>] = Null,
           ptr'[Payload] \notin Envs, ptr'[Payload] # Null => f.at \in {"name", "append"},
           ptr'[Name] \in Strs \cup {Null}, ptr'[Name] # Null => f.at \in {"append", "cleanup"},
           \A m \in Used : mem'[m] # "unused"
    PROVE  TypesOK' /\ NoFrames' /\ FramesOK' /\ LocalsOK'
<1>0. TypesOK /\ frames # <<>> /\ FramesOK /\ LocalsOK
  BY DEF IInv, TypesOK, Building, Depth
<1>1. /\ frames' \in Seq(Frames) /\ Depth' = Depth /\ Current' = f /\ frames' # <<>>
      /\ \A d \in 1..Depth : FrameAt(d)' = IF d = Depth THEN f ELSE FrameAt(d)
      /\ Payload' = Payload /\ Name' = Name
  BY <1>0, TurnedFrames
<1>2. /\ Depth \in 1..Cardinality(Msgs) /\ Current = FrameAt(Depth)
      /\ Payload = DataAt(Depth) /\ Name = NameAt(Depth)
      /\ \A d \in 1..Depth : FrameAt(d) \in Frames
      /\ \A d \in 1..(Depth - 1) : d \in 1..Depth /\ d + 1 \in 1..Depth
  BY <1>0, Innermost
<1>3. Cardinality(Msgs) \in Nat /\ Depth \in Nat
  BY <1>2, MsgsFinite
<1>4. TypesOK'
  BY <1>0, <1>1, <1>2, UsedKept DEF TypesOK
<1>5. NoFrames'
  BY DEF NoFrames
<1>6. \A d \in 1..Depth : FrameAt(d)'.msg = FrameAt(d).msg
  BY <1>1, <1>2
<1>7. \A p \in Places \ FieldPlaces : p # Payload /\ p # Name => ptr'[p] = ptr[p]
  OBVIOUS
<1>8. \A d \in 0..Cardinality(Msgs) : d # Depth => /\ ptr'[DataAt(d)] = ptr[DataAt(d)]
                                                   /\ ptr'[NameAt(d)] = ptr[NameAt(d)]
  <2>1. \A d \in 0..Cardinality(Msgs) :
            DataAt(d) \in Places \ FieldPlaces /\ NameAt(d) \in Places \ FieldPlaces
    BY Levels DEF ObjectPlaces
  <2>2. \A d \in 0..Cardinality(Msgs) : d # Depth =>
            /\ DataAt(d) # Payload /\ DataAt(d) # Name
            /\ NameAt(d) # Payload /\ NameAt(d) # Name
    BY <1>2, <1>3, Levels
  <2> QED
    BY <1>7, <2>1, <2>2
<1>9. FramesOK'
  <2>1. Handed(FrameAt(1).msg)'
    <3>1. PICK c \in ClientVars, e \in Envs : ptr[c] = e /\ ptr[<<e, 1, "data">>] = FrameAt(1).msg
      BY <1>0 DEF FramesOK, Handed
    <3>2. c \in Places \ FieldPlaces /\ c # Payload /\ c # Name
      BY <1>2, <1>3, Levels, PlacesApart DEF ObjectPlaces
    <3>3. /\ <<e, 1, "data">> \in Places \ FieldPlaces
          /\ <<e, 1, "data">> # Payload /\ <<e, 1, "data">> # Name
      BY <1>2, <1>3, Levels, HandedPlaces
    <3>4. FrameAt(1)'.msg = FrameAt(1).msg
      BY <1>2, <1>3, <1>6
    <3> QED
      BY <1>7, <3>1, <3>2, <3>3, <3>4 DEF Handed
  <2>2. ASSUME NEW d \in 1..Depth
        PROVE  /\ Empty(FrameAt(d).msg, FrameAt(d).fields)'
               /\ FrameAt(d)'.at \in {"width", "payload", "name", "append"}
                    => FrameAt(d)'.fields < MaxFields
    <3>1. CASE d = Depth
      BY <1>1, <3>1 DEF Empty
    <3>2. CASE d # Depth
      <4>1. FrameAt(d)' = FrameAt(d) /\ FrameAt(d).msg # Current.msg /\ FrameAt(d).msg \in Msgs
        BY <1>0, <1>1, <1>2, <3>2 DEF FramesOK, Frames
      <4>2. \A i \in 1..MaxFields, k \in {"data", "name"} :
                LET p == <<FrameAt(d).msg, i, k>>
                IN  p \in Places /\ p # Payload /\ p # Name /\ p[1] # Current.msg
        <5>1. \A i \in 1..MaxFields, k \in {"data", "name"} :
                <<FrameAt(d).msg, i, k>> \in ObjectPlaces
          BY <4>1 DEF ObjectPlaces, FieldPlaces
        <5>2. Payload \notin ObjectPlaces /\ Name \notin ObjectPlaces
          <6>1. Depth \in 0..Cardinality(Msgs)
            BY <1>2, <1>3
          <6> QED
            BY <1>2, <6>1, Levels
        <5>3. \A i, k : <<FrameAt(d).msg, i, k>>[1] = FrameAt(d).msg
          OBVIOUS
        <5> QED
          BY <4>1, <5>1, <5>2, <5>3, PlacesApart
      <4>3. Empty(FrameAt(d).msg, FrameAt(d).fields)
        BY <1>0 DEF FramesOK
      <4>4. Empty(FrameAt(d).msg, FrameAt(d).fields)'
        BY <4>1, <4>2, <4>3 DEF Empty
      <4> QED
        BY <1>0, <4>1, <4>4 DEF FramesOK
    <3> QED
      BY <3>1, <3>2
  <2>3. ASSUME NEW d \in 1..(Depth - 1)
        PROVE  FrameAt(d)'.at = "payload" /\ ptr'[DataAt(d)] = FrameAt(d + 1)'.msg
    <3>1. d \in 0..Cardinality(Msgs) /\ d # Depth /\ d + 1 \in 1..Depth /\ d \in 1..Depth
      BY <1>2, <1>3
    <3>2. (d + 1)' = d + 1
      OBVIOUS
    <3> QED
      BY <1>0, <1>1, <1>6, <1>8, <3>1 DEF FramesOK
  <2>4. \A d, e \in 1..Depth : FrameAt(d)'.msg = FrameAt(e)'.msg => d = e
    BY <1>0, <1>6 DEF FramesOK
  <2> QED
    BY <1>1, <2>1, <2>2, <2>3, <2>4 DEF FramesOK
<1>10. LocalsOK'
  <2>1. ptr'[NameAt(0)] = Null /\ ptr'[Message] \in Msgs \cup {Null} /\ ptr'[Message] = Null
    BY <1>0, <1>2, <1>3, <1>8, Levels DEF LocalsOK
  <2>2. ASSUME NEW d \in 1..Cardinality(Msgs), d # Depth
        PROVE  /\ ptr'[DataAt(d)] \notin Envs
               /\ ptr'[DataAt(d)] # Null => d < Depth
               /\ ptr'[NameAt(d)] = Null
    BY <1>0, <1>3, <1>8, <2>2 DEF LocalsOK
  <2>3. /\ ptr'[DataAt(Depth)] \notin Envs
        /\ ptr'[DataAt(Depth)] # Null => f.at \in {"name", "append"}
        /\ ptr'[NameAt(Depth)] \in Strs \cup {Null}
        /\ ptr'[NameAt(Depth)] # Null => f.at \in {"append", "cleanup"}
    BY <1>2
  <2>4. \A d \in 1..Cardinality(Msgs) :
          /\ ptr'[DataAt(d)] \notin Envs
          /\ ptr'[DataAt(d)] # Null =>
                d < Depth \/ (d = Depth /\ f.at \in {"name", "append"})
          /\ ptr'[NameAt(d)] \in Strs \cup {Null}
          /\ ptr'[NameAt(d)] # Null => d = Depth /\ f.at \in {"append", "cleanup"}
    <3> TAKE d \in 1..Cardinality(Msgs)
    <3>1. CASE d = Depth
      BY <2>3, <3>1
    <3>2. CASE d # Depth
      BY <2>2, <3>2
    <3> QED
      BY <3>1, <3>2
  <2> QED
    BY <1>1, <2>1, <2>4 DEF LocalsOK
<1> QED
  BY <1>4, <1>5, <1>9, <1>10

-----------------------------------------------------------------------------
(* The message of each call is live, and something other than a field      *)
(* holds it: the envelope, or the data of the call around it.              *)
LEMMA FrameHeld ==
    ASSUME IInv, Building, NEW d \in 1..Depth
    PROVE  /\ FrameAt(d).msg \in Msgs /\ mem[FrameAt(d).msg] = "live"
           /\ \E q \in Places \ FieldPlaces :
                 q # Payload /\ q # Name /\ ptr[q] = FrameAt(d).msg
<1>1. TypesOK /\ frames # <<>> /\ FramesOK /\ HeapOK
  BY DEF IInv, TypesOK, Building, Depth
<1>2. /\ Depth \in 1..Cardinality(Msgs) /\ FrameAt(d).msg \in Msgs
      /\ Payload = DataAt(Depth) /\ Name = NameAt(Depth)
  BY <1>1, Innermost DEF Frames
<1>3. Cardinality(Msgs) \in Nat /\ Depth \in Nat /\ Depth \in 0..Cardinality(Msgs)
  BY <1>2, MsgsFinite
<1>4. \E q \in Places \ FieldPlaces : q # Payload /\ q # Name /\ ptr[q] = FrameAt(d).msg
  <2>1. CASE d = 1
    <3>1. PICK e \in Envs : ptr[<<e, 1, "data">>] = FrameAt(1).msg
      BY <1>1 DEF FramesOK, Handed
    <3>2. /\ <<e, 1, "data">> \in Places \ FieldPlaces
          /\ <<e, 1, "data">> # Payload /\ <<e, 1, "data">> # Name
      BY <1>2, <1>3, Levels, HandedPlaces
    <3> QED
      BY <2>1, <3>1, <3>2
  <2>2. CASE d # 1
    <3>1. d - 1 \in 1..(Depth - 1) /\ d - 1 \in 0..Cardinality(Msgs) /\ d - 1 # Depth
          /\ (d - 1) + 1 = d
      BY <1>2, <1>3, <2>2
    <3>2. ptr[DataAt(d - 1)] = FrameAt(d).msg
      BY <1>1, <3>1 DEF FramesOK
    <3>3. /\ DataAt(d - 1) \in Places \ FieldPlaces
          /\ DataAt(d - 1) # Payload /\ DataAt(d - 1) # Name
      BY <1>2, <1>3, <3>1, Levels DEF ObjectPlaces
    <3> QED
      BY <3>2, <3>3
  <2> QED
    BY <2>1, <2>2
<1>5. PICK q \in Places : ptr[q] = FrameAt(d).msg
  BY <1>4
<1>6. FrameAt(d).msg # Null
  BY <1>2, KindsApart
<1>7. mem[FrameAt(d).msg] = "live"
  BY <1>1, <1>5, <1>6, PointedAtIsLive
<1> QED
  BY <1>2, <1>4, <1>7

(* What has one reference is held by one place.                            *)
LEMMA OnlyHolder ==
    ASSUME HeapOK, NEW o \in Objects, Owed(o) <= 1,
           NEW p \in Places, NEW q \in Places, ptr[p] = o, ptr[q] = o
    PROVE  p = q
<1>1. IsFiniteSet(PointingAt(ptr, o)) /\ Held(ptr, o) \in Nat /\ Held(ptr, o) <= 1
  BY HeldFinite DEF HeapOK, Counts
<1>2. p \in PointingAt(ptr, o) /\ q \in PointingAt(ptr, o)
  BY DEF PointingAt
<1>3. Held(ptr, o) # 0
  BY <1>2, HeldFinite
<1>4. Cardinality(PointingAt(ptr, o)) = 1
  BY <1>1, <1>3 DEF Held
<1>5. PICK x : PointingAt(ptr, o) = {x}
  BY <1>1, <1>4, FS_Singleton
<1> QED
  BY <1>2, <1>5

(* What a step of the innermost call finds.                                *)
LEMMA InTurn ==
    ASSUME IInv, NEW step, At(step)
    PROVE  /\ at = "fields" /\ Building /\ frames # <<>> /\ stack = <<>> /\ TypesOK /\ HeapOK
           /\ Current \in Frames /\ Current.at = step /\ mem[Current.msg] = "live"
           /\ frames \in Seq(Frames)
           /\ Payload \in LocalPlaces /\ Payload \in Places /\ Payload \notin ObjectPlaces
           /\ Name \in LocalPlaces /\ Name \in Places /\ Name \notin ObjectPlaces
           /\ Payload # Name /\ Payload \notin ClientVars /\ Name \notin ClientVars
           /\ ptr[Payload] \notin Envs /\ ptr[Name] \in Strs \cup {Null}
           /\ ptr[Payload] # Null => step \in {"name", "append"}
           /\ ptr[Name] # Null => step \in {"append", "cleanup"}
           /\ step \in {"width", "payload", "name", "append"} => Current.fields < MaxFields
           /\ \A i \in 1..MaxFields, k \in {"data", "name"} :
                 i > Current.fields => ptr[<<Current.msg, i, k>>] = Null
           /\ (step = "cleanup" => ptr[Name] = Null) =>
                 \A o \in Counted : mem[o] = "live" => count[o] <= 1
           /\ ptr \in [Places -> Addresses] /\ mem \in [Objects -> {"unused", "live", "freed"}]
           /\ count \in [Counted -> Nat]
<1>1. /\ at = "fields" /\ Building /\ frames # <<>> /\ stack = <<>> /\ TypesOK /\ HeapOK
      /\ Current.at = step /\ FramesOK /\ LocalsOK /\ frames \in Seq(Frames)
  BY DEF IInv, At, TypesOK, Building, Depth
<1>2. /\ Depth \in 1..Cardinality(Msgs) /\ Current \in Frames /\ Current = FrameAt(Depth)
      /\ Payload = DataAt(Depth) /\ Name = NameAt(Depth)
  BY <1>1, Innermost
<1>3. Depth \in 0..Cardinality(Msgs) /\ Depth \in 1..Depth
  BY <1>2, MsgsFinite
<1>4. mem[Current.msg] = "live"
  BY <1>1, <1>2, <1>3, FrameHeld
<1>5. /\ Payload \in LocalPlaces /\ Payload \in Places /\ Payload \notin ObjectPlaces
      /\ Name \in LocalPlaces /\ Name \in Places /\ Name \notin ObjectPlaces
      /\ Payload # Name /\ Payload \notin ClientVars /\ Name \notin ClientVars
  BY <1>2, <1>3, Levels
<1>6. /\ ptr[Payload] \notin Envs /\ ptr[Name] \in Strs \cup {Null}
      /\ ptr[Payload] # Null => step \in {"name", "append"}
      /\ ptr[Name] # Null => step \in {"append", "cleanup"}
  BY <1>1, <1>2, <1>3 DEF LocalsOK
<1>7. /\ step \in {"width", "payload", "name", "append"} => Current.fields < MaxFields
      /\ \A i \in 1..MaxFields, k \in {"data", "name"} :
            i > Current.fields => ptr[<<Current.msg, i, k>>] = Null
  BY <1>1, <1>2, <1>3 DEF FramesOK, Empty
<1>8. (step = "cleanup" => ptr[Name] = Null) =>
         \A o \in Counted : mem[o] = "live" => count[o] <= 1
  BY <1>1, KindsApart DEF IInv, OnceHeld
<1>9. /\ ptr \in [Places -> Addresses] /\ mem \in [Objects -> {"unused", "live", "freed"}]
      /\ count \in [Counted -> Nat]
  BY <1>1 DEF HeapOK, HeapTypeOK, Addresses
<1> QED
  BY <1>1, <1>2, <1>4, <1>5, <1>6, <1>7, <1>8, <1>9

(* A step of the innermost call that leaves the heap alone.                *)
LEMMA QuietTurn ==
    ASSUME IInv, NEW step, At(step), step = "cleanup" => ptr[Name] = Null,
           UNCHANGED <<heapVars, at>>,
           NEW f \in Frames, Turns(f), f.msg = Current.msg, f.fields = Current.fields,
           f.at \in {"width", "payload", "name", "append"} => f.fields < MaxFields,
           ptr[Payload] # Null => f.at \in {"name", "append"},
           ptr[Name] # Null => f.at \in {"append", "cleanup"}
    PROVE  IInv'
<1>1. /\ at = "fields" /\ HeapOK /\ ptr[Payload] \notin Envs /\ ptr[Name] \in Strs \cup {Null}
      /\ \A i \in 1..MaxFields, k \in {"data", "name"} :
            i > Current.fields => ptr[<<Current.msg, i, k>>] = Null
      /\ \A o \in Counted : mem[o] = "live" => count[o] <= 1
  BY InTurn
<1>2. ptr' = ptr /\ mem' = mem /\ count' = count
  BY DEF heapVars
<1>3. HeapOK'
  BY <1>1, HeapAsBefore
<1>4. Shape'
  BY <1>2, ShapeKept DEF IInv
<1>5. OnceHeld'
  BY <1>1, <1>2 DEF OnceHeld
<1>6. TypesOK' /\ NoFrames' /\ FramesOK' /\ LocalsOK'
  BY <1>1, <1>2, TurnKeeps DEF Used
<1> QED
  BY <1>3, <1>4, <1>5, <1>6 DEF IInv

(* Going on, and failing, are such steps.                                  *)
LEMMA Goes ==
    ASSUME NEW step, frames \in Seq(Frames), frames # <<>>
    PROVE  /\ Goto(step) => Turns([Current EXCEPT !.at = step])
           /\ Fail(step) => Turns([Current EXCEPT !.at = step, !.failed = TRUE])
BY DEF Goto, Fail, Turns, Current

(* The steps of one loop that leave the heap alone.                        *)
LEMMA DecodeFieldHeaderIInv ==
    ASSUME IInv, DecodeFieldHeader
    PROVE  IInv'
<1>1. At("next") /\ Current.fields < MaxFields /\ UNCHANGED <<heapVars, at>>
  BY DEF DecodeFieldHeader
<1>2. PICK b \in BOOLEAN : frames' = [frames EXCEPT ![1].at = "width", ![1].named = b]
  BY DEF DecodeFieldHeader
<1>3. /\ frames \in Seq(Frames) /\ frames # <<>> /\ Current \in Frames
      /\ ptr[Payload] = Null /\ ptr[Name] = Null
  BY <1>1, InTurn
<1> DEFINE f == [Current EXCEPT !.at = "width", !.named = b]
<1>4. /\ f \in Frames /\ f.msg = Current.msg /\ f.fields = Current.fields /\ f.at = "width"
  BY <1>3 DEF Frames
<1>5. Turns(f)
  BY <1>2, <1>3 DEF Turns, Current
<1> HIDE DEF f
<1> QED
  BY <1>1, <1>3, <1>4, <1>5, QuietTurn

LEMMA HeaderFailsIInv ==
    ASSUME IInv, HeaderFails
    PROVE  IInv'
<1>1. At("next") /\ Fail("return") /\ UNCHANGED <<heapVars, at>>
  BY DEF HeaderFails
<1>2. /\ frames \in Seq(Frames) /\ frames # <<>> /\ Current \in Frames
      /\ ptr[Payload] = Null /\ ptr[Name] = Null
  BY <1>1, InTurn
<1> DEFINE f == [Current EXCEPT !.at = "return", !.failed = TRUE]
<1>3. f \in Frames /\ f.msg = Current.msg /\ f.fields = Current.fields /\ f.at = "return"
  BY <1>2 DEF Frames
<1>4. Turns(f)
  BY <1>1, <1>2, Goes
<1> HIDE DEF f
<1> QED
  BY <1>1, <1>2, <1>3, <1>4, QuietTurn

LEMMA GetFieldWidthIInv ==
    ASSUME IInv, GetFieldWidth
    PROVE  IInv'
<1>1. At("width") /\ (Goto("payload") \/ Fail("cleanup")) /\ UNCHANGED <<heapVars, at>>
  BY DEF GetFieldWidth
<1>2. /\ frames \in Seq(Frames) /\ frames # <<>> /\ Current \in Frames
      /\ ptr[Payload] = Null /\ ptr[Name] = Null /\ Current.fields < MaxFields
  BY <1>1, InTurn
<1>3. ASSUME Goto("payload") PROVE IInv'
  <2> DEFINE f == [Current EXCEPT !.at = "payload"]
  <2>1. f \in Frames /\ f.msg = Current.msg /\ f.fields = Current.fields /\ f.at = "payload"
    BY <1>2 DEF Frames
  <2>2. Turns(f)
    BY <1>2, <1>3, Goes
  <2> HIDE DEF f
  <2> QED
    BY <1>1, <1>2, <2>1, <2>2, QuietTurn
<1>4. ASSUME Fail("cleanup") PROVE IInv'
  <2> DEFINE f == [Current EXCEPT !.at = "cleanup", !.failed = TRUE]
  <2>1. f \in Frames /\ f.msg = Current.msg /\ f.fields = Current.fields /\ f.at = "cleanup"
    BY <1>2 DEF Frames
  <2>2. Turns(f)
    BY <1>2, <1>4, Goes
  <2> HIDE DEF f
  <2> QED
    BY <1>1, <1>2, <2>1, <2>2, QuietTurn
<1> QED
  BY <1>1, <1>3, <1>4

LEMMA PayloadFailsIInv ==
    ASSUME IInv, PayloadFails
    PROVE  IInv'
<1>1. At("payload") /\ Fail("cleanup") /\ UNCHANGED <<heapVars, at>>
  BY DEF PayloadFails
<1>2. /\ frames \in Seq(Frames) /\ frames # <<>> /\ Current \in Frames
      /\ ptr[Payload] = Null /\ ptr[Name] = Null
  BY <1>1, InTurn
<1> DEFINE f == [Current EXCEPT !.at = "cleanup", !.failed = TRUE]
<1>3. f \in Frames /\ f.msg = Current.msg /\ f.fields = Current.fields /\ f.at = "cleanup"
  BY <1>2 DEF Frames
<1>4. Turns(f)
  BY <1>1, <1>2, Goes
<1> HIDE DEF f
<1> QED
  BY <1>1, <1>2, <1>3, <1>4, QuietTurn

LEMMA EndOfFieldsIInv ==
    ASSUME IInv, EndOfFields
    PROVE  IInv'
<1>1. At("next") /\ Goto("return") /\ UNCHANGED <<heapVars, at>>
  BY DEF EndOfFields
<1>2. /\ frames \in Seq(Frames) /\ frames # <<>> /\ Current \in Frames
      /\ ptr[Payload] = Null /\ ptr[Name] = Null
  BY <1>1, InTurn
<1> DEFINE f == [Current EXCEPT !.at = "return"]
<1>3. f \in Frames /\ f.msg = Current.msg /\ f.fields = Current.fields /\ f.at = "return"
  BY <1>2 DEF Frames
<1>4. Turns(f)
  BY <1>1, <1>2, Goes
<1> HIDE DEF f
<1> QED
  BY <1>1, <1>2, <1>3, <1>4, QuietTurn

LEMMA NameFailsIInv ==
    ASSUME NamesMade, IInv, NameFails
    PROVE  IInv'
<1>1. At("name") /\ Fail("cleanup") /\ ptr[Payload] = Null
  BY DEF NameFails, NamesMade
<1>2. /\ frames \in Seq(Frames) /\ frames # <<>> /\ Current \in Frames /\ HeapOK
      /\ ptr[Name] = Null /\ Payload \in Places
  BY <1>1, InTurn
<1>3. UNCHANGED <<heapVars, at>>
  <2>1. Payload \notin raw
    BY <1>1, <1>2, KindsApart DEF HeapOK, RawOK
  <2>2. ptr' = ptr
    BY <1>1, <1>2 DEF NameFails, HeapOK, HeapTypeOK
  <2> QED
    BY <2>1, <2>2 DEF NameFails, heapVars
<1> DEFINE f == [Current EXCEPT !.at = "cleanup", !.failed = TRUE]
<1>4. f \in Frames /\ f.msg = Current.msg /\ f.fields = Current.fields /\ f.at = "cleanup"
  BY <1>2 DEF Frames
<1>5. Turns(f)
  BY <1>1, <1>2, Goes
<1> HIDE DEF f
<1> QED
  BY <1>1, <1>2, <1>3, <1>4, <1>5, QuietTurn

-----------------------------------------------------------------------------
(* New objects get addresses that were not used before.                    *)
LEMMA NewIsUnused ==
    ASSUME NEW S, Unused(S) # {}
    PROVE  New(S) \in S /\ mem[New(S)] = "unused"
BY DEF New, Unused

(* A string or block made in a local.                                      *)
LEMMA AllocateTurn ==
    ASSUME IInv, NEW step, At(step), step # "cleanup",
           NEW o \in Strs \cup Blobs, mem[o] = "unused",
           NEW p \in {Payload, Name}, ptr[p] = Null, p = Name => o \in Strs,
           Allocate(o, p), at' = at,
           NEW f \in Frames, Turns(f), f.msg = Current.msg, f.fields = Current.fields,
           f.at \in {"width", "payload", "name", "append"} => f.fields < MaxFields,
           ptr[Payload] # Null \/ p = Payload => f.at \in {"name", "append"},
           ptr[Name] # Null \/ p = Name => f.at \in {"append", "cleanup"}
    PROVE  IInv'
<1>1. /\ at = "fields" /\ HeapOK /\ ptr[Payload] \notin Envs /\ ptr[Name] \in Strs \cup {Null}
      /\ \A i \in 1..MaxFields, k \in {"data", "name"} :
            i > Current.fields => ptr[<<Current.msg, i, k>>] = Null
      /\ \A r \in Counted : mem[r] = "live" => count[r] <= 1
      /\ p \in LocalPlaces /\ p \in Places /\ p \notin ObjectPlaces /\ Payload # Name
      /\ ptr \in [Places -> Addresses] /\ mem \in [Objects -> {"unused", "live", "freed"}]
      /\ count \in [Counted -> Nat] /\ Payload \in Places /\ Name \in Places
  BY InTurn
<1>2. o \in Objects /\ o \notin Envs /\ o \notin Msgs
  BY KindsApart, ObjectHeapAssumption
<1>3. /\ ptr' = [ptr EXCEPT ![p] = o] /\ mem' = [mem EXCEPT ![o] = "live"]
      /\ count' = IF o \in Counted THEN [count EXCEPT ![o] = 1] ELSE count
  BY DEF Allocate
<1>4. HeapOK'
  BY <1>1, <1>2, NewKeeps DEF Allocate, Changed
<1>5. Shape'
  BY <1>1, <1>3, PlacesApart, ShapeKept DEF IInv
<1>6. OnceHeld'
  BY <1>1, <1>2, <1>3, KindsApart DEF OnceHeld
<1>7. TypesOK' /\ NoFrames' /\ FramesOK' /\ LocalsOK'
  <2>1. \A q \in Places : q = Payload \/ q = Name \/ ptr'[q] = ptr[q]
    BY <1>1, <1>3
  <2>2. \A i \in 1..MaxFields, k \in {"data", "name"} :
            i > f.fields => ptr'[<<f.msg, i, k>>] = Null
    <3>1. Current.msg \in Msgs
      BY InTurn DEF Frames
    <3>2. \A i \in 1..MaxFields, k \in {"data", "name"} : <<Current.msg, i, k>> \in ObjectPlaces
      BY <3>1 DEF ObjectPlaces, FieldPlaces
    <3> QED
      BY <1>1, <1>3, <3>2, PlacesApart
  <2>3. /\ ptr'[Payload] = IF p = Payload THEN o ELSE ptr[Payload]
        /\ ptr'[Name] = IF p = Name THEN o ELSE ptr[Name]
    BY <1>1, <1>3
  <2>4. /\ ptr'[Payload] \notin Envs
        /\ ptr'[Payload] # Null => f.at \in {"name", "append"}
        /\ ptr'[Name] \in Strs \cup {Null}
        /\ ptr'[Name] # Null => f.at \in {"append", "cleanup"}
    BY <1>1, <1>2, <2>3
  <2>5. \A m \in Used : mem'[m] # "unused"
    BY <1>1, <1>3, KindsApart DEF Used
  <2> QED
    BY <1>1, <2>1, <2>2, <2>4, <2>5, TurnKeeps
<1> QED
  BY <1>4, <1>5, <1>6, <1>7 DEF IInv

(* The two steps that make something in a local.                           *)
LEMMA DecodeLeafIInv ==
    ASSUME IInv, DecodeLeaf
    PROVE  IInv'
<1>1. At("payload") /\ Goto("name") /\ at' = at
  BY DEF DecodeLeaf
<1>2. /\ frames \in Seq(Frames) /\ frames # <<>> /\ Current \in Frames
      /\ ptr[Payload] = Null /\ ptr[Name] = Null /\ Current.fields < MaxFields
      /\ Payload # Name
  BY <1>1, InTurn
<1> DEFINE f == [Current EXCEPT !.at = "name"]
<1>3. f \in Frames /\ f.msg = Current.msg /\ f.fields = Current.fields /\ f.at = "name"
  BY <1>2 DEF Frames
<1>4. Turns(f)
  BY <1>1, <1>2, Goes
<1> HIDE DEF f
<1>5. ASSUME UNCHANGED heapVars PROVE IInv'
  BY <1>1, <1>2, <1>3, <1>4, <1>5, QuietTurn
<1>6. ASSUME Unused(Blobs) # {}, Allocate(New(Blobs), Payload) PROVE IInv'
  <2>1. New(Blobs) \in Blobs /\ mem[New(Blobs)] = "unused"
    BY <1>6, NewIsUnused
  <2> QED
    BY <1>1, <1>2, <1>3, <1>4, <1>6, <2>1, AllocateTurn
<1>7. ASSUME SpareStr, Allocate(New(Strs), Payload) PROVE IInv'
  <2>1. Unused(Strs) # {}
    <3> DEFINE I == {i \in DOMAIN frames : frames[i].named}
    <3>1. I \subseteq 1..Len(frames) /\ Len(frames) \in Nat
      BY <1>2
    <3>2. IsFiniteSet(1..Len(frames))
      BY <3>1, FS_Interval
    <3>3. Cardinality(I) \in Nat
      BY <3>1, <3>2, FS_Subset, FS_CardinalityType
    <3>4. Cardinality({}) = 0
      BY FS_EmptySet
    <3>5. Cardinality(Unused(Strs)) > Cardinality(I)
      BY <1>7 DEF SpareStr, NamesToCome
    <3> HIDE DEF I
    <3> QED
      BY <3>3, <3>4, <3>5
  <2>2. New(Strs) \in Strs /\ mem[New(Strs)] = "unused"
    BY <2>1, NewIsUnused
  <2> QED
    BY <1>1, <1>2, <1>3, <1>4, <1>7, <2>2, AllocateTurn
<1> QED
  BY <1>5, <1>6, <1>7 DEF DecodeLeaf

LEMMA CreateNameIInv ==
    ASSUME IInv, CreateName
    PROVE  IInv'
<1>1. At("name") /\ at' = at
  BY DEF CreateName
<1>2. /\ frames \in Seq(Frames) /\ frames # <<>> /\ Current \in Frames
      /\ ptr[Name] = Null /\ Current.fields < MaxFields /\ Payload # Name
  BY <1>1, InTurn
<1>3. ASSUME Unused(Strs) # {}, Allocate(New(Strs), Name),
             frames' = [frames EXCEPT ![1].at = "append", ![1].named = FALSE]
      PROVE  IInv'
  <2> DEFINE f == [Current EXCEPT !.at = "append", !.named = FALSE]
  <2>1. f \in Frames /\ f.msg = Current.msg /\ f.fields = Current.fields /\ f.at = "append"
    BY <1>2 DEF Frames
  <2>2. Turns(f)
    BY <1>2, <1>3 DEF Turns, Current
  <2> HIDE DEF f
  <2>3. New(Strs) \in Strs /\ mem[New(Strs)] = "unused"
    BY <1>3, NewIsUnused
  <2> QED
    BY <1>1, <1>2, <1>3, <2>1, <2>2, <2>3, AllocateTurn
<1>4. ASSUME Goto("append"), UNCHANGED heapVars PROVE IInv'
  <2> DEFINE f == [Current EXCEPT !.at = "append"]
  <2>1. f \in Frames /\ f.msg = Current.msg /\ f.fields = Current.fields /\ f.at = "append"
    BY <1>2 DEF Frames
  <2>2. Turns(f)
    BY <1>2, <1>4, Goes
  <2> HIDE DEF f
  <2> QED
    BY <1>1, <1>2, <1>4, <2>1, <2>2, QuietTurn
<1> QED
  BY <1>3, <1>4 DEF CreateName

-----------------------------------------------------------------------------
(* Giving up a pointer raises no count, and lowers that of its target.     *)
LEMMA DestroyCounts ==
    ASSUME HeapOK, NEW p \in Places, ptr[p] # Null, DestroyPointer(p)
    PROVE  /\ \A o \in Counted : count'[o] <= count[o]
           /\ ptr[p] \in Counted => count'[ptr[p]] = count[ptr[p]] - 1
<1>1. count \in [Counted -> Nat] /\ ptr[p] \in Objects
  BY DEF HeapOK, HeapTypeOK
<1>2. CASE p \in raw
  <2>1. count' = count /\ ptr[p] \in Blobs
    BY <1>2 DEF DestroyPointer, HeapOK, RawOK
  <2> QED
    BY <1>1, <2>1, KindsApart
<1>3. CASE p \notin raw
  <2>1. ptr[p] \in Counted
    BY <1>1, <1>3, KindsApart DEF HeapOK, RawOK
  <2>2. count' = [count EXCEPT ![ptr[p]] = @ - 1]
    BY <1>3 DEF DestroyPointer, ReleaseObject
  <2> QED
    BY <1>1, <2>1, <2>2
<1> QED
  BY <1>2, <1>3

(* A local of the innermost call is given up.                              *)
LEMMA DestroyTurn ==
    ASSUME IInv, NEW step, At(step),
           NEW p \in {Payload, Name}, ptr[p] # Null, DestroyPointer(p), at' = at,
           step = "cleanup" => p = Name,
           NEW f \in Frames, Turns(f), f.msg = Current.msg, f.fields = Current.fields,
           f.at \in {"width", "payload", "name", "append"} => f.fields < MaxFields,
           ptr[Payload] # Null /\ p # Payload => f.at \in {"name", "append"},
           ptr[Name] # Null /\ p # Name => f.at \in {"append", "cleanup"}
    PROVE  IInv'
<1>1. /\ at = "fields" /\ HeapOK /\ ptr[Payload] \notin Envs /\ ptr[Name] \in Strs \cup {Null}
      /\ \A i \in 1..MaxFields, k \in {"data", "name"} :
            i > Current.fields => ptr[<<Current.msg, i, k>>] = Null
      /\ p \in LocalPlaces /\ p \in Places /\ p \notin ObjectPlaces /\ Payload # Name
      /\ ptr \in [Places -> Addresses] /\ Payload \in Places /\ Name \in Places
      /\ count \in [Counted -> Nat] /\ Current \in Frames
  BY InTurn
<1>2. /\ HeapOK' /\ ptr' = [ptr EXCEPT ![p] = Null]
      /\ \A o \in Counted : mem'[o] = mem[o]
  BY <1>1, DestroyKeeps
<1>3. Shape'
  BY <1>1, <1>2, PlacesApart, ShapeKept DEF IInv
<1>4. ASSUME NEW o \in Counted, mem'[o] = "live" PROVE count'[o] <= 1
  <2>1. mem[o] = "live" /\ count[o] \in Nat /\ count'[o] <= count[o] /\ count'[o] \in Nat
    BY <1>1, <1>2, <1>4, DestroyCounts DEF HeapOK, HeapTypeOK
  <2>2. CASE count[o] <= 1
    BY <2>1, <2>2
  <2>3. CASE ~ (count[o] <= 1)
    <3>1. count[o] = 2 /\ Current.at = "cleanup" /\ o = ptr[Name]
      BY <1>1, <2>1, <2>3 DEF IInv, OnceHeld
    <3>2. p = Name
      BY <3>1, InTurn
    <3>3. count'[o] = count[o] - 1
      BY <1>1, <3>1, <3>2, DestroyCounts
    <3> QED
      BY <3>1, <3>3
  <2> QED
    BY <2>2, <2>3
<1>5. OnceHeld'
  BY <1>4 DEF OnceHeld
<1>6. TypesOK' /\ NoFrames' /\ FramesOK' /\ LocalsOK'
  <2>1. \A q \in Places : q = Payload \/ q = Name \/ ptr'[q] = ptr[q]
    BY <1>1, <1>2
  <2>2. \A i \in 1..MaxFields, k \in {"data", "name"} :
            i > f.fields => ptr'[<<f.msg, i, k>>] = Null
    <3>1. \A i \in 1..MaxFields, k \in {"data", "name"} : <<Current.msg, i, k>> \in ObjectPlaces
      BY <1>1 DEF ObjectPlaces, FieldPlaces, Frames
    <3> QED
      BY <1>1, <1>2, <3>1, PlacesApart
  <2>3. /\ ptr'[Payload] = IF p = Payload THEN Null ELSE ptr[Payload]
        /\ ptr'[Name] = IF p = Name THEN Null ELSE ptr[Name]
    BY <1>1, <1>2
  <2>4. /\ ptr'[Payload] \notin Envs
        /\ ptr'[Payload] # Null => f.at \in {"name", "append"}
        /\ ptr'[Name] \in Strs \cup {Null}
        /\ ptr'[Name] # Null => f.at \in {"append", "cleanup"}
    BY <1>1, <2>3, KindsApart
  <2>5. \A m \in Used : mem'[m] # "unused"
    BY <1>2, KindsApart DEF Used
  <2> QED
    BY <1>1, <2>1, <2>2, <2>4, <2>5, TurnKeeps
<1> QED
  BY <1>2, <1>3, <1>5, <1>6 DEF IInv

(* The two steps that give up a local.                                     *)
LEMMA AppendFailsIInv ==
    ASSUME IInv, AppendFails
    PROVE  IInv'
<1>1. At("append") /\ Fail("cleanup") /\ at' = at
  BY DEF AppendFails
<1>2. frames \in Seq(Frames) /\ frames # <<>> /\ Current \in Frames
  BY <1>1, InTurn
<1> DEFINE f == [Current EXCEPT !.at = "cleanup", !.failed = TRUE]
<1>3. f \in Frames /\ f.msg = Current.msg /\ f.fields = Current.fields /\ f.at = "cleanup"
  BY <1>2 DEF Frames
<1>4. Turns(f)
  BY <1>1, <1>2, Goes
<1> HIDE DEF f
<1>5. CASE ptr[Payload] = Null
  <2>1. UNCHANGED heapVars
    BY <1>5 DEF AppendFails
  <2> QED
    BY <1>1, <1>3, <1>4, <1>5, <2>1, QuietTurn
<1>6. CASE ptr[Payload] # Null
  <2>1. DestroyPointer(Payload)
    BY <1>6 DEF AppendFails
  <2> QED
    BY <1>1, <1>3, <1>4, <1>6, <2>1, DestroyTurn
<1> QED
  BY <1>5, <1>6

LEMMA CleanupIInv ==
    ASSUME IInv, Cleanup
    PROVE  IInv'
<1>1. At("cleanup") /\ at' = at
  BY DEF Cleanup
<1>2. /\ frames \in Seq(Frames) /\ frames # <<>> /\ Current \in Frames
      /\ ptr[Payload] = Null
  BY <1>1, InTurn
<1> DEFINE next == IF Current.failed THEN "return" ELSE "next"
           f == [Current EXCEPT !.at = next, !.named = FALSE]
<1>3. next \in {"return", "next"}
  OBVIOUS
<1>a. frames' = [frames EXCEPT ![1].at = next, ![1].named = FALSE]
  BY DEF Cleanup
<1> HIDE DEF next
<1>4. f \in Frames /\ f.msg = Current.msg /\ f.fields = Current.fields /\ f.at = next
  BY <1>2, <1>3 DEF Frames
<1>5. Turns(f)
  BY <1>2, <1>a DEF Turns, Current
<1> HIDE DEF f
<1>6. CASE ptr[Name] = Null
  <2>1. UNCHANGED heapVars
    BY <1>6 DEF Cleanup
  <2> QED
    BY <1>1, <1>2, <1>3, <1>4, <1>5, <1>6, <2>1, QuietTurn
<1>7. CASE ptr[Name] # Null
  <2>1. DestroyPointer(Name)
    BY <1>7 DEF Cleanup
  <2> QED
    BY <1>1, <1>2, <1>3, <1>4, <1>5, <1>7, <2>1, DestroyTurn
<1> QED
  BY <1>6, <1>7

-----------------------------------------------------------------------------
(* The slots of the field to be added exist and are empty.                 *)
LEMMA SlotsToFill ==
    ASSUME IInv, At("append")
    PROVE  /\ DataSlot \in FieldPlaces /\ NameSlot \in FieldPlaces /\ DataSlot # NameSlot
           /\ DataSlot \in ObjectPlaces /\ NameSlot \in ObjectPlaces
           /\ DataSlot \in Places /\ NameSlot \in Places
           /\ DataSlot[1] = Current.msg /\ NameSlot[1] = Current.msg
           /\ ptr[DataSlot] = Null /\ ptr[NameSlot] = Null
           /\ Current.fields + 1 \in 1..MaxFields
           /\ \A i \in 1..MaxFields, k \in {"data", "name"} : i > Current.fields + 1 =>
                 /\ <<Current.msg, i, k>> # DataSlot /\ <<Current.msg, i, k>> # NameSlot
                 /\ <<Current.msg, i, k>> \in ObjectPlaces
                 /\ ptr[<<Current.msg, i, k>>] = Null
<1>1. /\ Current \in Frames /\ Current.fields < MaxFields
      /\ \A i \in 1..MaxFields, k \in {"data", "name"} :
            i > Current.fields => ptr[<<Current.msg, i, k>>] = Null
  BY InTurn
<1>2. Current.msg \in Msgs /\ Current.fields \in 0..MaxFields
  BY <1>1 DEF Frames
<1>3. PICK n : n = Current.fields
  OBVIOUS
<1>4. PICK m \in Msgs : m = Current.msg
  BY <1>2
<1>5. n \in Nat /\ MaxFields \in Nat /\ n + 1 \in 1..MaxFields
  BY <1>1, <1>2, <1>3, ObjectHeapAssumption
<1>6. DataSlot = <<m, n + 1, "data">> /\ NameSlot = <<m, n + 1, "name">>
  BY <1>3, <1>4 DEF DataSlot, NameSlot
<1>7. \A i \in 1..MaxFields, k \in {"data", "name"} : <<m, i, k>> \in FieldPlaces
  BY DEF FieldPlaces
<1>8. DataSlot \in FieldPlaces /\ NameSlot \in FieldPlaces /\ DataSlot # NameSlot
  BY <1>5, <1>6, <1>7
<1>9. ptr[DataSlot] = Null /\ ptr[NameSlot] = Null
  <2>1. n + 1 > n
    BY <1>5
  <2> QED
    BY <1>1, <1>3, <1>4, <1>5, <1>6, <2>1
<1>10. \A i \in 1..MaxFields, k \in {"data", "name"} : i > n + 1 =>
         /\ <<m, i, k>> # DataSlot /\ <<m, i, k>> # NameSlot
         /\ i > n
  BY <1>5, <1>6
<1>11. FieldPlaces \subseteq ObjectPlaces
  BY DEF ObjectPlaces
<1> QED
  BY <1>1, <1>3, <1>4, <1>5, <1>6, <1>7, <1>8, <1>9, <1>10, <1>11, PlacesApart

(* Where the field's two pointers are afterwards.                          *)
LEMMA AddFieldPlaces ==
    ASSUME IInv, AddField
    PROVE  \A p \in Places : ptr'[p] = IF p = DataSlot THEN ptr[Payload]
                                       ELSE IF p = NameSlot THEN ptr[Name]
                                       ELSE IF p = Payload THEN Null ELSE ptr[p]
<1>1. /\ At("append")
      /\ ptr' = [ptr EXCEPT ![DataSlot] = ptr[Payload], ![Payload] = Null,
                            ![NameSlot] = ptr[Name]]
  BY DEF AddField
<1>2. /\ Payload \in Places /\ Payload \notin ObjectPlaces /\ ptr \in [Places -> Addresses]
  BY <1>1, InTurn
<1>3. /\ DataSlot \in ObjectPlaces /\ NameSlot \in ObjectPlaces /\ DataSlot # NameSlot
      /\ DataSlot \in Places /\ NameSlot \in Places
  BY <1>1, SlotsToFill
<1> QED
  BY <1>1, <1>2, <1>3

(* The payload moves into the field, the name is retained for it.          *)
LEMMA AddFieldHeap ==
    ASSUME IInv, AddField
    PROVE  HeapOK'
<1> USE PlacesApart, KindsApart
<1>1. At("append")
  BY DEF AddField
<1>2. /\ HeapOK /\ stack = <<>> /\ mem[Current.msg] = "live" /\ Payload # Name
      /\ Payload \in Places /\ Payload \notin ObjectPlaces /\ Payload \notin ClientVars
      /\ Name \in Places /\ Name \notin ObjectPlaces
      /\ ptr[Name] \in Strs \cup {Null}
      /\ ptr \in [Places -> Addresses] /\ count \in [Counted -> Nat]
  BY <1>1, InTurn
<1>3. /\ DataSlot \in ObjectPlaces /\ NameSlot \in ObjectPlaces /\ DataSlot # NameSlot
      /\ DataSlot \in Places /\ NameSlot \in Places
      /\ DataSlot[1] = Current.msg /\ NameSlot[1] = Current.msg
      /\ ptr[DataSlot] = Null /\ ptr[NameSlot] = Null
  BY <1>1, SlotsToFill
<1>4. /\ ptr' = [ptr EXCEPT ![DataSlot] = ptr[Payload], ![Payload] = Null,
                            ![NameSlot] = ptr[Name]]
      /\ raw' = IF Payload \in raw THEN (raw \ {Payload}) \cup {DataSlot} ELSE raw
      /\ UNCHANGED <<mem, stack>>
      /\ count' = IF ptr[Name] = Null THEN count
                  ELSE [count EXCEPT ![ptr[Name]] = @ + 1]
  BY DEF AddField
<1>5. PICK new : Moved(ptr, Payload, DataSlot, new)
  BY DEF Moved
<1>6. new \in [Places -> Addresses] /\ \A r \in Objects : Held(new, r) = Held(ptr, r)
  BY <1>2, <1>3, <1>5, HeldElsewhere
<1>7. new[NameSlot] = Null /\ Changed(new, NameSlot, ptr[Name], ptr')
  BY <1>2, <1>3, <1>4, <1>5 DEF Moved, Changed
<1>8. CASE ptr[Name] = Null
  <2>1. ptr' = new
    BY <1>3, <1>6, <1>7, <1>8 DEF Changed
  <2> QED
    BY <1>2, <1>3, <1>4, <1>5, <1>8, <2>1, MoveKeeps
<1>9. CASE ptr[Name] # Null
  <2>1. PICK s \in Strs : s = ptr[Name]
    BY <1>2, <1>9
  <2>2. s \in Objects /\ s \in Counted
    OBVIOUS
  <2>3. /\ ptr' \in [Places -> Addresses] /\ Held(ptr', s) = Held(new, s) + 1
        /\ \A r \in Objects : r # s => Held(ptr', r) = Held(new, r)
    BY <1>3, <1>6, <1>7, <2>1, <2>2, HeldOneMore
  <2>4. mem[s] = "live" /\ count[s] > 0
    BY <1>2, <1>9, <2>1, <2>2, PointedAtIsLive
  <2>5. count' = [count EXCEPT ![s] = count[s] + 1] /\ mem' = mem /\ stack' = stack
    BY <1>4, <1>9, <2>1
  <2>6. HeapTypeOK'
    <3>1. raw' \subseteq Places
      BY <1>2, <1>3, <1>4 DEF HeapOK, HeapTypeOK
    <3>2. count' \in [Counted -> Nat]
      BY <1>2, <2>2, <2>5
    <3> QED
      BY <1>2, <2>3, <2>5, <3>1, <3>2 DEF HeapOK, HeapTypeOK, Addresses
  <2>7. Counts'
    <3>1. Owed(s)' = Owed(s) + 1 /\ \A r \in Objects : r # s => Owed(r)' = Owed(r)
      BY <1>2, <2>2, <2>4, <2>5 DEF Owed
    <3> QED
      BY <1>2, <1>6, <2>2, <2>3, <3>1 DEF HeapOK, Counts
  <2>8. RawOK'
    <3>1. RawOK /\ Name \notin raw /\ DataSlot \notin raw /\ NameSlot \notin raw
      BY <1>2, <1>3 DEF HeapOK, RawOK
    <3>2. \A p \in Places : p \in raw' <=> \/ p = DataSlot /\ Payload \in raw
                                           \/ p \in raw /\ p # Payload
      BY <1>2, <1>3, <1>4, <3>1
    <3>3. ASSUME NEW p \in Places PROVE p \in raw' <=> ptr'[p] \in Blobs
      <4>1. CASE p = DataSlot
        BY <1>2, AddFieldPlaces, <3>1, <3>2, <4>1 DEF RawOK
      <4>2. CASE p = NameSlot
        BY <1>2, <1>3, AddFieldPlaces, <3>1, <3>2, <4>2 DEF RawOK
      <4>3. CASE p = Payload
        BY <1>2, <1>3, AddFieldPlaces, <3>1, <3>2, <4>3 DEF RawOK
      <4>4. CASE p \notin {DataSlot, NameSlot, Payload}
        BY AddFieldPlaces, <3>1, <3>2, <4>4 DEF RawOK
      <4> QED
        BY <4>1, <4>2, <4>3, <4>4
    <3>4. raw' \cap ClientVars = {}
      BY <1>2, <1>3, <1>4, <3>1 DEF RawOK
    <3> QED
      BY <3>3, <3>4 DEF RawOK
  <2>9. OwnersLive'
    <3> SUFFICES ASSUME NEW p \in ObjectPlaces, ptr'[p] # Null PROVE mem[p[1]] = "live"
      BY <2>5 DEF OwnersLive
    <3>1. CASE p \in {DataSlot, NameSlot}
      BY <1>2, <1>3, <3>1
    <3>2. CASE p \notin {DataSlot, NameSlot}
      BY <1>2, AddFieldPlaces, <3>2 DEF HeapOK, OwnersLive
    <3> QED
      BY <3>1, <3>2
  <2>10. DestroyedOnce'
    BY <1>2, <2>5 DEF DestroyedOnce
  <2>11. UnheldDying'
    BY <1>2, <2>2, <2>4, <2>5 DEF HeapOK, UnheldDying
  <2> QED
    BY <2>6, <2>7, <2>8, <2>9, <2>10, <2>11 DEF HeapOK
<1> QED
  BY <1>8, <1>9

(* The message a field is put into is held by no field, so it can be in    *)
(* none that is put into it.                                               *)
LEMMA AddFieldShape ==
    ASSUME IInv, AddField
    PROVE  Shape'
<1> USE PlacesApart, KindsApart
<1>1. At("append")
  BY DEF AddField
<1>2. /\ HeapOK /\ TypesOK /\ Building /\ frames # <<>> /\ mem[Current.msg] = "live"
      /\ Payload \in Places /\ Payload \notin ObjectPlaces
      /\ ptr[Payload] \notin Envs /\ ptr[Name] \in Strs \cup {Null}
      /\ \A o \in Counted : mem[o] = "live" => count[o] <= 1
  BY <1>1, InTurn
<1>3. /\ DataSlot \in FieldPlaces /\ NameSlot \in FieldPlaces
      /\ DataSlot[1] = Current.msg /\ NameSlot[1] = Current.msg
  BY <1>1, SlotsToFill
<1>4. PICK q \in Places \ FieldPlaces : q # Payload /\ ptr[q] = Current.msg
  <2>1. Depth \in 1..Depth /\ Current = FrameAt(Depth)
    BY <1>2, Innermost, MsgsFinite
  <2> QED
    BY <1>2, <2>1, FrameHeld
<1>5. Current.msg \in Msgs /\ Current.msg \in Objects /\ Owed(Current.msg) <= 1
  <2>1. Current.msg \in Msgs
    BY <1>1, InTurn DEF Frames
  <2> QED
    BY <1>2, <2>1 DEF Owed
<1>6. \A p \in Places : ptr[p] = Current.msg => p = q
  BY <1>2, <1>4, <1>5, OnlyHolder
<1>7. \A p \in ObjectPlaces : ptr'[p] \notin Envs
  BY <1>2, AddFieldPlaces DEF IInv, Shape
<1>8. \A p \in FieldPlaces : ptr'[p] # Current.msg
  <2>1. \A p \in FieldPlaces : p \in Places /\ ptr[p] # Current.msg
    BY <1>4, <1>6 DEF ObjectPlaces
  <2>2. ptr[Payload] # Current.msg /\ ptr[Name] # Current.msg
    BY <1>2, <1>4, <1>5, <1>6
  <2>3. Null # Current.msg
    BY <1>5
  <2> QED
    BY AddFieldPlaces, <2>1, <2>2, <2>3
<1>9. Rooted'
  <2> SUFFICES ASSUME NEW S \in SUBSET Msgs, S # {}
               PROVE  \E m \in S : \A p \in FieldPlaces : p[1] \in S => ptr'[p] # m
    BY DEF Rooted
  <2>1. CASE Current.msg \in S
    BY <1>8, <2>1
  <2>2. CASE Current.msg \notin S
    <3>1. PICK m \in S : \A p \in FieldPlaces : p[1] \in S => ptr[p] # m
      BY DEF IInv, Shape, Rooted
    <3>2. \A p \in FieldPlaces : p[1] \in S => ptr'[p] = ptr[p]
      <4>1. \A p \in FieldPlaces : p[1] \in S =>
                p # DataSlot /\ p # NameSlot /\ p # Payload /\ p \in Places
        BY <1>2, <1>3, <2>2 DEF ObjectPlaces
      <4> QED
        BY AddFieldPlaces, <4>1
    <3> QED
      BY <3>1, <3>2
  <2> QED
    BY <2>1, <2>2
<1> QED
  BY <1>7, <1>9 DEF Shape

(* So the addition keeps everything, the name being referred to twice      *)
(* until the clean-up.                                                     *)
LEMMA AddFieldIInv ==
    ASSUME IInv, AddField
    PROVE  IInv'
<1> USE PlacesApart, KindsApart
<1>1. At("append") /\ at' = at /\ mem' = mem
  BY DEF AddField
<1>2. /\ at = "fields" /\ frames # <<>> /\ frames \in Seq(Frames) /\ Current \in Frames
      /\ Payload # Name /\ Payload \in Places /\ Name \in Places
      /\ Payload \notin ObjectPlaces /\ Name \notin ObjectPlaces
      /\ ptr[Name] \in Strs \cup {Null} /\ count \in [Counted -> Nat]
      /\ \A o \in Counted : mem[o] = "live" => count[o] <= 1
  BY <1>1, InTurn
<1> DEFINE n == Current.fields + 1
           f == [Current EXCEPT !.at = "cleanup", !.fields = n]
<1>3. /\ DataSlot \in FieldPlaces /\ NameSlot \in FieldPlaces
      /\ DataSlot \in ObjectPlaces /\ NameSlot \in ObjectPlaces
      /\ DataSlot[1] = Current.msg /\ NameSlot[1] = Current.msg
      /\ n \in 1..MaxFields
      /\ \A i \in 1..MaxFields, k \in {"data", "name"} : i > n =>
            /\ <<Current.msg, i, k>> # DataSlot /\ <<Current.msg, i, k>> # NameSlot
            /\ <<Current.msg, i, k>> \in ObjectPlaces
            /\ ptr[<<Current.msg, i, k>>] = Null
  BY <1>1, SlotsToFill
<1>4. frames' = [frames EXCEPT ![1].at = "cleanup", ![1].fields = n]
  BY <1>2 DEF AddField, Current
<1> HIDE DEF n
<1>a. n \in 0..MaxFields
  BY <1>3, ObjectHeapAssumption
<1>5. f \in Frames /\ f.msg = Current.msg /\ f.fields = n /\ f.at = "cleanup"
  BY <1>2, <1>a DEF Frames
<1>6. Turns(f)
  BY <1>2, <1>4 DEF Turns, Current
<1> HIDE DEF f
<1>7. \A p \in Places : \/ p = Payload \/ p = Name
                        \/ p \in FieldPlaces /\ p[1] = Current.msg
                        \/ ptr'[p] = ptr[p]
  BY <1>3, AddFieldPlaces
<1>8. \A i \in 1..MaxFields, k \in {"data", "name"} :
        i > n => ptr'[<<Current.msg, i, k>>] = Null
  BY <1>2, <1>3, AddFieldPlaces
<1>9. ptr'[Payload] = Null /\ ptr'[Name] = ptr[Name]
  BY <1>2, <1>3, AddFieldPlaces
<1>10. TypesOK' /\ NoFrames' /\ FramesOK' /\ LocalsOK'
  BY <1>1, <1>2, <1>5, <1>6, <1>7, <1>8, <1>9, TurnKeeps DEF Used
<1>11. OnceHeld'
  <2>1. count' = IF ptr[Name] = Null THEN count
                 ELSE [count EXCEPT ![ptr[Name]] = @ + 1]
    BY DEF AddField
  <2>2. Current' = f /\ Name' = Name
    BY <1>2, <1>5, <1>6, TurnedFrames DEF IInv
  <2>3. (ptr[Name])' = ptr[Name]
    BY <1>9, <2>2
  <2> SUFFICES ASSUME NEW o \in Counted, mem[o] = "live", ~ (count'[o] <= 1)
               PROVE  count'[o] = 2 /\ o = ptr[Name]
    BY <1>1, <1>2, <1>5, <2>2, <2>3 DEF OnceHeld
  <2>4. ptr[Name] # Null /\ count' = [count EXCEPT ![ptr[Name]] = @ + 1]
    BY <1>2, <2>1
  <2>5. PICK s \in Strs : s = ptr[Name]
    BY <1>2, <2>4
  <2>6. s \in Counted /\ count[s] \in Nat /\ count' = [count EXCEPT ![s] = count[s] + 1]
    BY <1>2, <2>4, <2>5
  <2>7. o = s
    BY <1>2, <2>6
  <2>8. count[s] <= 1 /\ count'[s] = count[s] + 1
    BY <1>2, <2>6, <2>7
  <2> QED
    BY <2>5, <2>6, <2>7, <2>8
<1> QED
  BY <1>10, <1>11, AddFieldHeap, AddFieldShape DEF IInv

-----------------------------------------------------------------------------
(* The calls in progress notice nothing of what happens to the locals of   *)
(* the innermost.                                                          *)
LEMMA FramesKeep ==
    ASSUME Building, FramesOK, TypesOK, NEW d \in 1..Depth,
           \A p \in Places \ {Payload, Name} : ptr'[p] = ptr[p]
    PROVE  /\ Handed(FrameAt(1).msg) /\ \E c \in ClientVars, e \in Envs :
                 ptr'[c] = e /\ ptr'[<<e, 1, "data">>] = FrameAt(1).msg
           /\ \A i \in 1..MaxFields, k \in {"data", "name"} :
                 i > FrameAt(d).fields => ptr'[<<FrameAt(d).msg, i, k>>] = Null
<1>1. frames # <<>>
  BY DEF TypesOK, Building, Depth
<1>2. /\ Depth \in 1..Cardinality(Msgs) /\ FrameAt(d) \in Frames
      /\ Payload = DataAt(Depth) /\ Name = NameAt(Depth)
  BY <1>1, Innermost
<1>3. Depth \in 0..Cardinality(Msgs)
  BY <1>2, MsgsFinite
<1>4. /\ Payload \notin ObjectPlaces /\ Name \notin ObjectPlaces
      /\ Payload \notin ClientVars /\ Name \notin ClientVars
  BY <1>2, <1>3, Levels
<1>5. \A p \in ObjectPlaces \cup ClientVars : ptr'[p] = ptr[p]
  BY <1>4, PlacesApart
<1>6. PICK c \in ClientVars, e \in Envs : ptr[c] = e /\ ptr[<<e, 1, "data">>] = FrameAt(1).msg
  BY DEF FramesOK, Handed
<1>7. ptr'[c] = e /\ ptr'[<<e, 1, "data">>] = FrameAt(1).msg
  BY <1>5, <1>6, HandedPlaces
<1>8. \A i \in 1..MaxFields, k \in {"data", "name"} : <<FrameAt(d).msg, i, k>> \in ObjectPlaces
  BY <1>2 DEF ObjectPlaces, FieldPlaces, Frames
<1>9. \A i \in 1..MaxFields, k \in {"data", "name"} :
         i > FrameAt(d).fields => ptr[<<FrameAt(d).msg, i, k>>] = Null
  BY DEF FramesOK, Empty
<1> QED
  BY <1>5, <1>6, <1>7, <1>8, <1>9 DEF Handed

(* decodeFieldFudgeMsg lengthens the chain by the message it creates: that *)
(* one has never been used, so it is no other call's, and it is empty.     *)
LEMMA EnterSubmessageIInv ==
    ASSUME IInv, EnterSubmessage
    PROVE  IInv'
<1> USE KindsApart
<1>1. PICK o \in Msgs : o = New(Msgs) /\ mem[o] = "unused"
  BY NewIsUnused DEF EnterSubmessage
<1>2. /\ At("payload") /\ Allocate(o, Payload) /\ at' = at
      /\ frames' = <<Frame(o)>> \o frames
  BY <1>1 DEF EnterSubmessage
<1>3. /\ at = "fields" /\ Building /\ frames # <<>> /\ stack = <<>> /\ TypesOK /\ HeapOK
      /\ Current \in Frames /\ Current.at = "payload"
      /\ Payload \in LocalPlaces /\ Payload \in Places /\ Payload \notin ObjectPlaces
      /\ Payload # Name /\ ptr[Payload] = Null /\ ptr[Name] = Null
      /\ \A r \in Counted : mem[r] = "live" => count[r] <= 1
      /\ ptr \in [Places -> Addresses] /\ mem \in [Objects -> {"unused", "live", "freed"}]
      /\ count \in [Counted -> Nat] /\ FramesOK /\ LocalsOK
  BY <1>2, InTurn DEF IInv
<1>4. /\ ptr' = [ptr EXCEPT ![Payload] = o] /\ mem' = [mem EXCEPT ![o] = "live"]
      /\ count' = [count EXCEPT ![o] = 1]
  BY <1>2 DEF Allocate
<1>5. HeapOK'
  BY <1>1, <1>2, <1>3, NewKeeps DEF Allocate, Changed
<1>6. Shape'
  BY <1>3, <1>4, PlacesApart, ShapeKept DEF IInv
<1>7. OnceHeld'
  BY <1>3, <1>4 DEF OnceHeld
<1>8. PICK f : f = Frame(o)
  OBVIOUS
<1>9. f \in Frames /\ f.msg = o /\ f.fields = 0 /\ f.at = "next"
  BY <1>8, ObjectHeapAssumption DEF Frame, Frames
<1>10. /\ frames' \in Seq(Frames) /\ Depth' = Depth + 1 /\ Current' = f /\ frames' # <<>>
       /\ \A d \in 1..(Depth + 1) : FrameAt(d)' = IF d = Depth + 1 THEN f ELSE FrameAt(d)
  BY <1>2, <1>3, <1>8, <1>9, PushedFrames DEF Pushes
<1>11. /\ Depth \in 1..Cardinality(Msgs) /\ Current = FrameAt(Depth)
       /\ Payload = DataAt(Depth) /\ Name = NameAt(Depth)
       /\ \A d \in 1..Depth : FrameAt(d) \in Frames
  BY <1>3, Innermost
<1>12. Depth \in Nat /\ Cardinality(Msgs) \in Nat /\ Depth \in 0..Cardinality(Msgs)
  BY <1>11, MsgsFinite
<1>13. TypesOK'
  <2>1. Used' = Used \cup {o} /\ o \notin Used
    BY <1>1, <1>3, <1>4 DEF Used
  <2>2. Cardinality(Used') = Cardinality(Used) + 1
    BY <2>1, MsgsFinite, FS_AddElement
  <2>3. Depth + 1 <= Cardinality(Used')
    BY <1>3, <1>12, <2>2, MsgsFinite DEF TypesOK
  <2> QED
    BY <1>2, <1>3, <1>10, <1>12, <2>3 DEF TypesOK
<1>14. NoFrames'
  BY <1>2, <1>3 DEF NoFrames
<1>15. \A p \in Places \ {Payload, Name} : ptr'[p] = ptr[p]
  BY <1>3, <1>4
<1>16. FramesOK'
  <2>1. Handed(FrameAt(1).msg)'
    <3>1. FrameAt(1)' = FrameAt(1) /\ 1 \in 1..Depth
      BY <1>10, <1>11, <1>12
    <3> QED
      BY <1>3, <1>15, <3>1, FramesKeep DEF Handed
  <2>2. ASSUME NEW d \in 1..(Depth + 1)
        PROVE  /\ Empty(FrameAt(d).msg, FrameAt(d).fields)'
               /\ FrameAt(d)'.at \in {"width", "payload", "name", "append"}
                    => FrameAt(d)'.fields < MaxFields
    <3>1. CASE d = Depth + 1
      <4>1. \A i \in 1..MaxFields, k \in {"data", "name"} :
               /\ <<o, i, k>> \in ObjectPlaces /\ <<o, i, k>>[1] = o
        BY DEF ObjectPlaces, FieldPlaces
      <4>2. \A i \in 1..MaxFields, k \in {"data", "name"} : ptr[<<o, i, k>>] = Null
        BY <1>1, <1>3, <4>1 DEF HeapOK, OwnersLive
      <4>3. \A i \in 1..MaxFields, k \in {"data", "name"} : ptr'[<<o, i, k>>] = Null
        BY <1>3, <1>4, <4>1, <4>2, PlacesApart
      <4> QED
        BY <1>9, <1>10, <3>1, <4>3 DEF Empty
    <3>2. CASE d # Depth + 1
      <4>1. d \in 1..Depth /\ FrameAt(d)' = FrameAt(d)
        BY <1>10, <1>12, <3>2
      <4>2. FrameAt(d).at \in {"width", "payload", "name", "append"}
                    => FrameAt(d).fields < MaxFields
        BY <1>3, <4>1 DEF FramesOK
      <4> QED
        BY <1>3, <1>15, <4>1, <4>2, FramesKeep DEF Empty
    <3> QED
      BY <3>1, <3>2
  <2>3. ASSUME NEW d \in 1..Depth
        PROVE  FrameAt(d)'.at = "payload" /\ ptr'[DataAt(d)] = FrameAt(d + 1)'.msg
    <3>0. (d + 1)' = d + 1
      OBVIOUS
    <3>1. FrameAt(d)' = FrameAt(d)
      BY <1>10, <1>12
    <3>2. CASE d = Depth
      <4>1. FrameAt(d)'.at = "payload" /\ ptr'[DataAt(d)] = o
        BY <1>3, <1>4, <1>11, <3>1, <3>2
      <4>2. d + 1 \in 1..(Depth + 1) /\ FrameAt(d + 1)' = f
        BY <1>10, <1>12, <3>0, <3>2
      <4> QED
        BY <1>9, <4>1, <4>2
    <3>3. CASE d # Depth
      <4>1. /\ d \in 1..(Depth - 1) /\ d + 1 \in 1..(Depth + 1) /\ d + 1 # Depth + 1
            /\ d \in 0..Cardinality(Msgs)
        BY <1>11, <1>12, <3>3
      <4>2. FrameAt(d).at = "payload" /\ ptr[DataAt(d)] = FrameAt(d + 1).msg
        BY <1>3, <4>1 DEF FramesOK
      <4>3. FrameAt(d + 1)' = FrameAt(d + 1)
        BY <1>10, <3>0, <4>1
      <4>4. ptr'[DataAt(d)] = ptr[DataAt(d)]
        BY <1>11, <1>12, <1>15, <3>3, <4>1, Levels
      <4> QED
        BY <3>1, <4>2, <4>3, <4>4
    <3> QED
      BY <3>2, <3>3
  <2>4. ASSUME NEW d \in 1..(Depth + 1), NEW e \in 1..(Depth + 1),
               FrameAt(d)'.msg = FrameAt(e)'.msg
        PROVE  d = e
    <3>1. \A x \in 1..Depth : FrameAt(x).msg # o
      BY <1>1, <1>3, FrameHeld
    <3>2. \A x \in 1..(Depth + 1) : x # Depth + 1 => x \in 1..Depth /\ FrameAt(x)' = FrameAt(x)
      BY <1>10, <1>12
    <3>3. \A x \in 1..(Depth + 1) : x = Depth + 1 => FrameAt(x)'.msg = o
      BY <1>9, <1>10
    <3>4. CASE d = Depth + 1 \/ e = Depth + 1
      BY <2>4, <3>1, <3>2, <3>3, <3>4
    <3>5. CASE d # Depth + 1 /\ e # Depth + 1
      BY <1>3, <2>4, <3>2, <3>5 DEF FramesOK
    <3> QED
      BY <3>4, <3>5
  <2>5. Depth' = Depth + 1 /\ Depth' - 1 = Depth
    BY <1>10, <1>12
  <2>6. \A d \in 1..Depth' :
           /\ Empty(FrameAt(d).msg, FrameAt(d).fields)'
           /\ FrameAt(d)'.at \in {"width", "payload", "name", "append"}
                => FrameAt(d)'.fields < MaxFields
    BY <2>2, <2>5
  <2>7. \A d \in 1..(Depth' - 1) :
           FrameAt(d)'.at = "payload" /\ ptr'[DataAt(d)] = FrameAt(d + 1)'.msg
    BY <2>3, <2>5
  <2>8. \A d, e \in 1..Depth' : FrameAt(d)'.msg = FrameAt(e)'.msg => d = e
    BY <2>4, <2>5
  <2> QED
    BY <2>1, <2>6, <2>7, <2>8 DEF FramesOK
<1>17. LocalsOK'
  <2>1. \A d \in 0..Cardinality(Msgs) : /\ d # Depth => ptr'[DataAt(d)] = ptr[DataAt(d)]
                                        /\ ptr'[NameAt(d)] = ptr[NameAt(d)]
    <3>1. \A d \in 0..Cardinality(Msgs) : /\ d # Depth => DataAt(d) # Payload
                                          /\ NameAt(d) # Payload
                                          /\ DataAt(d) \in Places /\ NameAt(d) \in Places
      BY <1>11, <1>12, Levels
    <3> QED
      BY <1>3, <1>4, <3>1
  <2>2. ptr'[NameAt(0)] = Null /\ ptr'[Message] = Null
    <3>1. 0 \in 0..Cardinality(Msgs) /\ 0 # Depth
      BY <1>11, <1>12
    <3> QED
      BY <1>3, <2>1, <3>1, Levels DEF LocalsOK
  <2>3. ASSUME NEW d \in 1..Cardinality(Msgs)
        PROVE  /\ ptr'[DataAt(d)] \notin Envs
               /\ ptr'[DataAt(d)] # Null => d < Depth + 1
               /\ ptr'[NameAt(d)] = Null
    <3>1. d \in 0..Cardinality(Msgs)
      BY <1>12
    <3>2. ptr[NameAt(d)] = Null
      BY <1>3 DEF LocalsOK
    <3>3. CASE d = Depth
      BY <1>3, <1>4, <1>11, <1>12, <2>1, <3>1, <3>2, <3>3
    <3>4. CASE d # Depth
      <4>1. ptr[DataAt(d)] \notin Envs /\ (ptr[DataAt(d)] # Null => d < Depth)
        BY <1>3, <3>4 DEF LocalsOK
      <4> QED
        BY <1>12, <2>1, <3>1, <3>2, <3>4, <4>1
    <3> QED
      BY <3>3, <3>4
  <2> QED
    BY <1>2, <1>3, <1>10, <2>2, <2>3 DEF LocalsOK
<1> QED
  BY <1>5, <1>6, <1>7, <1>13, <1>14, <1>16, <1>17 DEF IInv

-----------------------------------------------------------------------------
(* A return shortens the chain: what the call built is in the data of the  *)
(* call around it, or gone.                                                *)
LEMMA PopKeeps ==
    ASSUME IInv, At("return"), Depth > 1, at' = at,
           NEW f \in Frames, Pops(f),
           f.msg = FrameAt(Depth - 1).msg, f.fields = FrameAt(Depth - 1).fields,
           f.at \in {"name", "cleanup"},
           \A p \in Places : p # Parent => ptr'[p] = ptr[p],
           ptr'[Parent] \notin Envs, ptr'[Parent] # Null => f.at = "name",
           \A m \in Used : mem'[m] # "unused"
    PROVE  TypesOK' /\ NoFrames' /\ FramesOK' /\ LocalsOK'
<1>1. /\ at = "fields" /\ Building /\ frames # <<>> /\ TypesOK /\ Current.at = "return"
      /\ FramesOK /\ LocalsOK
  BY InTurn DEF IInv
<1>2. /\ Depth \in 1..Cardinality(Msgs) /\ Current = FrameAt(Depth)
      /\ Parent = DataAt(Depth - 1)
      /\ \A d \in 1..Depth : FrameAt(d) \in Frames
  BY <1>1, Innermost
<1>3. /\ Depth \in Nat /\ Cardinality(Msgs) \in Nat /\ Depth \in 0..Cardinality(Msgs)
      /\ Depth - 1 \in 0..Cardinality(Msgs) /\ Depth - 1 \in 1..(Depth - 1)
  BY <1>2, MsgsFinite
<1>4. /\ frames' \in Seq(Frames) /\ Depth' = Depth - 1 /\ Current' = f /\ frames' # <<>>
      /\ \A d \in 1..(Depth - 1) : FrameAt(d)' = IF d = Depth - 1 THEN f ELSE FrameAt(d)
  BY <1>1, PoppedFrames
<1>5. TypesOK'
  <2>1. Depth <= Cardinality(Used') /\ Cardinality(Used') \in Nat
    BY <1>1, UsedKept
  <2>2. Depth - 1 <= Cardinality(Used') /\ Depth - 1 >= 1
    BY <1>3, <2>1
  <2> QED
    BY <1>1, <1>4, <2>2 DEF TypesOK
<1>6. NoFrames'
  BY <1>1 DEF NoFrames
<1>7. /\ Parent \in Places /\ Parent \notin ObjectPlaces /\ Parent \notin ClientVars
  BY <1>2, <1>3, Levels
<1>8. \A p \in ObjectPlaces \cup ClientVars : ptr'[p] = ptr[p]
  BY <1>7, PlacesApart
<1>9. \A d \in 1..(Depth - 1) : /\ FrameAt(d)'.msg = FrameAt(d).msg
                                /\ FrameAt(d)'.fields = FrameAt(d).fields
                                /\ d \in 1..Depth
  BY <1>3, <1>4
<1>10. FramesOK'
  <2>1. Handed(FrameAt(1).msg)'
    <3>1. PICK c \in ClientVars, e \in Envs :
             ptr[c] = e /\ ptr[<<e, 1, "data">>] = FrameAt(1).msg
      BY <1>1 DEF FramesOK, Handed
    <3>2. ptr'[c] = e /\ ptr'[<<e, 1, "data">>] = FrameAt(1).msg
      BY <1>8, <3>1, HandedPlaces
    <3>3. FrameAt(1)'.msg = FrameAt(1).msg
      BY <1>3, <1>9
    <3> QED
      BY <3>2, <3>3 DEF Handed
  <2>2. ASSUME NEW d \in 1..(Depth - 1)
        PROVE  /\ Empty(FrameAt(d).msg, FrameAt(d).fields)'
               /\ FrameAt(d)'.at \in {"width", "payload", "name", "append"}
                    => FrameAt(d)'.fields < MaxFields
    <3>1. \A i \in 1..MaxFields, k \in {"data", "name"} :
             <<FrameAt(d).msg, i, k>> \in ObjectPlaces
      BY <1>2, <1>9 DEF ObjectPlaces, FieldPlaces, Frames
    <3>2. \A i \in 1..MaxFields, k \in {"data", "name"} :
             i > FrameAt(d).fields => ptr[<<FrameAt(d).msg, i, k>>] = Null
      BY <1>1, <1>9 DEF FramesOK, Empty
    <3>3. Empty(FrameAt(d).msg, FrameAt(d).fields)'
      BY <1>8, <1>9, <3>1, <3>2 DEF Empty
    <3>4. CASE d = Depth - 1
      <4>1. FrameAt(d).at = "payload" /\ FrameAt(d).fields < MaxFields
        BY <1>1, <1>9 DEF FramesOK
      <4> QED
        BY <1>9, <3>3, <4>1
    <3>5. CASE d # Depth - 1
      BY <1>1, <1>4, <1>9, <3>3, <3>5 DEF FramesOK
    <3> QED
      BY <3>4, <3>5
  <2>3. ASSUME NEW d \in 1..((Depth - 1) - 1)
        PROVE  FrameAt(d)'.at = "payload" /\ ptr'[DataAt(d)] = FrameAt(d + 1)'.msg
    <3>0. (d + 1)' = d + 1
      OBVIOUS
    <3>1. /\ d \in 1..(Depth - 1) /\ d + 1 \in 1..(Depth - 1) /\ d # Depth - 1
          /\ d \in 0..Cardinality(Msgs)
      BY <1>3
    <3>2. FrameAt(d)' = FrameAt(d) /\ FrameAt(d + 1)'.msg = FrameAt(d + 1).msg
      BY <1>4, <1>9, <3>0, <3>1
    <3>3. DataAt(d) \in Places /\ DataAt(d) # Parent
      BY <1>2, <1>3, <3>1, Levels
    <3> QED
      BY <1>1, <3>1, <3>2, <3>3 DEF FramesOK
  <2>4. \A d, e \in 1..(Depth - 1) : FrameAt(d)'.msg = FrameAt(e)'.msg => d = e
    BY <1>1, <1>9 DEF FramesOK
  <2>6. \A d \in 1..Depth' :
           /\ Empty(FrameAt(d).msg, FrameAt(d).fields)'
           /\ FrameAt(d)'.at \in {"width", "payload", "name", "append"}
                => FrameAt(d)'.fields < MaxFields
    BY <1>4, <2>2
  <2>7. \A d \in 1..(Depth' - 1) :
           FrameAt(d)'.at = "payload" /\ ptr'[DataAt(d)] = FrameAt(d + 1)'.msg
    BY <1>4, <2>3
  <2>8. \A d, e \in 1..Depth' : FrameAt(d)'.msg = FrameAt(e)'.msg => d = e
    BY <1>4, <2>4
  <2> QED
    BY <2>1, <2>6, <2>7, <2>8 DEF FramesOK
<1>11. LocalsOK'
  <2>1. \A d \in 0..Cardinality(Msgs) : /\ d # Depth - 1 => ptr'[DataAt(d)] = ptr[DataAt(d)]
                                        /\ ptr'[NameAt(d)] = ptr[NameAt(d)]
    <3>1. \A d \in 0..Cardinality(Msgs) : /\ d # Depth - 1 => DataAt(d) # Parent
                                          /\ NameAt(d) # Parent
                                          /\ DataAt(d) \in Places /\ NameAt(d) \in Places
      BY <1>2, <1>3, Levels
    <3> QED
      BY <3>1
  <2>2. ptr'[NameAt(0)] = Null /\ ptr'[Message] = Null
    <3>1. 0 \in 0..Cardinality(Msgs) /\ 0 # Depth - 1
      BY <1>3
    <3> QED
      BY <1>1, <2>1, <3>1, Levels DEF LocalsOK
  <2>3. ASSUME NEW d \in 1..Cardinality(Msgs)
        PROVE  /\ ptr'[DataAt(d)] \notin Envs
               /\ ptr'[DataAt(d)] # Null => d < Depth - 1 \/ (d = Depth - 1 /\ f.at = "name")
               /\ ptr'[NameAt(d)] = Null
    <3>1. d \in 0..Cardinality(Msgs)
      BY <1>3
    <3>2. ptr[NameAt(d)] = Null
      BY <1>1 DEF LocalsOK
    <3>3. CASE d = Depth - 1
      BY <1>2, <2>1, <3>1, <3>2, <3>3
    <3>4. CASE d # Depth - 1
      <4>1. ptr[DataAt(d)] \notin Envs /\ (ptr[DataAt(d)] # Null => d < Depth)
        BY <1>1 DEF LocalsOK
      <4>2. d < Depth => d < Depth - 1
        BY <1>3, <3>4
      <4> QED
        BY <2>1, <3>1, <3>2, <3>4, <4>1, <4>2
    <3> QED
      BY <3>3, <3>4
  <2> QED
    BY <1>1, <1>4, <2>2, <2>3 DEF LocalsOK
<1> QED
  BY <1>5, <1>6, <1>10, <1>11

(* If the submessage could not be decoded it is released by that return.   *)
LEMMA LeaveSubmessageIInv ==
    ASSUME IInv, LeaveSubmessage
    PROVE  IInv'
<1> USE KindsApart
<1>1. At("return") /\ ~ Outermost /\ at' = at
  BY DEF LeaveSubmessage
<1>2. /\ frames # <<>> /\ frames \in Seq(Frames) /\ TypesOK /\ HeapOK /\ FramesOK /\ stack = <<>>
      /\ ptr \in [Places -> Addresses] /\ mem \in [Objects -> {"unused", "live", "freed"}]
      /\ count \in [Counted -> Nat]
      /\ \A o \in Counted : mem[o] = "live" => count[o] <= 1
  BY <1>1, InTurn DEF IInv
<1>3. Depth > 1
  <2>1. PICK n \in Nat : n = Len(frames) /\ n >= 1
    BY <1>2
  <2>2. n # 1
    BY <1>1, <2>1 DEF Outermost
  <2>3. n > 1
    BY <2>1, <2>2
  <2> QED
    BY <2>1, <2>3 DEF Depth
<1>4. /\ Depth \in 1..Cardinality(Msgs) /\ Current \in Frames /\ Current = FrameAt(Depth)
      /\ Parent = DataAt(Depth - 1) /\ Depth - 1 \in 1..(Depth - 1)
      /\ Depth - 1 \in 1..Depth
      /\ \A d \in 1..Depth : FrameAt(d) \in Frames
  BY <1>2, <1>3, Innermost
<1>5. Depth - 1 \in 0..Cardinality(Msgs)
  BY <1>4, MsgsFinite
<1>6. PICK g \in Frames : g = FrameAt(Depth - 1)
  BY <1>4
<1>7. g.at = "payload" /\ g.fields < MaxFields /\ ptr[Parent] = Current.msg
  <2>1. (Depth - 1) + 1 = Depth
    BY <1>4, MsgsFinite
  <2> QED
    BY <1>2, <1>4, <1>6, <2>1 DEF FramesOK
<1>8. Parent \in Places /\ Parent \in LocalPlaces /\ Parent \notin ObjectPlaces
  BY <1>4, <1>5, Levels
<1>9. Current.msg \in Msgs
  BY <1>4 DEF Frames
<1>10. PICK rest : rest = Tail(frames)
  OBVIOUS
<1>11. rest \in Seq(Frames) /\ rest # <<>> /\ rest[1] = g
  <2>1. Len(frames) \in Nat /\ Len(frames) > 1
    BY <1>2, <1>3 DEF Depth
  <2>4. /\ rest \in Seq(Frames) /\ Len(rest) = Len(frames) - 1
        /\ \A i \in 1..(Len(frames) - 1) : rest[i] = frames[i + 1]
    BY <1>2, <1>10, <2>1
  <2>2. rest \in Seq(Frames) /\ rest # <<>> /\ rest[1] = frames[2]
    <3>1. 1 \in 1..(Len(frames) - 1) /\ 1 + 1 = 2
      BY <2>1
    <3>2. rest # <<>>
      BY <2>1, <2>4
    <3> QED
      BY <2>4, <3>1, <3>2
  <2>3. Depth + 1 - (Depth - 1) = 2
    BY <2>1 DEF Depth
  <2> QED
    BY <1>6, <2>2, <2>3 DEF FrameAt
<1>12. CASE Current.failed
  <2>1. DestroyPointer(Parent) /\ frames' = [rest EXCEPT ![1].at = "cleanup", ![1].failed = TRUE]
    BY <1>10, <1>12 DEF LeaveSubmessage
  <2> DEFINE f == [g EXCEPT !.at = "cleanup", !.failed = TRUE]
  <2>2. f \in Frames /\ f.msg = g.msg /\ f.fields = g.fields /\ f.at = "cleanup"
    BY <1>6 DEF Frames
  <2>3. frames' = [rest EXCEPT ![1] = f]
    BY <1>11, <2>1
  <2>4. Pops(f)
    BY <1>10, <2>3 DEF Pops
  <2> HIDE DEF f
  <2>5. ptr[Parent] # Null
    BY <1>7, <1>9
  <2>6. /\ HeapOK' /\ ptr' = [ptr EXCEPT ![Parent] = Null]
        /\ \A o \in Counted : mem'[o] = mem[o]
    BY <1>2, <1>8, <2>1, <2>5, DestroyKeeps
  <2>7. Shape'
    BY <1>2, <1>8, <2>6, PlacesApart, ShapeKept DEF IInv
  <2>8. OnceHeld'
    <3>1. count' \in [Counted -> Nat]
      BY <2>6 DEF HeapOK, HeapTypeOK
    <3>2. \A o \in Counted : count'[o] <= count[o]
      BY <1>2, <1>8, <2>1, <2>5, DestroyCounts
    <3>3. \A o \in Counted : mem'[o] = "live" => count'[o] <= 1
      BY <1>2, <2>6, <3>1, <3>2
    <3> QED
      BY <3>3 DEF OnceHeld
  <2>9. TypesOK' /\ NoFrames' /\ FramesOK' /\ LocalsOK'
    <3>1. \A p \in Places : p # Parent => ptr'[p] = ptr[p]
      BY <1>2, <2>6
    <3>2. ptr'[Parent] = Null
      BY <1>2, <1>8, <2>6
    <3>3. \A m \in Used : mem'[m] # "unused"
      BY <2>6 DEF Used
    <3> QED
      BY <1>1, <1>3, <1>6, <2>2, <2>4, <3>1, <3>2, <3>3, PopKeeps
  <2> QED
    BY <2>6, <2>7, <2>8, <2>9 DEF IInv
<1>13. CASE ~ Current.failed
  <2>1. UNCHANGED heapVars /\ frames' = [rest EXCEPT ![1].at = "name"]
    BY <1>10, <1>13 DEF LeaveSubmessage
  <2>2. ptr' = ptr /\ mem' = mem /\ count' = count
    BY <2>1 DEF heapVars
  <2> DEFINE f == [g EXCEPT !.at = "name"]
  <2>3. f \in Frames /\ f.msg = g.msg /\ f.fields = g.fields /\ f.at = "name"
    BY <1>6 DEF Frames
  <2>4. frames' = [rest EXCEPT ![1] = f]
    BY <1>11, <2>1
  <2>5. Pops(f)
    BY <1>10, <2>4 DEF Pops
  <2> HIDE DEF f
  <2>6. HeapOK'
    BY <1>2, <2>1, HeapAsBefore
  <2>7. Shape'
    BY <2>2, ShapeKept DEF IInv
  <2>8. OnceHeld'
    BY <1>2, <2>2 DEF OnceHeld
  <2>9. TypesOK' /\ NoFrames' /\ FramesOK' /\ LocalsOK'
    <3>1. \A p \in Places : p # Parent => ptr'[p] = ptr[p]
      BY <2>2
    <3>2. ptr'[Parent] \notin Envs
      BY <1>7, <1>9, <2>2
    <3>3. \A m \in Used : mem'[m] # "unused"
      BY <2>2 DEF Used
    <3> QED
      BY <1>1, <1>3, <1>6, <2>3, <2>5, <3>1, <3>2, <3>3, PopKeeps
  <2> QED
    BY <2>6, <2>7, <2>8, <2>9 DEF IInv
<1> QED
  BY <1>12, <1>13

-----------------------------------------------------------------------------
(* Outside the fields no local holds anything, but decodeMsg's message.    *)
LEMMA NoLocals ==
    ASSUME IInv, at # "fields" \/ (At("return") /\ Outermost)
    PROVE  /\ \A p \in LocalPlaces : p # Message => ptr[p] = Null
           /\ Message \in LocalPlaces /\ Message \in Places
           /\ Message \notin ObjectPlaces /\ Message \notin ClientVars
           /\ HeapOK /\ TypesOK /\ LocalsOK
           /\ ptr \in [Places -> Addresses] /\ mem \in [Objects -> {"unused", "live", "freed"}]
           /\ count \in [Counted -> Nat] /\ frames \in Seq(Frames)
<1>1. HeapOK /\ TypesOK /\ LocalsOK
  BY DEF IInv
<1>2. Cardinality(Msgs) \in Nat /\ 0 \in 0..Cardinality(Msgs)
  BY MsgsFinite
<1>3. ASSUME NEW d \in 1..Cardinality(Msgs)
      PROVE  ptr[DataAt(d)] = Null /\ ptr[NameAt(d)] = Null
  <2>1. CASE at # "fields"
    BY <1>1, <2>1 DEF LocalsOK
  <2>2. CASE At("return") /\ Outermost
    <3>1. Depth = 1 /\ Current.at = "return"
      BY <2>2 DEF Outermost, Depth, At
    <3> QED
      BY <1>1, <1>2, <3>1 DEF LocalsOK
  <2> QED
    BY <2>1, <2>2
<1>4. \A p \in LocalPlaces : p # Message => ptr[p] = Null
  <2> SUFFICES ASSUME NEW p \in LocalPlaces, p # Message PROVE ptr[p] = Null
    OBVIOUS
  <2>1. PICK d \in 0..Cardinality(Msgs) : p = DataAt(d) \/ p = NameAt(d)
    BY Levels
  <2>2. CASE d = 0
    BY <1>1, <2>1, <2>2, Levels DEF LocalsOK
  <2>3. CASE d # 0
    BY <1>2, <1>3, <2>1, <2>3
  <2> QED
    BY <2>2, <2>3
<1>5. /\ Message \in LocalPlaces /\ Message \in Places
      /\ Message \notin ObjectPlaces /\ Message \notin ClientVars
  BY <1>2, Levels
<1>6. /\ ptr \in [Places -> Addresses] /\ mem \in [Objects -> {"unused", "live", "freed"}]
      /\ count \in [Counted -> Nat] /\ frames \in Seq(Frames)
  BY <1>1 DEF HeapOK, HeapTypeOK, Addresses, TypesOK
<1> QED
  BY <1>1, <1>4, <1>5, <1>6

(* And what that means for the invariant.                                  *)
LEMMA LocalsAfter ==
    ASSUME \A p \in LocalPlaces : p # Message => ptr'[p] = Null,
           ptr'[Message] \in Msgs \cup {Null},
           ptr'[Message] # Null <=>
               at' \in {"envelope", "handover"} \/ (at' = "drop_message" /\ frames' = <<>>)
    PROVE  LocalsOK'
<1>1. Cardinality(Msgs) \in Nat /\ 0 \in 0..Cardinality(Msgs)
  BY MsgsFinite
<1>2. \A d \in 0..Cardinality(Msgs) :
         /\ d # 0 => DataAt(d) # Message
         /\ NameAt(d) # Message /\ DataAt(d) \in LocalPlaces /\ NameAt(d) \in LocalPlaces
  BY <1>1, Levels
<1>3. ptr'[NameAt(0)] = Null
  BY <1>1, <1>2
<1>4. \A d \in 1..Cardinality(Msgs) : ptr'[DataAt(d)] = Null /\ ptr'[NameAt(d)] = Null
  BY <1>1, <1>2
<1> QED
  BY <1>3, <1>4, KindsApart DEF LocalsOK

(* The outermost call returns.                                             *)
LEMMA LeaveMessageIInv ==
    ASSUME IInv, LeaveMessage
    PROVE  IInv'
<1> USE KindsApart
<1>1. At("return") /\ Outermost /\ UNCHANGED heapVars
  BY DEF LeaveMessage
<1>2. /\ \A p \in LocalPlaces : p # Message => ptr[p] = Null
      /\ HeapOK /\ TypesOK /\ LocalsOK /\ frames \in Seq(Frames)
  BY <1>1, NoLocals
<1>3. /\ at = "fields" /\ Building /\ Current.at = "return"
      /\ \A o \in Counted : mem[o] = "live" => count[o] <= 1
  BY <1>1, InTurn
<1>4. ptr' = ptr /\ mem' = mem /\ count' = count
  BY <1>1 DEF heapVars
<1>5. HeapOK' /\ Shape' /\ OnceHeld'
  BY <1>1, <1>2, <1>3, <1>4, HeapAsBefore, ShapeKept DEF OnceHeld, IInv
<1>6. Depth = 1 /\ ptr[Message] = Null
  BY <1>1, <1>2, <1>3 DEF Outermost, Depth, LocalsOK
<1>7. Depth' <= Cardinality(Used') /\ NoFrames' /\ (Building => FramesOK)' /\ TypesOK' /\ LocalsOK'
  <2>1. CASE Current.failed
    <3>1. at' = "drop_envelope" /\ frames' = frames
      BY <2>1 DEF LeaveMessage
    <3>2. TypesOK' /\ Depth' <= Cardinality(Used')
      BY <1>2, <1>3, <1>4, <1>6, <3>1 DEF TypesOK, Depth, Positions, Current, Used
    <3>3. NoFrames'
      BY <3>1 DEF NoFrames
    <3>4. FramesOK /\ UNCHANGED <<ptr, frames>>
      BY <1>3, <1>4, <3>1 DEF IInv
    <3>5. FramesOK'
      BY <3>4 DEF FramesOK, Handed, Empty, Depth, FrameAt
    <3>6. LocalsOK'
      BY <1>2, <1>4, <1>6, <3>1, LocalsAfter
    <3> QED
      BY <3>2, <3>3, <3>5, <3>6
  <2>2. CASE ~ Current.failed
    <3>1. at' = "idle" /\ frames' = <<>>
      BY <2>2 DEF LeaveMessage
    <3>2. Depth' = 0 /\ Used' = Used
      BY <1>4, <3>1 DEF Depth, Used
    <3>3. TypesOK' /\ Depth' <= Cardinality(Used')
      BY <3>1, <3>2, MsgsFinite DEF TypesOK, Positions
    <3>4. NoFrames' /\ ~ Building'
      BY <3>1 DEF NoFrames, Building
    <3>6. LocalsOK'
      BY <1>2, <1>4, <1>6, <3>1, LocalsAfter
    <3> QED
      BY <3>3, <3>4, <3>6
  <2> QED
    BY <2>1, <2>2
<1> QED
  BY <1>5, <1>7 DEF IInv

(* No envelope, so the message is to be dropped.                           *)
LEMMA WrapFailsIInv ==
    ASSUME IInv, WrapFails
    PROVE  IInv'
<1> USE KindsApart
<1>1. at = "envelope" /\ at' = "drop_message" /\ UNCHANGED <<heapVars, frames>>
  BY DEF WrapFails
<1>2. /\ \A p \in LocalPlaces : p # Message => ptr[p] = Null
      /\ HeapOK /\ TypesOK /\ LocalsOK
  BY <1>1, NoLocals
<1>3. ptr' = ptr /\ mem' = mem /\ count' = count /\ frames' = frames /\ frames = <<>>
  BY <1>1, <1>2 DEF heapVars, TypesOK
<1>4. HeapOK' /\ Shape' /\ OnceHeld'
  BY <1>1, <1>2, <1>3, HeapAsBefore, ShapeKept DEF OnceHeld, IInv
<1>5. TypesOK'
  BY <1>1, <1>2, <1>3 DEF TypesOK, Positions, Depth, Used
<1>6. NoFrames' /\ ~ Building'
  BY <1>1 DEF NoFrames, Building
<1>7. ptr[Message] # Null /\ ptr[Message] \in Msgs
  BY <1>1, <1>2 DEF LocalsOK
<1>8. LocalsOK'
  BY <1>1, <1>2, <1>3, <1>7, LocalsAfter
<1> QED
  BY <1>4, <1>5, <1>6, <1>8 DEF IInv

(* The envelope is released, and with it the message, whose fields may be  *)
(* decoded only in part.                                                   *)
LEMMA DropEnvelopeIInv ==
    ASSUME IInv, DropEnvelope
    PROVE  IInv'
<1> USE KindsApart
<1>1. /\ at = "drop_envelope" /\ at' = "drop_message" /\ UNCHANGED <<mem, raw, frames>>
  BY DEF DropEnvelope
<1>2. PICK c \in ClientVars : ptr[c] \in Envs /\ ReleaseObject(ptr[c])
                              /\ ptr' = [ptr EXCEPT ![c] = Null]
  BY DEF DropEnvelope
<1>3. /\ \A p \in LocalPlaces : p # Message => ptr[p] = Null
      /\ HeapOK /\ TypesOK /\ LocalsOK /\ ptr \in [Places -> Addresses]
      /\ count \in [Counted -> Nat] /\ Message \in LocalPlaces
  BY <1>1, NoLocals
<1>4. c \in Places /\ c \notin LocalPlaces /\ c \notin ObjectPlaces
  BY PlacesApart
<1>5. HeapOK'
  BY <1>1, <1>2, <1>3, <1>4, ReleaseKeeps DEF Changed
<1>6. Shape'
  BY <1>2, <1>3, <1>4, PlacesApart, ShapeKept DEF IInv
<1>7. OnceHeld'
  <2>1. PICK e \in Counted : e = ptr[c]
    BY <1>2
  <2>2. count' = [count EXCEPT ![e] = count[e] - 1]
    BY <1>2, <2>1 DEF ReleaseObject
  <2>3. \A o \in Counted : mem[o] = "live" => count[o] <= 1
    BY <1>1 DEF IInv, OnceHeld
  <2> QED
    BY <1>1, <1>3, <2>2, <2>3 DEF OnceHeld
<1>8. Depth = 1 /\ frames # <<>>
  BY <1>1, <1>3 DEF TypesOK, Depth
<1>9. TypesOK'
  BY <1>1, <1>3, <1>8 DEF TypesOK, Positions, Depth, Used
<1>10. NoFrames' /\ ~ Building'
  BY <1>1 DEF NoFrames, Building
<1>11. ptr[Message] = Null
  BY <1>1, <1>3 DEF LocalsOK
<1>12. \A p \in LocalPlaces : ptr'[p] = ptr[p] /\ p # c
  BY <1>2, <1>3, <1>4, PlacesApart
<1>13. LocalsOK'
  BY <1>1, <1>3, <1>8, <1>11, <1>12, LocalsAfter
<1> QED
  BY <1>5, <1>6, <1>7, <1>9, <1>10, <1>13 DEF IInv

(* The message is released, unless the envelope had it.                    *)
LEMMA DropMessageIInv ==
    ASSUME IInv, DropMessage
    PROVE  IInv'
<1> USE KindsApart
<1>1. at = "drop_message" /\ at' = "idle" /\ frames' = <<>> /\ UNCHANGED <<mem, raw>>
  BY DEF DropMessage
<1>3. /\ \A p \in LocalPlaces : p # Message => ptr[p] = Null
      /\ HeapOK /\ TypesOK /\ LocalsOK /\ ptr \in [Places -> Addresses]
      /\ count \in [Counted -> Nat] /\ Message \in LocalPlaces
      /\ Message \in Places /\ Message \notin ObjectPlaces
  BY <1>1, NoLocals
<1>4. \A o \in Counted : mem[o] = "live" => count[o] <= 1
  BY <1>1 DEF IInv, OnceHeld
<1>5. HeapOK' /\ Shape' /\ OnceHeld' /\ (\A p \in LocalPlaces : ptr'[p] = Null)
  <2>1. CASE ptr[Message] # Null
    <3>1. ReleaseObject(ptr[Message]) /\ ptr' = [ptr EXCEPT ![Message] = Null]
      BY <2>1 DEF DropMessage
    <3>2. PICK m \in Msgs : m = ptr[Message]
      BY <1>3, <2>1 DEF LocalsOK
    <3>3. HeapOK'
      BY <1>1, <1>3, <3>1, <3>2, ReleaseKeeps DEF Changed
    <3>4. Shape'
      BY <1>3, <3>1, PlacesApart, ShapeKept DEF IInv
    <3>5. count' = [count EXCEPT ![m] = count[m] - 1]
      BY <3>1, <3>2 DEF ReleaseObject
    <3>6. OnceHeld'
      BY <1>1, <1>3, <1>4, <3>5 DEF OnceHeld
    <3>7. \A p \in LocalPlaces : ptr'[p] = Null
      BY <1>3, <3>1, PlacesApart
    <3> QED
      BY <3>3, <3>4, <3>6, <3>7
  <2>2. CASE ptr[Message] = Null
    <3>1. UNCHANGED heapVars
      BY <1>1, <2>2 DEF DropMessage, heapVars
    <3>2. ptr' = ptr /\ mem' = mem /\ count' = count
      BY <3>1 DEF heapVars
    <3>3. HeapOK' /\ Shape' /\ OnceHeld'
      BY <1>3, <1>4, <3>1, <3>2, HeapAsBefore, ShapeKept DEF OnceHeld, IInv
    <3> QED
      BY <1>3, <2>2, <3>2, <3>3
  <2> QED
    BY <2>1, <2>2
<1>6. TypesOK'
  <2>1. Depth' = 0 /\ Used' = Used
    BY <1>1 DEF Depth, Used
  <2> QED
    BY <1>1, <2>1, MsgsFinite DEF TypesOK, Positions
<1>7. NoFrames' /\ ~ Building'
  BY <1>1 DEF NoFrames, Building
<1>8. LocalsOK'
  BY <1>1, <1>3, <1>5, LocalsAfter
<1> QED
  BY <1>5, <1>6, <1>7, <1>8 DEF IInv

(* The envelope is created around the message, ...                         *)
LEMMA WrapMessageIInv ==
    ASSUME IInv, NEW c \in ClientVars, WrapMessage(c)
    PROVE  IInv'
<1> USE KindsApart
<1>1. at = "envelope" /\ at' = "handover" /\ ptr[c] = Null /\ UNCHANGED <<raw, stack, frames>>
  BY DEF WrapMessage
<1>2. /\ \A p \in LocalPlaces : p # Message => ptr[p] = Null
      /\ HeapOK /\ TypesOK /\ LocalsOK /\ ptr \in [Places -> Addresses]
      /\ mem \in [Objects -> {"unused", "live", "freed"}]
      /\ count \in [Counted -> Nat] /\ Message \in LocalPlaces
      /\ Message \in Places /\ Message \notin ObjectPlaces /\ Message \notin ClientVars
  BY <1>1, NoLocals
<1>3. NoFrames
  BY DEF IInv
<1>4. PICK e \in Envs : e = New(Envs) /\ mem[e] = "unused"
  BY <1>1, <1>3, NewIsUnused DEF NoFrames
<1>5. PICK m \in Msgs : m = ptr[Message] /\ Empty(m, 0)
  BY <1>1, <1>3 DEF NoFrames
<1> DEFINE x == <<e, 1, "data">>
<1>6. /\ mem' = [mem EXCEPT ![e] = "live"]
      /\ count' = [count EXCEPT ![e] = 1, ![m] = @ + 1]
      /\ ptr' = [ptr EXCEPT ![c] = e, ![x] = m]
  BY <1>4, <1>5 DEF WrapMessage
<1>7. /\ x \in ObjectPlaces /\ x \in Places /\ x \notin FieldPlaces
      /\ c \in Places /\ c \notin ObjectPlaces
  BY HandedPlaces, PlacesApart
<1> HIDE DEF x
<1>8. PICK one : Changed(ptr, c, e, one)
  BY DEF Changed
<1>9. Changed(one, x, m, ptr')
  BY <1>2, <1>6, <1>7, <1>8 DEF Changed
<1>10. HeapOK'
  BY <1>1, <1>2, <1>4, <1>5, <1>6, <1>8, <1>9, WrapKeeps DEF x
<1>11. \A p \in Places : ptr'[p] = IF p = x THEN m ELSE IF p = c THEN e ELSE ptr[p]
  BY <1>2, <1>6, <1>7
<1>12. Shape'
  BY <1>7, <1>11, PlacesApart, ShapeKept DEF IInv
<1>13. ptr'[Message] = m
  BY <1>2, <1>5, <1>7, <1>11
<1>14. OnceHeld'
  <2>1. \A o \in Counted : mem[o] = "live" => count[o] <= 1
    BY <1>1 DEF IInv, OnceHeld
  <2>2. mem[m] = "live"
    BY <1>2, <1>5, PointedAtIsLive
  <2> SUFFICES ASSUME NEW o \in Counted, mem'[o] = "live"
               PROVE  count'[o] <= 1 \/ (count'[o] = 2 /\ o = m)
    BY <1>1, <1>13 DEF OnceHeld
  <2>3. CASE o = m
    BY <1>2, <1>6, <2>1, <2>2, <2>3
  <2>4. CASE o = e
    BY <1>2, <1>6, <2>4
  <2>5. CASE o # m /\ o # e
    BY <1>2, <1>6, <2>1, <2>5
  <2> QED
    BY <2>3, <2>4, <2>5
<1>15. TypesOK'
  <2>1. frames' = <<>> /\ Depth' = 0 /\ Used' = Used
    BY <1>1, <1>2, <1>6 DEF TypesOK, Depth, Used
  <2> QED
    BY <1>1, <2>1, MsgsFinite DEF TypesOK, Positions
<1>16. NoFrames' /\ ~ Building'
  <2>1. \A i \in 1..MaxFields, k \in {"data", "name"} :
          <<m, i, k>> \in FieldPlaces /\ <<m, i, k>> \in ObjectPlaces
    BY DEF FieldPlaces, ObjectPlaces
  <2>a. \A p \in FieldPlaces : p \in ObjectPlaces => p \in Places /\ p # x /\ p # c
    BY <1>7, PlacesApart
  <2>b. \A i \in 1..MaxFields, k \in {"data", "name"} : ptr'[<<m, i, k>>] = ptr[<<m, i, k>>]
    BY <1>11, <2>1, <2>a
  <2>2. \A i \in 1..MaxFields, k \in {"data", "name"} : i > 0 => ptr'[<<m, i, k>>] = Null
    BY <1>5, <2>b DEF Empty
  <2>3. ptr'[c] = e /\ ptr'[<<e, 1, "data">>] = m
    BY <1>7, <1>11 DEF x
  <2> QED
    BY <1>1, <1>13, <2>2, <2>3 DEF NoFrames, Handed, Empty, Building
<1>17. LocalsOK'
  <2>1. \A p \in LocalPlaces : p # c /\ p # x /\ p \in Places
    BY <1>7, PlacesApart
  <2>2. \A p \in LocalPlaces : ptr'[p] = ptr[p]
    BY <1>11, <2>1
  <2> QED
    BY <1>1, <1>2, <1>13, <2>2, LocalsAfter
<1> QED
  BY <1>10, <1>12, <1>14, <1>15, <1>16, <1>17 DEF IInv

(* ... which decodeMsg gives up, and whose fields it starts to decode.     *)
LEMMA HandOverIInv ==
    ASSUME IInv, HandOver
    PROVE  IInv'
<1> USE KindsApart
<1>1. /\ at = "handover" /\ at' = "fields" /\ UNCHANGED <<mem, raw>>
      /\ ReleaseObject(ptr[Message]) /\ ptr' = [ptr EXCEPT ![Message] = Null]
  BY DEF HandOver
<1>2. /\ \A p \in LocalPlaces : p # Message => ptr[p] = Null
      /\ HeapOK /\ TypesOK /\ LocalsOK /\ ptr \in [Places -> Addresses]
      /\ count \in [Counted -> Nat] /\ Message \in LocalPlaces
      /\ Message \in Places /\ Message \notin ObjectPlaces /\ Message \notin ClientVars
  BY <1>1, NoLocals
<1>3. NoFrames
  BY DEF IInv
<1>4. PICK m \in Msgs : m = ptr[Message] /\ Empty(m, 0) /\ Handed(m)
  BY <1>1, <1>3 DEF NoFrames
<1>5. HeapOK'
  BY <1>1, <1>2, <1>4, ReleaseKeeps DEF Changed
<1>6. \A p \in Places : p # Message => ptr'[p] = ptr[p]
  BY <1>1, <1>2
<1>7. Shape'
  BY <1>2, <1>6, PlacesApart, ShapeKept DEF IInv
<1>8. OnceHeld'
  <2>1. count' = [count EXCEPT ![m] = count[m] - 1]
    BY <1>1, <1>4 DEF ReleaseObject
  <2>2. \A o \in Counted : mem[o] = "live" => count[o] <= 1 \/ (count[o] = 2 /\ o = m)
    BY <1>1, <1>4 DEF IInv, OnceHeld
  <2>3. \A o \in Counted : mem'[o] = "live" => count'[o] <= 1
    BY <1>1, <1>2, <2>1, <2>2
  <2> QED
    BY <2>3 DEF OnceHeld
<1>9. PICK f : f = Frame(m)
  OBVIOUS
<1>10. f \in Frames /\ f.msg = m /\ f.fields = 0 /\ f.at = "next"
  BY <1>9, ObjectHeapAssumption DEF Frame, Frames
<1>11. frames' = <<f>>
  BY <1>4, <1>9 DEF HandOver
<1>12. frames' \in Seq(Frames) /\ Depth' = 1 /\ Current' = f /\ FrameAt(1)' = f /\ frames' # <<>>
  BY <1>10, <1>11 DEF Depth, Current, FrameAt
<1>13. TypesOK'
  <2>1. mem[m] = "live"
    BY <1>2, <1>4, PointedAtIsLive
  <2>2. m \in Used /\ Used' = Used
    BY <1>1, <2>1 DEF Used
  <2>3. Cardinality(Used) # 0
    BY <2>2, MsgsFinite, FS_EmptySet
  <2>4. 1 <= Cardinality(Used')
    BY <2>2, <2>3, MsgsFinite
  <2> QED
    BY <1>1, <1>12, <2>4 DEF TypesOK, Positions
<1>14. NoFrames'
  BY <1>1 DEF NoFrames
<1>15. FramesOK'
  <2>1. \A i \in 1..MaxFields, k \in {"data", "name"} : <<m, i, k>> \in ObjectPlaces
    BY DEF FieldPlaces, ObjectPlaces
  <2>2. \A i \in 1..MaxFields, k \in {"data", "name"} : i > 0 => ptr'[<<m, i, k>>] = Null
    BY <1>2, <1>4, <1>6, <2>1, PlacesApart DEF Empty
  <2>3. Handed(m)'
    <3>1. PICK c \in ClientVars, e \in Envs : ptr[c] = e /\ ptr[<<e, 1, "data">>] = m
      BY <1>4 DEF Handed
    <3>2. c # Message /\ c \in Places /\ <<e, 1, "data">> # Message /\ <<e, 1, "data">> \in Places
      BY <1>2, HandedPlaces, PlacesApart
    <3> QED
      BY <1>6, <3>1, <3>2 DEF Handed
  <2>4. Handed(FrameAt(1).msg)' /\ Empty(FrameAt(1).msg, FrameAt(1).fields)'
    BY <1>10, <1>12, <2>2, <2>3 DEF Handed, Empty
  <2>5. \A d \in 1..Depth' : d = 1
    BY <1>12
  <2>6. \A d \in 1..(Depth' - 1) : FALSE
    BY <1>12
  <2> QED
    BY <1>10, <1>12, <2>4, <2>5, <2>6 DEF FramesOK
<1>16. LocalsOK'
  <2>1. \A p \in LocalPlaces : ptr'[p] = Null
    BY <1>1, <1>2, PlacesApart
  <2> QED
    BY <1>1, <1>2, <2>1, LocalsAfter
<1> QED
  BY <1>5, <1>7, <1>8, <1>13, <1>14, <1>15, <1>16 DEF IInv

-----------------------------------------------------------------------------
(* The heap lets go of pointers while decodeMsg stays where it is.         *)
LEMMA StillFrames ==
    ASSUME IInv, at' = at, frames' = frames, count' \in [Counted -> Nat],
           \A p \in Places : \/ ptr'[p] = ptr[p]
                             \/ ptr'[p] = Null /\ p \in ObjectPlaces /\ count[p[1]] = 0
                             \/ ptr'[p] = Null /\ p \in ClientVars /\ at = "idle",
           \A o \in Counted : /\ mem'[o] = "unused" <=> mem[o] = "unused"
                              /\ mem'[o] = "live" => mem[o] = "live" /\ count'[o] <= count[o]
    PROVE  Shape' /\ OnceHeld' /\ TypesOK' /\ NoFrames' /\ (Building => FramesOK)' /\ LocalsOK'
<1> USE KindsApart
<1>1. /\ HeapOK /\ TypesOK /\ NoFrames /\ (Building => FramesOK) /\ LocalsOK /\ Shape /\ OnceHeld
      /\ count \in [Counted -> Nat] /\ frames \in Seq(Frames)
  BY DEF IInv, HeapOK, HeapTypeOK, TypesOK
<1>2. \A p \in LocalPlaces : ptr'[p] = ptr[p]
  BY PlacesApart
<1>3. \A d \in 0..Cardinality(Msgs) : ptr'[DataAt(d)] = ptr[DataAt(d)]
                                      /\ ptr'[NameAt(d)] = ptr[NameAt(d)]
  BY <1>2, Levels
<1>4. Cardinality(Msgs) \in Nat /\ ptr'[Message] = ptr[Message]
  BY <1>3, Levels, MsgsFinite
<1>5. Depth' = Depth /\ Current' = Current /\ \A d : FrameAt(d)' = FrameAt(d)
  BY DEF Depth, Current, FrameAt
<1>6. Shape'
  <2>1. \A p \in ObjectPlaces : ptr'[p] = ptr[p] \/ ptr'[p] = Null
    BY PlacesApart
  <2> QED
    BY <1>1, <2>1, ShapeKept
<1>7. TypesOK'
  <2>1. Used' = Used
    BY DEF Used
  <2> QED
    BY <1>1, <2>1 DEF TypesOK, Depth, Current
<1>8. LocalsOK'
  <2>1. ptr'[NameAt(0)] = ptr[NameAt(0)]
    BY <1>3, <1>4
  <2>2. \A d \in 1..Cardinality(Msgs) : ptr'[DataAt(d)] = ptr[DataAt(d)]
                                        /\ ptr'[NameAt(d)] = ptr[NameAt(d)]
    BY <1>3, <1>4
  <2> QED
    BY <1>1, <1>4, <1>5, <2>1, <2>2 DEF LocalsOK
<1>9. ASSUME NEW m \in Msgs, Handed(m), at # "idle" PROVE Handed(m)'
  <2>1. PICK c \in ClientVars, e \in Envs : ptr[c] = e /\ ptr[<<e, 1, "data">>] = m
    BY <1>9 DEF Handed
  <2>2. c \in Places /\ ptr[c] # Null /\ ptr[c] \in Counted /\ ptr[c] = e
    BY <2>1, PlacesApart
  <2>3. count[e] > 0
    BY <1>1, <2>2, PointedAtIsLive
  <2>4. ptr'[c] = e
    BY <1>9, <2>1, <2>2, PlacesApart
  <2>5. ptr'[<<e, 1, "data">>] = m
    <3>1. PICK x : x = <<e, 1, "data">>
      OBVIOUS
    <3>2. x \in Places /\ x \notin ClientVars /\ x[1] = e
      BY <3>1, HandedPlaces, PlacesApart
    <3>3. count[x[1]] # 0
      BY <1>1, <2>3, <3>2
    <3> QED
      BY <2>1, <3>1, <3>2, <3>3
  <2> QED
    BY <2>4, <2>5 DEF Handed
<1>10. ASSUME NEW m \in Msgs, NEW n, Empty(m, n)
       PROVE  \A i \in 1..MaxFields, k \in {"data", "name"} : i > n => ptr'[<<m, i, k>>] = Null
  <2>1. \A i \in 1..MaxFields, k \in {"data", "name"} :
            <<m, i, k>> \in ObjectPlaces /\ <<m, i, k>> \in Places
    BY PlacesApart DEF ObjectPlaces, FieldPlaces
  <2>2. \A i \in 1..MaxFields, k \in {"data", "name"} :
            ptr'[<<m, i, k>>] = ptr[<<m, i, k>>] \/ ptr'[<<m, i, k>>] = Null
    BY <2>1
  <2> QED
    BY <1>10, <2>2 DEF Empty
<1>11. NoFrames'
  <2>1. at = "envelope" => Unused(Envs)' # {}
    <3>1. Unused(Envs)' = Unused(Envs)
      BY DEF Unused
    <3> QED
      BY <1>1, <3>1 DEF NoFrames
  <2>2. at \in {"envelope", "handover"} => ptr[Message] \in Msgs /\ Empty(ptr[Message], 0)
    BY <1>1 DEF NoFrames
  <2>3. at \in {"envelope", "handover"} => Empty(ptr[Message], 0)'
    <3> SUFFICES ASSUME at \in {"envelope", "handover"} PROVE Empty(ptr[Message], 0)'
      OBVIOUS
    <3>1. PICK m \in Msgs : m = ptr[Message] /\ Empty(m, 0)
      BY <2>2
    <3>2. \A i \in 1..MaxFields, k \in {"data", "name"} : i > 0 => ptr'[<<m, i, k>>] = Null
      BY <1>10, <3>1
    <3> QED
      BY <1>4, <3>1, <3>2 DEF Empty
  <2>4. at = "handover" => Handed(ptr[Message])'
    <3> SUFFICES ASSUME at = "handover" PROVE Handed(ptr[Message])'
      OBVIOUS
    <3>1. PICK m \in Msgs : m = ptr[Message] /\ Handed(m)
      BY <1>1 DEF NoFrames
    <3>2. Handed(m)'
      BY <1>9, <3>1
    <3> QED
      BY <1>4, <3>1, <3>2 DEF Handed
  <2> QED
    BY <1>4, <2>1, <2>2, <2>3, <2>4 DEF NoFrames
<1>12. (Building => FramesOK)'
  <2> SUFFICES ASSUME Building PROVE FramesOK'
    BY DEF Building
  <2>0. FramesOK /\ at # "idle" /\ Depth >= 1
    BY <1>1 DEF Building, TypesOK
  <2>1. FramesOK /\ frames # <<>> /\ at # "idle"
    BY <2>0 DEF Depth
  <2>2. /\ Depth \in 1..Cardinality(Msgs) /\ \A d \in 1..Depth : FrameAt(d) \in Frames
    BY <1>1, <2>1, Innermost
  <2>3. Handed(FrameAt(1).msg)'
    <3>1. PICK m \in Msgs : m = FrameAt(1).msg
      BY <1>4, <2>2 DEF Frames
    <3>2. Handed(m)'
      BY <1>9, <2>1, <3>1 DEF FramesOK
    <3>3. FrameAt(1)'.msg = m
      BY <1>5, <3>1
    <3> QED
      BY <3>2, <3>3 DEF Handed
  <2>4. \A d \in 1..Depth : Empty(FrameAt(d).msg, FrameAt(d).fields)'
    <3> SUFFICES ASSUME NEW d \in 1..Depth PROVE Empty(FrameAt(d).msg, FrameAt(d).fields)'
      OBVIOUS
    <3>1. FrameAt(d).msg \in Msgs /\ Empty(FrameAt(d).msg, FrameAt(d).fields)
      BY <2>1, <2>2 DEF FramesOK, Frames
    <3>2. \A i \in 1..MaxFields, k \in {"data", "name"} :
             i > FrameAt(d).fields => ptr'[<<FrameAt(d).msg, i, k>>] = Null
      BY <1>10, <3>1
    <3> QED
      BY <1>5, <3>2 DEF Empty
  <2>5. \A d \in 1..(Depth - 1) : ptr'[DataAt(d)] = ptr[DataAt(d)]
    BY <1>3, <1>4, <2>2
  <2> QED
    BY <1>5, <2>1, <2>3, <2>4, <2>5 DEF FramesOK
<1>13. OnceHeld'
  <2> SUFFICES ASSUME NEW o \in Counted, mem'[o] = "live"
               PROVE  \/ count'[o] <= 1
                      \/ count'[o] = 2 /\ at = "handover" /\ o = ptr[Message]
                      \/ count'[o] = 2 /\ at = "fields" /\ Current.at = "cleanup" /\ o = ptr[Name]
    <3>1. at = "fields" => (ptr[Name])' = ptr[Name]
      <4>1. SUFFICES ASSUME at = "fields" PROVE (ptr[Name])' = ptr[Name]
        OBVIOUS
      <4>2. frames # <<>>
        BY <1>1, <4>1 DEF TypesOK, Depth
      <4>3. Name = NameAt(Depth) /\ Depth \in 0..Cardinality(Msgs)
        BY <1>1, <1>4, <4>2, Innermost
      <4>4. Name' = Name
        BY DEF Name, Level
      <4> QED
        BY <1>3, <4>3, <4>4
    <3> QED
      BY <1>4, <1>5, <3>1 DEF OnceHeld
  <2>1. mem[o] = "live" /\ count'[o] <= count[o] /\ count[o] \in Nat /\ count'[o] \in Nat
    BY <1>1
  <2> QED
    BY <1>1, <2>1 DEF OnceHeld
<1> QED
  BY <1>6, <1>7, <1>8, <1>11, <1>12, <1>13

(* The client releases an envelope.                                        *)
LEMMA ReleaseEnvelopeIInv ==
    ASSUME IInv, NEW c \in ClientVars, ReleaseEnvelope(c)
    PROVE  IInv'
<1> USE KindsApart
<1>1. /\ at = "idle" /\ ptr[c] # Null /\ ReleaseObject(ptr[c])
      /\ ptr' = [ptr EXCEPT ![c] = Null] /\ UNCHANGED <<mem, raw, at, frames>>
  BY DEF ReleaseEnvelope
<1>2. HeapOK /\ ptr \in [Places -> Addresses] /\ count \in [Counted -> Nat]
  BY DEF IInv, HeapOK, HeapTypeOK, Addresses
<1>3. c \in Places
  BY PlacesApart
<1>4. PICK o \in Counted : o = ptr[c]
  BY <1>1, <1>2, <1>3 DEF HeapOK, RawOK, Addresses
<1>5. HeapOK'
  BY <1>1, <1>2, <1>3, <1>4, ReleaseKeeps DEF Changed
<1>6. count' \in [Counted -> Nat]
  BY <1>5 DEF HeapOK, HeapTypeOK
<1>7. count' = [count EXCEPT ![o] = count[o] - 1]
  BY <1>1, <1>4 DEF ReleaseObject
<1>8. \A r \in Counted : count'[r] <= count[r]
  BY <1>2, <1>7
<1>9. \A p \in Places : ptr'[p] = ptr[p] \/ (ptr'[p] = Null /\ p \in ClientVars)
  BY <1>1, <1>2
<1> QED
  BY <1>1, <1>5, <1>6, <1>8, <1>9, StillFrames DEF IInv

(* A destructor empties slots of objects nobody refers to: so not those of *)
(* the envelope that is being filled.                                      *)
LEMMA DestructorIInv ==
    ASSUME IInv, Destructor
    PROVE  IInv'
<1> USE KindsApart
<1>1. at' = at /\ frames' = frames /\ (DestroyNextField \/ FreeObject)
  BY DEF Destructor
<1>2. HeapOK /\ ptr \in [Places -> Addresses] /\ count \in [Counted -> Nat]
      /\ mem \in [Objects -> {"unused", "live", "freed"}]
  BY DEF IInv, HeapOK, HeapTypeOK, Addresses
<1>3. stack \in Seq(Counted) /\ stack # <<>>
  BY <1>1, <1>2 DEF DestroyNextField, FreeObject, HeapOK, HeapTypeOK
<1>4. PICK o \in Counted : o = Head(stack) /\ mem[o] = "live" /\ count[o] = 0
  <2>1. Head(stack) = stack[1] /\ 1 \in DOMAIN stack /\ stack[1] \in Counted
    BY <1>3
  <2> QED
    BY <1>2, <2>1 DEF HeapOK, DestroyedOnce
<1>5. CASE DestroyNextField
  <2>1. PICK p \in ObjectPlaces : p[1] = o /\ ptr[p] # Null /\ DestroyPointer(p)
    BY <1>4, <1>5 DEF DestroyNextField, OwnedPlaces
  <2>2. p \in Places
    BY PlacesApart
  <2>3. /\ HeapOK' /\ ptr' = [ptr EXCEPT ![p] = Null]
        /\ \A r \in Counted : mem'[r] = mem[r]
    BY <1>2, <2>1, <2>2, DestroyKeeps
  <2>4. \A r \in Counted : count'[r] <= count[r]
    BY <1>2, <2>1, <2>2, DestroyCounts
  <2>5. count' \in [Counted -> Nat]
    BY <2>3 DEF HeapOK, HeapTypeOK
  <2>6. \A q \in Places : \/ ptr'[q] = ptr[q]
                          \/ ptr'[q] = Null /\ q \in ObjectPlaces /\ count[q[1]] = 0
    BY <1>2, <1>4, <2>1, <2>2, <2>3
  <2> QED
    BY <1>1, <2>3, <2>4, <2>5, <2>6, StillFrames DEF IInv
<1>6. CASE FreeObject
  <2>1. HeapOK'
    BY <1>2, <1>6, FreeKeeps
  <2>2. ptr' = ptr /\ count' = count /\ mem' = [mem EXCEPT ![o] = "freed"]
    BY <1>4, <1>6 DEF FreeObject
  <2>3. \A r \in Counted : /\ mem'[r] = "unused" <=> mem[r] = "unused"
                           /\ mem'[r] = "live" => mem[r] = "live" /\ count'[r] <= count[r]
    BY <1>2, <1>4, <2>2
  <2> QED
    BY <1>1, <1>2, <2>1, <2>2, <2>3, StillFrames DEF IInv
<1> QED
  BY <1>1, <1>5, <1>6

(* The message is created, in a local.                                     *)
LEMMA DecodeMsgIInv ==
    ASSUME IInv, DecodeMsg
    PROVE  IInv'
<1> USE KindsApart
<1>1. at = "idle" /\ frames' = frames /\ Unused(Msgs) # {} /\ Unused(Envs) # {}
  BY DEF DecodeMsg
<1>2. /\ \A p \in LocalPlaces : p # Message => ptr[p] = Null
      /\ HeapOK /\ TypesOK /\ LocalsOK /\ ptr \in [Places -> Addresses]
      /\ mem \in [Objects -> {"unused", "live", "freed"}]
      /\ count \in [Counted -> Nat] /\ Message \in LocalPlaces
      /\ Message \in Places /\ Message \notin ObjectPlaces /\ Message \notin ClientVars
  BY <1>1, NoLocals
<1>3. ptr[Message] = Null /\ frames = <<>>
  BY <1>1, <1>2 DEF LocalsOK, TypesOK
<1>4. CASE UNCHANGED <<heapVars, at>>
  <2>1. ptr' = ptr /\ mem' = mem /\ count' = count
    BY <1>4 DEF heapVars
  <2>2. HeapOK'
    BY <1>2, <1>4, HeapAsBefore
  <2> QED
    BY <1>1, <1>2, <1>4, <2>1, <2>2, StillFrames DEF IInv
<1>5. CASE Allocate(New(Msgs), Message) /\ at' = "envelope"
  <2>1. PICK o \in Msgs : o = New(Msgs) /\ mem[o] = "unused"
    BY <1>1, NewIsUnused
  <2>2. /\ Allocate(o, Message) /\ ptr' = [ptr EXCEPT ![Message] = o]
        /\ mem' = [mem EXCEPT ![o] = "live"] /\ count' = [count EXCEPT ![o] = 1]
    BY <1>5, <2>1 DEF Allocate
  <2>3. HeapOK'
    BY <1>2, <1>3, <2>1, <2>2, NewKeeps DEF Allocate, Changed
  <2>4. \A p \in Places : p # Message => ptr'[p] = ptr[p]
    BY <1>2, <2>2
  <2>5. Shape'
    BY <1>2, <2>4, PlacesApart, ShapeKept DEF IInv
  <2>6. OnceHeld'
    <3>1. \A r \in Counted : mem[r] = "live" => count[r] <= 1
      BY <1>1 DEF IInv, OnceHeld
    <3>2. \A r \in Counted : mem'[r] = "live" => count'[r] <= 1
      BY <1>2, <2>2, <3>1
    <3> QED
      BY <3>2 DEF OnceHeld
  <2>7. TypesOK'
    <3>1. frames' = <<>> /\ Depth' = 0
      BY <1>1, <1>3 DEF Depth
    <3>2. \A m \in Used : mem'[m] # "unused"
      BY <1>2, <2>2 DEF Used
    <3>3. Cardinality(Used') \in Nat
      BY <1>2, <3>2, UsedKept
    <3> QED
      BY <1>5, <3>1, <3>3 DEF TypesOK, Positions
  <2>8. ptr'[Message] = o
    BY <1>2, <2>2
  <2>9. NoFrames' /\ ~ Building'
    <3>1. \A i \in 1..MaxFields, k \in {"data", "name"} :
            /\ <<o, i, k>> \in ObjectPlaces /\ <<o, i, k>>[1] = o
      BY DEF ObjectPlaces, FieldPlaces
    <3>2. \A i \in 1..MaxFields, k \in {"data", "name"} : ptr[<<o, i, k>>] = Null
      BY <1>2, <2>1, <3>1 DEF HeapOK, OwnersLive
    <3>a. \A p \in ObjectPlaces : p \in Places /\ p # Message
      BY <1>2, PlacesApart
    <3>b. \A p \in ObjectPlaces : ptr'[p] = ptr[p]
      BY <2>4, <3>a
    <3>3. \A i \in 1..MaxFields, k \in {"data", "name"} : ptr'[<<o, i, k>>] = Null
      BY <3>1, <3>2, <3>b
    <3>4. Unused(Envs)' = Unused(Envs)
      BY <1>2, <2>2 DEF Unused
    <3> QED
      BY <1>1, <1>5, <2>8, <3>3, <3>4 DEF NoFrames, Empty, Building
  <2>10. LocalsOK'
    <3>1. \A p \in LocalPlaces : p # Message => ptr'[p] = Null
      BY <1>2, <2>4, PlacesApart
    <3> QED
      BY <1>5, <2>8, <3>1, LocalsAfter
  <2> QED
    BY <2>3, <2>5, <2>6, <2>7, <2>9, <2>10 DEF IInv
<1> QED
  BY <1>4, <1>5 DEF DecodeMsg

-----------------------------------------------------------------------------
(* Every step keeps the invariant.                                         *)
LEMMA NextIInv ==
    ASSUME NamesMade, IInv, [Next]_vars
    PROVE  IInv'
<1>1. CASE UNCHANGED vars
  <2>1. UNCHANGED heapVars /\ ptr' = ptr /\ mem' = mem /\ count' = count
        /\ at' = at /\ frames' = frames
    BY <1>1 DEF vars, heapVars
  <2>2. HeapOK /\ count \in [Counted -> Nat]
    BY DEF IInv, HeapOK, HeapTypeOK
  <2>3. HeapOK'
    BY <2>1, <2>2, HeapAsBefore
  <2> QED
    BY <2>1, <2>2, <2>3, StillFrames DEF IInv
<1>2. CASE DecodeMsg
  BY <1>2, DecodeMsgIInv
<1>3. ASSUME NEW c \in ClientVars, ReleaseEnvelope(c) PROVE IInv'
  BY <1>3, ReleaseEnvelopeIInv
<1>4. CASE Running
  <2>1. ASSUME NEW c \in ClientVars, WrapMessage(c) PROVE IInv'
    BY <2>1, WrapMessageIInv
  <2>2. CASE Destructor \/ WrapFails \/ HandOver
    BY <2>2, DestructorIInv, WrapFailsIInv, HandOverIInv
  <2>3. CASE DecodeFieldHeader \/ HeaderFails \/ GetFieldWidth
    BY <2>3, DecodeFieldHeaderIInv, HeaderFailsIInv, GetFieldWidthIInv
  <2>4. CASE DecodeLeaf \/ PayloadFails \/ EnterSubmessage
    BY <2>4, DecodeLeafIInv, PayloadFailsIInv, EnterSubmessageIInv
  <2>5. CASE CreateName \/ NameFails \/ AddField \/ AppendFails
    BY <2>5, CreateNameIInv, NameFailsIInv, AddFieldIInv, AppendFailsIInv
  <2>6. CASE Cleanup \/ EndOfFields \/ LeaveSubmessage \/ LeaveMessage
    BY <2>6, CleanupIInv, EndOfFieldsIInv, LeaveSubmessageIInv, LeaveMessageIInv
  <2>7. CASE DropEnvelope \/ DropMessage
    BY <2>7, DropEnvelopeIInv, DropMessageIInv
  <2> QED
    BY <1>4, <2>1, <2>2, <2>3, <2>4, <2>5, <2>6, <2>7 DEF Running
<1> QED
  BY <1>1, <1>2, <1>3, <1>4 DEF Next

(* codec_decode.c keeps the invariant from the beginning on, if names are  *)
(* made.                                                                   *)
THEOREM Inductive == NamesMade => (Spec => []IInv)
<1> SUFFICES ASSUME NamesMade PROVE Spec => []IInv
  OBVIOUS
<1>1. Init => IInv
  BY InitIInv
<1>2. IInv /\ [Next]_vars => IInv'
  BY NextIInv
<1> QED
  BY <1>1, <1>2, PTL DEF Spec

(* The count of every live object is the number of pointers to it, at      *)
(* every step of a decoding, whether it succeeds or fails and at whatever  *)
(* depth: decodeField and decodeMsg retain and release what they should.   *)
THEOREM CountsCorrect == NamesMade => (Spec => []CountsExact)
<1> SUFFICES ASSUME NamesMade PROVE Spec => []CountsExact
  OBVIOUS
<1>1. IInv => CountsExact
  BY HeapIsRight DEF IInv
<1> QED
  BY <1>1, Inductive, PTL

(* No envelope, field or local of a decoding leads to freed memory.        *)
THEOREM NothingDangles == NamesMade => (Spec => []NoDangling)
<1> SUFFICES ASSUME NamesMade PROVE Spec => []NoDangling
  OBVIOUS
<1>1. IInv => NoDangling
  BY HeapIsRight DEF IInv
<1> QED
  BY <1>1, Inductive, PTL

(* Between decodings nothing is referred to twice, nor not at all.         *)
LEMMA OnceIsOne == IInv => DecodedCountIsOne
<1> SUFFICES ASSUME IInv, ~ Decoding, NEW o \in Counted, mem[o] = "live"
             PROVE  count[o] = 1
  BY DEF DecodedCountIsOne
<1>1. at = "idle" /\ stack = <<>>
  BY DEF Decoding
<1>2. count[o] <= 1
  BY <1>1 DEF IInv, OnceHeld
<1>3. count[o] \in Nat /\ count[o] # 0
  BY <1>1 DEF IInv, HeapOK, HeapTypeOK, UnheldDying
<1> QED
  BY <1>2, <1>3

(* What FudgeCodec_decodeMsg hands to the client has one reference each:   *)
(* releasing the envelope will free everything.                            *)
THEOREM OneReferenceEach == NamesMade => (Spec => []DecodedCountIsOne)
<1> SUFFICES ASSUME NamesMade PROVE Spec => []DecodedCountIsOne
  OBVIOUS
<1> QED
  BY OnceIsOne, Inductive, PTL

(* Once the client has no envelope there is nothing: what is live would be *)
(* in a message that is live, and so on without end or in a cycle.         *)
LEMMA NothingKept == IInv => FailureLeavesNothing
<1> SUFFICES ASSUME IInv, ~ Decoding, \A c \in ClientVars : ptr[c] = Null,
                    NEW o \in Objects, mem[o] = "live"
             PROVE  FALSE
  BY DEF FailureLeavesNothing
<1> USE KindsApart
<1>1. at = "idle" /\ stack = <<>> /\ HeapOK /\ Shape
  BY DEF Decoding, IInv
<1>2. \A p \in LocalPlaces : ptr[p] = Null
  <2>1. \A p \in LocalPlaces : p # Message => ptr[p] = Null
    BY <1>1, NoLocals
  <2>2. ptr[Message] = Null
    BY <1>1 DEF IInv, LocalsOK
  <2> QED
    BY <2>1, <2>2
<1>3. ASSUME NEW r \in Objects, mem[r] = "live"
      PROVE  \E p \in ObjectPlaces : ptr[p] = r /\ mem[p[1]] = "live"
  <2>1. r \in Counted => count[r] # 0
    BY <1>1, <1>3 DEF HeapOK, UnheldDying
  <2>2. Owed(r) # 0
    BY <1>3, <2>1 DEF Owed
  <2>3. PointingAt(ptr, r) # {}
    BY <1>1, <2>2, HeldFinite DEF HeapOK, Counts
  <2>4. PICK p \in Places : ptr[p] = r
    BY <2>3 DEF PointingAt
  <2>5. p \in ObjectPlaces /\ ptr[p] # Null
    BY <1>2, <2>4 DEF Places
  <2> QED
    BY <1>1, <2>4, <2>5 DEF HeapOK, OwnersLive
<1>4. \A e \in Envs : mem[e] # "live"
  BY <1>1, <1>3 DEF Shape
<1>5. ASSUME NEW r \in Objects, mem[r] = "live"
      PROVE  \E p \in FieldPlaces : ptr[p] = r /\ p[1] \in Msgs /\ mem[p[1]] = "live"
  <2>1. PICK p \in ObjectPlaces : ptr[p] = r /\ mem[p[1]] = "live"
    BY <1>3, <1>5
  <2>2. p \notin EnvPlaces
    BY <1>4, <2>1 DEF EnvPlaces
  <2>3. p \in FieldPlaces
    BY <2>2 DEF ObjectPlaces
  <2>4. p[1] \in Msgs
    BY <2>3 DEF FieldPlaces
  <2> QED
    BY <2>1, <2>3, <2>4
<1> DEFINE S == {m \in Msgs : mem[m] = "live"}
<1>6. S \in SUBSET Msgs /\ S # {}
  BY <1>5
<1>7. PICK m \in S : \A p \in FieldPlaces : p[1] \in S => ptr[p] # m
  <2> HIDE DEF S
  <2> QED
    BY <1>1, <1>6 DEF Shape, Rooted
<1>8. m \in Objects /\ mem[m] = "live"
  OBVIOUS
<1>9. PICK p \in FieldPlaces : ptr[p] = m /\ p[1] \in Msgs /\ mem[p[1]] = "live"
  BY <1>5, <1>8
<1> QED
  BY <1>7, <1>9

(* A decoding that fails, at whatever step and depth, has freed everything *)
(* it made.                                                                *)
THEOREM NothingLeftBehind == NamesMade => (Spec => []FailureLeavesNothing)
<1> SUFFICES ASSUME NamesMade PROVE Spec => []FailureLeavesNothing
  OBVIOUS
<1> QED
  BY NothingKept, Inductive, PTL
=============================================================================
