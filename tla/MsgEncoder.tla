----------------------------- MODULE MsgEncoder -----------------------------
(***************************************************************************)
(* FudgeCodec_encodeMsg (codec_encode.c) and the width cache it relies on  *)
(* (FudgeMsgImpl.width in message.c).                                      *)
(*                                                                         *)
(* Encoding measures the message first, allocates exactly that much, and   *)
(* then writes.  Both halves ask for the length of every submessage, which *)
(* is cached in the message: the two agree only as long as the caches say  *)
(* what is really there.  Adding a field resets the cache of the message   *)
(* it is added to, and of no other.                                        *)
(*                                                                         *)
(* Contents are abstracted to sizes in bytes.  A message may be a field of *)
(* several others, or of one other several times.                          *)
(***************************************************************************)
EXTENDS FieldSizes, Sequences, SequencesExt

CONSTANTS
    Msgs,              \* messages: numbers, children before their parents
    Leaves,            \* the fields, other than submessages, a client adds
    MaxFields,         \* bound: fields per message
    EditsSubmessages,  \* whether the client adds to a message after having
                       \* encoded another one that contains it
    Null

(* A leaf has numbytes bytes of data, and is encoded element by element:   *)
(* of 2, 4 or 8 bytes each in the arrays of numbers, of one byte in every  *)
(* other type.  An array that was added as opaque bytes, or decoded, need  *)
(* not end with an element.  If a type is one of fixed width then that is  *)
(* registered, numbytes is what its encoder writes, and no length is       *)
(* written in front of it.  A submessage field has no size of its own:     *)
(* messages are mutable.                                                   *)
ASSUME MsgEncoderAssumption ==
    /\ Msgs \subseteq Nat
    /\ MaxFields \in Nat \ {0}
    /\ Leaves \subseteq [msg : {Null}, fixedwidth : Nat \cup {Variable}, numbytes : Nat,
                         element : {1, 2, 4, 8},
                         name : {NoName} \cup (0..255), ordinal : BOOLEAN]
    /\ \A f \in Leaves : f.fixedwidth # Variable => f.element = 1
    /\ EditsSubmessages \in BOOLEAN
    /\ Null \notin Msgs

Submessage(s) ==
    [msg |-> s, fixedwidth |-> Variable, numbytes |-> 0, element |-> 1,
     name |-> NoName, ordinal |-> FALSE]

VARIABLES fields,   \* the fields of each message, in order
          width,    \* the cached width of each message, -1 when not known
          frames,   \* the messages being written, innermost first
          room,     \* bytes allocated for the output
          written,  \* bytes written to it so far
          status    \* of the last call of FudgeCodec_encodeMsg

vars == <<fields, width, frames, room, written, status>>

EnvelopeBytes == 8

Init ==
    /\ fields = [m \in Msgs |-> <<>>]
    /\ width = [m \in Msgs |-> -1]
    /\ frames = <<>>
    /\ room = 0
    /\ written = 0
    /\ status = "none"

-----------------------------------------------------------------------------
(* Measuring.                                                              *)

(* FudgeCodec_getFieldDataLength.                                          *)
DataLength(f, length) ==
    IF f.fixedwidth >= 0 THEN f.fixedwidth
    ELSE IF f.msg # Null THEN length[f.msg] ELSE f.numbytes

(* FudgeCodec_getMessageLength: a message with a cached width is not       *)
(* looked into.                                                            *)
Cached(m) == width[m] >= 0

MessageLength[m \in Msgs] ==
    IF Cached(m)
      THEN width[m]
      ELSE Total([i \in DOMAIN fields[m] |->
                     FieldLength(fields[m][i], DataLength(fields[m][i], MessageLength))])

Children(m) == {f.msg : f \in {g \in ToSet(fields[m]) : g.msg # Null}}

(* The messages getMessageLength visits on its way, and in which it leaves *)
(* the width it has found.                                                 *)
Visited[m \in Msgs] ==
    IF Cached(m) THEN {} ELSE {m} \cup UNION {Visited[c] : c \in Children(m)}

Measured(m) == [n \in Msgs |-> IF n \in Visited[m] THEN MessageLength[n] ELSE width[n]]

-----------------------------------------------------------------------------
(* The client's part.                                                      *)

Contents[m \in Msgs] == {m} \cup UNION {Contents[c] : c \in Children(m)}

(* No message that contains m has been encoded since it was put together.  *)
Fresh(m) == \A p \in Msgs : m \in Contents[p] /\ p # m => width[p] = -1

AddField_KeepsWidth(m, f) ==
    /\ status # "running"
    /\ Len(fields[m]) < MaxFields
    /\ EditsSubmessages \/ Fresh(m)
    /\ fields' = [fields EXCEPT ![m] = Append(@, f)]
    /\ UNCHANGED <<width, frames, room, written, status>>

AddField(m, f) ==
    /\ status # "running"
    /\ Len(fields[m]) < MaxFields
    /\ EditsSubmessages \/ Fresh(m)
    /\ width' = [width EXCEPT ![m] = -1]
    /\ fields' = [fields EXCEPT ![m] = Append(@, f)]
    /\ UNCHANGED <<frames, room, written, status>>

(* FudgeMsg_addFieldData resets the width before anything can go wrong.    *)
AddFieldFails(m) ==
    /\ status # "running"
    /\ width' = [width EXCEPT ![m] = -1]
    /\ UNCHANGED <<fields, frames, room, written, status>>

-----------------------------------------------------------------------------
(* Writing.  A frame is a message whose fields are being written: how many *)
(* have been, where its first byte went, and the length announced for it.  *)
Frame(m, start, length) == [msg |-> m, done |-> 0, start |-> start, length |-> length]

Current == frames[1]
Exhausted(fr) == fr.done = Len(fields[fr.msg])
NextField == fields[Current.msg][Current.done + 1]

Stop(s) ==
    /\ status' = s
    /\ frames' = <<>>
    /\ room' = 0
    /\ written' = 0

(* FudgeCodec_encodeMsg up to the envelope header.                         *)
Encode(m) ==
    /\ status # "running"
    /\ width' = Measured(m)
    /\ \/ /\ status' = "running"
          /\ room' = MessageLength[m] + EnvelopeBytes
          /\ written' = EnvelopeBytes
          /\ frames' = <<Frame(m, EnvelopeBytes, MessageLength[m])>>
       \/ Stop("OUT_OF_MEMORY")
    /\ UNCHANGED fields

(* One more field of the current message is under way.                     *)
Advanced == [frames EXCEPT ![1].done = @ + 1]

(* The encoders of arrays announce all bytes, and write whole elements.    *)
WholeElements(f) == (f.numbytes \div f.element) * f.element

(* A leaf is written in one go: header, length, data.                      *)
WriteLeaf_SkipsEmpty ==
    /\ status = "running"
    /\ ~ Exhausted(Current)
    /\ NextField.msg = Null
    /\ written' = written + HeaderLength(NextField)
                   + (IF NextField.numbytes = 0 THEN 0
                      ELSE PrefixLength(NextField, NextField.numbytes))
                   + WholeElements(NextField)
    /\ frames' = Advanced
    /\ UNCHANGED <<fields, width, room, status>>

WriteLeaf ==
    /\ status = "running"
    /\ ~ Exhausted(Current)
    /\ NextField.msg = Null
    /\ written' = written + HeaderLength(NextField)
                          + PrefixLength(NextField, NextField.numbytes)
                          + WholeElements(NextField)
    /\ frames' = Advanced
    /\ UNCHANGED <<fields, width, room, status>>

(* FudgeCodec_encodeFieldFudgeMsg: the header and the length are written,  *)
(* and then whatever fields the submessage has.                            *)
EnterSubmessage(sub) ==
    /\ status = "running"
    /\ ~ Exhausted(Current)
    /\ sub = NextField.msg
    /\ width' = Measured(sub)
    /\ written' = written + HeaderLength(NextField)
                          + BytesToHoldSize(MessageLength[sub])
    /\ frames' = <<Frame(sub, written', MessageLength[sub])>> \o Advanced
    /\ UNCHANGED <<fields, room, status>>

LeaveSubmessage_TooDeep ==
    /\ Len(frames) > 2
    /\ Exhausted(Current)
    /\ frames' = Tail(frames)
    /\ UNCHANGED <<fields, width, room, written, status>>

LeaveSubmessage ==
    /\ Len(frames) > 1
    /\ Exhausted(Current)
    /\ frames' = Tail(frames)
    /\ UNCHANGED <<fields, width, room, written, status>>

(* FudgeCodec_populateFieldHeader has no memory for its copy of the name;  *)
(* the output is freed.                                                    *)
NameCopyFails ==
    /\ status = "running"
    /\ ~ Exhausted(Current)
    /\ NextField.name # NoName
    /\ Stop("OUT_OF_MEMORY")
    /\ UNCHANGED <<fields, width>>

(* "Ensure that all bytes have been written".                              *)
Finish ==
    /\ Len(frames) = 1
    /\ Exhausted(Current)
    /\ Stop(IF written = room THEN "OK" ELSE "OUT_OF_BYTES")
    /\ UNCHANGED <<fields, width>>

-----------------------------------------------------------------------------
Client ==
    \E m \in Msgs :
        \/ \E f \in Leaves : AddField(m, f)
        \/ \E s \in Msgs : s < m /\ AddField(m, Submessage(s))
        \/ AddFieldFails(m)
        \/ Encode(m)

Encoding ==
    \/ WriteLeaf
    \/ \E s \in Msgs : EnterSubmessage(s)
    \/ LeaveSubmessage
    \/ NameCopyFails
    \/ Finish

Next == Client \/ Encoding

Spec == Init /\ [][Next]_vars /\ WF_vars(Encoding)

-----------------------------------------------------------------------------
(* The size of a field, and with it of a message, by the fields alone: the *)
(* format as the Fudge encoding specification has it.                      *)
EncodedSize(f, length) ==
    LET size == IF f.msg = Null THEN f.numbytes ELSE length[f.msg]
    IN  2 + (IF f.ordinal THEN 2 ELSE 0)
          + (IF f.name = NoName THEN 0 ELSE 1 + f.name)
          + (IF f.fixedwidth # Variable THEN 0
             ELSE CASE size < 2^8 -> 1
                    [] size \in 2^8..(2^15 - 1) -> 2
                    [] OTHER -> 4)
          + size

EncodedLength[m \in Msgs] ==
    Total([i \in DOMAIN fields[m] |-> EncodedSize(fields[m][i], EncodedLength)])

(* A cached width is the length its message would be encoded to, even      *)
(* after an encoding that failed half way or an addition that did.         *)
CachedWidthExact ==
    \A m \in Msgs : width[m] >= 0 => width[m] = EncodedLength[m]

(* Nothing is written outside the block that was allocated.                *)
WritesFit == written <= room

(* Of the arrays in a message, and in those in it, none ends in part of an *)
(* element.                                                                *)
Whole(m) == \A c \in Contents[m] : \A f \in ToSet(fields[c]) : f.numbytes % f.element = 0

(* A decoder skips a submessage by the length in front of it: when its     *)
(* last field has been written it has exactly that many bytes, unless an   *)
(* array in it lacks part of an element; and the length is one that its    *)
(* own bytes can hold: one byte is read back unsigned, two and four signed *)
(* (header.c).                                                             *)
Holds(bytes) == CASE bytes = 1 -> 2^8 [] bytes = 2 -> 2^15 [] bytes = 4 -> 2^31

AnnouncedLengthExact ==
    /\ frames # <<>> /\ Exhausted(Current) =>
           (written - Current.start = Current.length <=> Whole(Current.msg))
    /\ \A i \in DOMAIN frames : frames[i].length < Holds(BytesToHoldSize(frames[i].length))

(* The message FudgeCodec_encodeMsg was called with.                       *)
Outermost == frames[Len(frames)].msg

(* The final check of FudgeCodec_encodeMsg (codec_encode.c:330) is exact:  *)
(* an encoding that runs to its end succeeds if no array in the message,   *)
(* at any depth, ends in part of an element, and otherwise fails, so that  *)
(* no buffer with bytes that were never written is handed out.             *)
AllBytesWritten ==
    [][frames # <<>> /\ status' \in {"OK", "OUT_OF_BYTES"}
         => (status' = "OK" <=> Whole(Outermost))]_vars

(* Every call of FudgeCodec_encodeMsg returns.                             *)
EncodeReturns == status = "running" ~> status # "running"
=============================================================================
