----------------------------- MODULE MsgDecoder -----------------------------
(***************************************************************************)
(* FudgeCodec_decodeMsg (codec_decode.c): who owns what while a message is *)
(* being built from its encoding, and what becomes of it when the decoding *)
(* fails at any depth.                                                     *)
(*                                                                         *)
(* The bytes are abstracted away: each loop of decodeMsgFields finds the   *)
(* end of its input, or another field, or something it cannot decode, and  *)
(* every allocation may fail.  FailsIn names the steps at which that is    *)
(* let happen.  Nothing is said about whether a decoding comes to an end,  *)
(* which depends on the bytes.                                             *)
(***************************************************************************)
EXTENDS ObjectHeap

CONSTANTS FailsIn   \* the steps that may fail, a subset of FallibleSteps

(* Making the name is two of them: for a field that holds its value itself *)
(* and for one that has a string, a block or a message to its name.        *)
FallibleSteps == {"create", "envelope", "header", "width", "payload",
                  "value_name", "object_name", "append"}

ASSUME MsgDecoderAssumption ==
    /\ FailsIn \subseteq FallibleSteps
    /\ Locals = {-d : d \in 0..Cardinality(Msgs)}

VARIABLES at,       \* where FudgeCodec_decodeMsg is
          result,   \* what its last call returned
          frames    \* its calls of decodeMsgFields, innermost first

vars == <<heapVars, at, result, frames>>

Init ==
    /\ HeapInit
    /\ at = "idle"
    /\ result = "none"
    /\ frames = <<>>

-----------------------------------------------------------------------------
(* The local message of decodeMsg, until the envelope has it.              *)
Message == <<0, 1, "data">>

(* The locals data and name of the innermost decodeField.  The submessage  *)
(* that decodeFieldFudgeMsg builds is kept in data from the start.         *)
Level   == -Len(frames)
Payload == <<Level, 1, "data">>
Name    == <<Level, 1, "name">>

Unused(S) == {o \in S : mem[o] = "unused"}
New(S)    == CHOOSE o \in Unused(S) : TRUE

(* Addresses run out in the model only: strings are kept for the names of  *)
(* the fields that are still being decoded.                                *)
NamesToCome == Cardinality({i \in DOMAIN frames : frames[i].named})
SpareStr == Cardinality(Unused(Strs)) > NamesToCome

Frame(m) == [msg |-> m, at |-> "next", fields |-> 0, named |-> FALSE, failed |-> FALSE]

Current == frames[1]

(* The innermost decodeMsgFields is at this step, and no destructor runs.  *)
At(step) ==
    /\ at = "fields" /\ stack = <<>>
    /\ Current.at = step

Goto(step)    == frames' = [frames EXCEPT ![1].at = step]
Fail(step)    == frames' = [frames EXCEPT ![1].at = step, ![1].failed = TRUE]

(* An object allocated, and its only reference stored in place p.          *)
Allocate(o, p) ==
    /\ mem' = [mem EXCEPT ![o] = "live"]
    /\ count' = IF o \in Counted THEN [count EXCEPT ![o] = 1] ELSE count
    /\ ptr' = [ptr EXCEPT ![p] = o]
    /\ raw' = IF o \in Blobs THEN raw \cup {p} ELSE raw
    /\ UNCHANGED stack

-----------------------------------------------------------------------------
(* FudgeCodec_decodeMsg reads the envelope header and creates a message.   *)
DecodeMsg ==
    /\ at = "idle" /\ stack = <<>>
    /\ \E c \in ClientVars : ptr[c] = Null
    /\ Unused(Msgs) # {} /\ Unused(Envs) # {}
    /\ \/ /\ Allocate(New(Msgs), Message)
          /\ at' = "envelope"
          /\ UNCHANGED result
       \/ /\ "create" \in FailsIn
          /\ result' = "failed"
          /\ UNCHANGED <<heapVars, at>>
    /\ UNCHANGED frames

(* FudgeMsgEnvelope_create retains the message for the envelope it returns *)
(* to the client.                                                          *)
WrapMessage(c) ==
    /\ at = "envelope"
    /\ ptr[c] = Null
    /\ LET e == New(Envs)
       IN  /\ mem' = [mem EXCEPT ![e] = "live"]
           /\ count' = [count EXCEPT ![e] = 1, ![ptr[Message]] = @ + 1]
           /\ ptr' = [ptr EXCEPT ![c] = e, ![<<e, 1, "data">>] = ptr[Message]]
    /\ at' = "handover"
    /\ UNCHANGED <<raw, stack, result, frames>>

WrapFails ==
    /\ at = "envelope"
    /\ "envelope" \in FailsIn
    /\ at' = "drop_message"
    /\ UNCHANGED <<heapVars, result, frames>>

(* "Envelope now has a message reference": decodeMsg gives up its own, and *)
(* goes on using the message to put the fields in.                         *)
HandOver_Kept ==
    /\ at = "handover"
    /\ ptr' = [ptr EXCEPT ![Message] = Null]
    /\ frames' = <<Frame(ptr[Message])>>
    /\ at' = "fields"
    /\ UNCHANGED <<mem, count, raw, stack, result>>

HandOver ==
    /\ at = "handover"
    /\ ReleaseObject(ptr[Message])
    /\ ptr' = [ptr EXCEPT ![Message] = Null]
    /\ frames' = <<Frame(ptr[Message])>>
    /\ at' = "fields"
    /\ UNCHANGED <<mem, raw, result>>

-----------------------------------------------------------------------------
(* One loop of decodeMsgFields.  The copy of the name that is part of the  *)
(* decoded header lives as long as the loop does.                          *)
DecodeFieldHeader ==
    /\ At("next")
    /\ Current.fields < MaxFields
    /\ \E named \in BOOLEAN :
          /\ named => SpareStr
          /\ frames' = [frames EXCEPT ![1].at = "width", ![1].named = named]
    /\ UNCHANGED <<heapVars, at, result>>

HeaderFails ==
    /\ At("next")
    /\ "header" \in FailsIn
    /\ Fail("return")
    /\ UNCHANGED <<heapVars, at, result>>

(* FudgeHeader_getFieldWidth, and the test that the field has that much.   *)
GetFieldWidth ==
    /\ At("width")
    /\ \/ Goto("payload")
       \/ "width" \in FailsIn /\ Fail("cleanup")
    /\ UNCHANGED <<heapVars, at, result>>

(* The decoder of the field's type.                                        *)
DecodeLeaf ==
    /\ At("payload")
    /\ \/ UNCHANGED heapVars
       \/ Unused(Blobs) # {} /\ Allocate(New(Blobs), Payload)
       \/ SpareStr /\ Allocate(New(Strs), Payload)
    /\ Goto("name")
    /\ UNCHANGED <<at, result>>

PayloadFails ==
    /\ At("payload")
    /\ "payload" \in FailsIn
    /\ Fail("cleanup")
    /\ UNCHANGED <<heapVars, at, result>>

(* decodeFieldFudgeMsg calls decodeMsgFields with a message of its own.    *)
EnterSubmessage ==
    /\ At("payload")
    /\ Unused(Msgs) # {}
    /\ Allocate(New(Msgs), Payload)
    /\ frames' = <<Frame(New(Msgs))>> \o frames
    /\ UNCHANGED <<at, result>>

(* The name is made into a string, if there is one.  Failing here leaves   *)
(* decodeField at once, with the payload still in data.                    *)
CreateName ==
    /\ At("name")
    /\ \/ /\ Current.named
          /\ Unused(Strs) # {}
          /\ Allocate(New(Strs), Name)
          /\ frames' = [frames EXCEPT ![1].at = "append", ![1].named = FALSE]
       \/ /\ ~ Current.named
          /\ Goto("append")
          /\ UNCHANGED heapVars
    /\ UNCHANGED <<at, result>>

NameFails ==
    /\ At("name")
    /\ Current.named
    /\ (IF ptr[Payload] = Null THEN "value_name" ELSE "object_name") \in FailsIn
    /\ Fail("cleanup")
    /\ ptr' = [ptr EXCEPT ![Payload] = Null]
    /\ raw' = raw \ {Payload}
    /\ UNCHANGED <<mem, count, stack, at, result>>

(* FudgeMsg_addFieldData retains the name and appends the field.           *)
DataSlot == <<Current.msg, Current.fields + 1, "data">>
NameSlot == <<Current.msg, Current.fields + 1, "name">>

AddField_NoRetain ==
    /\ At("append")
    /\ ptr' = [ptr EXCEPT ![DataSlot] = ptr[Payload], ![Payload] = Null,
                          ![NameSlot] = ptr[Name]]
    /\ raw' = IF Payload \in raw THEN (raw \ {Payload}) \cup {DataSlot} ELSE raw
    /\ frames' = [frames EXCEPT ![1].at = "cleanup", ![1].fields = @ + 1]
    /\ UNCHANGED <<mem, count, stack, at, result>>

AddField ==
    /\ At("append")
    /\ ptr' = [ptr EXCEPT ![DataSlot] = ptr[Payload], ![Payload] = Null,
                          ![NameSlot] = ptr[Name]]
    /\ raw' = IF Payload \in raw THEN (raw \ {Payload}) \cup {DataSlot} ELSE raw
    /\ count' = IF ptr[Name] = Null THEN count
                ELSE [count EXCEPT ![ptr[Name]] = @ + 1]
    /\ frames' = [frames EXCEPT ![1].at = "cleanup", ![1].fields = @ + 1]
    /\ UNCHANGED <<mem, stack, at, result>>

(* Or it fails, having destroyed the field: the payload is released, and   *)
(* the reference to the name that it took.                                 *)
AppendFails ==
    /\ At("append")
    /\ "append" \in FailsIn
    /\ IF ptr[Payload] = Null THEN UNCHANGED heapVars ELSE DestroyPointer(Payload)
    /\ Fail("cleanup")
    /\ UNCHANGED <<at, result>>

(* decodeField releases the name it created; decodeMsgFields destroys the  *)
(* header and starts the next loop, or returns.                            *)
Cleanup_KeepsName ==
    /\ At("cleanup")
    /\ ptr' = [ptr EXCEPT ![Name] = Null]
    /\ frames' = [frames EXCEPT ![1].at = IF Current.failed THEN "return" ELSE "next",
                                ![1].named = FALSE]
    /\ UNCHANGED <<mem, count, raw, stack, at, result>>

Cleanup ==
    /\ At("cleanup")
    /\ IF ptr[Name] = Null THEN UNCHANGED heapVars ELSE DestroyPointer(Name)
    /\ frames' = [frames EXCEPT ![1].at = IF Current.failed THEN "return" ELSE "next",
                                ![1].named = FALSE]
    /\ UNCHANGED <<at, result>>

EndOfFields ==
    /\ At("next")
    /\ Goto("return")
    /\ UNCHANGED <<heapVars, at, result>>

-----------------------------------------------------------------------------
Outermost == Len(frames) = 1

(* Back in decodeFieldFudgeMsg: the submessage is handed on, or released.  *)
Parent == <<Level + 1, 1, "data">>

LeaveSubmessage_Forgotten ==
    /\ At("return") /\ ~ Outermost
    /\ IF Current.failed
         THEN frames' = [Tail(frames) EXCEPT ![1].at = "cleanup", ![1].failed = TRUE]
         ELSE frames' = [Tail(frames) EXCEPT ![1].at = "name"]
    /\ ptr' = IF Current.failed THEN [ptr EXCEPT ![Parent] = Null] ELSE ptr
    /\ UNCHANGED <<mem, count, raw, stack, at, result>>

LeaveSubmessage ==
    /\ At("return") /\ ~ Outermost
    /\ IF Current.failed
         THEN /\ DestroyPointer(Parent)
              /\ frames' = [Tail(frames) EXCEPT ![1].at = "cleanup", ![1].failed = TRUE]
         ELSE /\ frames' = [Tail(frames) EXCEPT ![1].at = "name"]
              /\ UNCHANGED heapVars
    /\ UNCHANGED <<at, result>>

(* Back in decodeMsg: done, or on to release_envelope_and_fail.            *)
LeaveMessage ==
    /\ At("return") /\ Outermost
    /\ IF Current.failed
         THEN at' = "drop_envelope" /\ UNCHANGED <<result, frames>>
         ELSE at' = "idle" /\ result' = "OK" /\ frames' = <<>>
    /\ UNCHANGED heapVars

DropEnvelope ==
    /\ at = "drop_envelope" /\ stack = <<>>
    /\ \E c \in ClientVars :
          /\ ptr[c] \in Envs
          /\ ptr[<<ptr[c], 1, "data">>] = Current.msg
          /\ ReleaseObject(ptr[c])
          /\ ptr' = [ptr EXCEPT ![c] = Null]
    /\ at' = "drop_message"
    /\ UNCHANGED <<mem, raw, result, frames>>

(* release_message_and_fail: the label is reached with decodeMsg's own     *)
(* reference to the message if there is no envelope, and falling through   *)
(* with none, the message destroyed with the envelope, if there was one.   *)
DropMessage ==
    /\ at = "drop_message" /\ stack = <<>>
    /\ IF ptr[Message] # Null
         THEN /\ ReleaseObject(ptr[Message])
              /\ ptr' = [ptr EXCEPT ![Message] = Null]
              /\ result' = "failed"
         ELSE /\ result' = IF mem[Current.msg] = "live" THEN "failed" ELSE "undefined"
              /\ UNCHANGED <<count, ptr, stack>>
    /\ at' = "idle"
    /\ frames' = <<>>
    /\ UNCHANGED <<mem, raw>>

-----------------------------------------------------------------------------
(* The client releases the envelope it was given.                          *)
ReleaseEnvelope(c) ==
    /\ at = "idle" /\ stack = <<>>
    /\ ptr[c] # Null
    /\ ReleaseObject(ptr[c])
    /\ ptr' = [ptr EXCEPT ![c] = Null]
    /\ UNCHANGED <<mem, raw, at, result, frames>>

Destructor == (DestroyNextField \/ FreeObject) /\ UNCHANGED <<at, result, frames>>

Running ==
    \/ Destructor
    \/ \E c \in ClientVars : WrapMessage(c)
    \/ WrapFails \/ HandOver
    \/ DecodeFieldHeader \/ HeaderFails \/ GetFieldWidth
    \/ DecodeLeaf \/ PayloadFails \/ EnterSubmessage
    \/ CreateName \/ NameFails \/ AddField \/ AppendFails
    \/ Cleanup \/ EndOfFields \/ LeaveSubmessage \/ LeaveMessage
    \/ DropEnvelope \/ DropMessage

(* After a use of freed memory there is nothing more to say.               *)
Next ==
    /\ result # "undefined"
    /\ \/ DecodeMsg
       \/ \E c \in ClientVars : ReleaseEnvelope(c)
       \/ Running

Spec == Init /\ [][Next]_vars

-----------------------------------------------------------------------------
Decoding == at # "idle" \/ stack # <<>>

(* What a decoding hands to the client is owned by the client alone: the   *)
(* envelope, the message and everything in it have one reference each.     *)
DecodedCountIsOne ==
    ~ Decoding => \A o \in Counted : mem[o] = "live" => count[o] = 1

(* A decoding that fails leaves nothing behind, at whatever depth it did,  *)
(* and the client gets no envelope.                                        *)
FailureLeavesNothing ==
    ~ Decoding /\ result \in {"failed", "undefined"} /\ (\A c \in ClientVars : ptr[c] = Null)
    => \A o \in Objects : mem[o] # "live"

(* No reference is released that is not owned.                             *)
ReleasesOnlyOwned == result # "undefined"
=============================================================================
