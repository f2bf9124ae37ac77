------------------------------ MODULE FudgeMsg ------------------------------
(***************************************************************************)
(* The life of messages, strings and envelopes in the hands of a client:   *)
(* the create, retain and release functions, and the FudgeMsg_addField     *)
(* family with its failures (message.c, envelope.c, string.c).             *)
(*                                                                         *)
(* An addition is not atomic.  The public function takes a reference to    *)
(* the payload, or copies it; FudgeMsg_addFieldData checks and retains the *)
(* name and appends; if that fails, both try to undo what they did.        *)
(***************************************************************************)
EXTENDS ObjectHeap

CONSTANTS
    Local,            \* the frame of FudgeMsg_addFieldData
    LongNames,        \* strings of 256 bytes or more
    InitialCapacity,  \* of a new message's field vector (16 in the code)
    GrowFailsIn,      \* kinds of call in which FieldVector_grow's realloc
                      \* may find no memory
    UserSubmessages   \* whether the client registered a type whose payload
                      \* is FUDGE_TYPE_PAYLOAD_SUBMSG

(* The public functions, by what they do with the payload.                 *)
Kinds == {"message", "string", "opaque", "primitive", "data", "usertype"}

ASSUME FudgeMsgAssumption ==
    /\ Locals = {Local}
    /\ LongNames \subseteq Strs
    /\ InitialCapacity \in Nat \ {0}
    /\ GrowFailsIn \subseteq Kinds
    /\ UserSubmessages \in BOOLEAN

(* Its local FudgeField field owns what the vector will own in the end.    *)
FieldData == <<Local, 1, "data">>
FieldName == <<Local, 1, "name">>

VARIABLES top,       \* FieldVector.top of each message
          capacity,  \* FieldVector.capacity of each message
          call       \* the addField call in progress

vars == <<heapVars, top, capacity, call>>

(* A call: where it is, which message it adds to, which public function it *)
(* came through, and that function's own copies of its arguments.          *)
Idle == [at |-> "idle", msg |-> Null, kind |-> Null, data |-> Null, name |-> Null]

Init ==
    /\ HeapInit
    /\ top = [m \in Msgs |-> 0]
    /\ capacity = [m \in Msgs |-> 0]
    /\ call = Idle

(* The client may call: no destructor and no addition is running.          *)
ClientTurn == stack = <<>> /\ call = Idle

-----------------------------------------------------------------------------
(* Objects come into being with one reference, the creator's.  A create    *)
(* for which there is no memory leaves the heap as it was.                 *)
NewObject(o, c) ==
    /\ ClientTurn
    /\ mem[o] = "unused"
    /\ mem' = [mem EXCEPT ![o] = "live"]
    /\ ptr[c] = Null

CreateMsg(m, c) ==
    /\ NewObject(m, c)
    /\ count' = [count EXCEPT ![m] = 1]
    /\ ptr' = [ptr EXCEPT ![c] = m]
    /\ capacity' = [capacity EXCEPT ![m] = InitialCapacity]
    /\ UNCHANGED <<raw, stack, top, call>>

CreateString(s, c) ==
    /\ NewObject(s, c)
    /\ count' = [count EXCEPT ![s] = 1]
    /\ ptr' = [ptr EXCEPT ![c] = s]
    /\ UNCHANGED <<raw, stack, top, capacity, call>>

(* FudgeMsgEnvelope_create retains the message it wraps.                   *)
CreateEnvelope_NoRetain(e, m, c) ==
    /\ Holds(m)
    /\ NewObject(e, c)
    /\ count' = [count EXCEPT ![e] = 1]
    /\ ptr' = [ptr EXCEPT ![c] = e, ![<<e, 1, "data">>] = m]
    /\ UNCHANGED <<raw, stack, top, capacity, call>>

CreateEnvelope(e, m, c) ==
    /\ Holds(m)
    /\ NewObject(e, c)
    /\ count' = [count EXCEPT ![e] = 1, ![m] = @ + 1]
    /\ ptr' = [ptr EXCEPT ![c] = e, ![<<e, 1, "data">>] = m]
    /\ UNCHANGED <<raw, stack, top, capacity, call>>

(* What the client can name: what it holds, and what the getters of those  *)
(* objects lend it (FudgeMsgEnvelope_getMessage, FudgeMsg_getFieldAtIndex).*)
Lent == {ptr[p] : p \in {q \in ObjectPlaces \ raw : Holds(q[1])}}

Visible(o) == Holds(o) \/ o \in Lent

(* FudgeMsg_retain, FudgeString_retain, FudgeMsgEnvelope_retain.           *)
Retain(o, c) ==
    /\ ClientTurn
    /\ Visible(o)
    /\ ptr[c] = Null
    /\ ptr' = [ptr EXCEPT ![c] = o]
    /\ count' = [count EXCEPT ![o] = @ + 1]
    /\ UNCHANGED <<mem, raw, stack, top, capacity, call>>

(* FudgeMsg_release and its likes; the destructor runs as DestroyNextField *)
(* and FreeObject.                                                         *)
Release(c) ==
    /\ ClientTurn
    /\ ptr[c] # Null
    /\ ReleaseObject(ptr[c])
    /\ ptr' = [ptr EXCEPT ![c] = Null]
    /\ UNCHANGED <<mem, raw, top, capacity, call>>

-----------------------------------------------------------------------------
(* Entering one of the addField functions.  The client adds a message only *)
(* to one numbered higher: it does not build a cycle, which no sequence of *)
(* releases would ever free.                                               *)
Begin(m, k, d, n) ==
    /\ ClientTurn
    /\ Holds(m)
    /\ top[m] < MaxFields
    /\ n # Null => Visible(n)
    /\ call' = [at |-> "check", msg |-> m, kind |-> k, data |-> d, name |-> n]
    /\ UNCHANGED <<top, capacity, stack>>

(* FudgeMsg_addFieldMsg and FudgeMsg_addFieldString retain the payload.    *)
AddCounted(m, d, n) ==
    /\ Begin(m, IF d \in Msgs THEN "message" ELSE "string", d, n)
    /\ Visible(d)
    /\ d \in Msgs => d < m
    /\ count' = [count EXCEPT ![d] = @ + 1]
    /\ ptr' = [ptr EXCEPT ![FieldData] = d]
    /\ UNCHANGED <<mem, raw>>

(* FudgeMsg_addFieldOpaque copies the payload to a block of its own.       *)
AddOpaque(m, b, n) ==
    /\ Begin(m, "opaque", b, n)
    /\ mem[b] = "unused"
    /\ mem' = [mem EXCEPT ![b] = "live"]
    /\ ptr' = [ptr EXCEPT ![FieldData] = b]
    /\ raw' = raw \cup {FieldData}
    /\ UNCHANGED count

(* The functions for integers, floats, dates and indicators keep the value *)
(* in the field itself.                                                    *)
AddPrimitive(m, n) ==
    /\ Begin(m, "primitive", Null, n)
    /\ UNCHANGED <<mem, count, ptr, raw>>

(* The client calls FudgeMsg_addFieldData itself, and so gives its own     *)
(* reference to a submessage away; with a user type the field is of a kind *)
(* FudgeField_destroy does not know.                                       *)
AddData(m, c, n) ==
    /\ ptr[c] \in Msgs
    /\ ptr[c] < m
    /\ \E k \in IF UserSubmessages THEN {"data", "usertype"} ELSE {"data"} :
          /\ Begin(m, k, ptr[c], n)
          /\ raw' = IF k = "usertype" THEN raw \cup {FieldData} ELSE raw
    /\ ptr' = [ptr EXCEPT ![c] = Null, ![FieldData] = ptr[c]]
    /\ UNCHANGED <<mem, count>>

-----------------------------------------------------------------------------
(* The call goes on only when a destructor it started has returned.        *)
At(step) == call.at = step /\ stack = <<>>

Goto(step) == call' = [call EXCEPT !.at = step]

(* FudgeMsg_addFieldData up to the append: a name that is too long is      *)
(* refused before anything is taken, any other is retained.                *)
CheckName_DestroysField ==
    /\ At("check")
    /\ IF call.name \in LongNames
         THEN Goto("destroy") /\ UNCHANGED <<count, ptr>>
         ELSE /\ Goto("append")
              /\ ptr' = [ptr EXCEPT ![FieldName] = call.name]
              /\ count' = IF call.name = Null THEN count
                          ELSE [count EXCEPT ![call.name] = @ + 1]
    /\ UNCHANGED <<mem, raw, stack, top, capacity>>

CheckName ==
    /\ At("check")
    /\ IF call.name \in LongNames
         THEN Goto("undo") /\ UNCHANGED <<count, ptr>>
         ELSE /\ Goto("append")
              /\ ptr' = [ptr EXCEPT ![FieldName] = call.name]
              /\ count' = IF call.name = Null THEN count
                          ELSE [count EXCEPT ![call.name] = @ + 1]
    /\ UNCHANGED <<mem, raw, stack, top, capacity>>

(* FieldVector_grow: the capacity after room for size fields was asked for.*)
Grown(cap, size) ==
    IF size < cap THEN cap
    ELSE IF 2 * cap <= size THEN size + 1 ELSE 2 * cap

NewTop == top[call.msg] + 1

(* FieldVector_append asks for room when the new top reaches the capacity. *)
NeedsGrow_Late == NewTop > capacity[call.msg] + 1
NeedsGrow == NewTop >= capacity[call.msg]

NewCapacity ==
    IF NeedsGrow THEN Grown(capacity[call.msg], NewTop + 1)
                 ELSE capacity[call.msg]

(* The field moves from the local variable into the vector, its pointers   *)
(* with it.                                                                *)
DataSlot == <<call.msg, NewTop, "data">>
NameSlot == <<call.msg, NewTop, "name">>

AppendField_TopKept ==
    /\ At("append")
    /\ capacity' = [capacity EXCEPT ![call.msg] = NewCapacity]
    /\ ptr' = [ptr EXCEPT ![DataSlot] = ptr[FieldData], ![FieldData] = Null,
                          ![NameSlot] = ptr[FieldName], ![FieldName] = Null]
    /\ raw' = IF FieldData \in raw THEN (raw \ {FieldData}) \cup {DataSlot} ELSE raw
    /\ call' = Idle
    /\ UNCHANGED <<mem, count, stack, top>>

AppendField ==
    /\ At("append")
    /\ capacity' = [capacity EXCEPT ![call.msg] = NewCapacity]
    /\ top' = [top EXCEPT ![call.msg] = NewTop]
    /\ ptr' = [ptr EXCEPT ![DataSlot] = ptr[FieldData], ![FieldData] = Null,
                          ![NameSlot] = ptr[FieldName], ![FieldName] = Null]
    /\ raw' = IF FieldData \in raw THEN (raw \ {FieldData}) \cup {DataSlot} ELSE raw
    /\ call' = Idle
    /\ UNCHANGED <<mem, count, stack>>

AppendFails ==
    /\ At("append")
    /\ NeedsGrow
    /\ call.kind \in GrowFailsIn
    /\ Goto("destroy")
    /\ UNCHANGED <<heapVars, top, capacity>>

(* FudgeField_destroy ( &field ): payload first, then name.                *)
DestroyField ==
    /\ At("destroy")
    /\ \/ /\ ptr[FieldData] # Null
          /\ DestroyPointer(FieldData)
          /\ UNCHANGED call
       \/ /\ ptr[FieldData] = Null /\ ptr[FieldName] # Null
          /\ DestroyPointer(FieldName)
          /\ UNCHANGED call
       \/ /\ ptr[FieldData] = Null /\ ptr[FieldName] = Null
          /\ Goto("undo")
          /\ UNCHANGED heapVars
    /\ UNCHANGED <<top, capacity>>

(* FudgeMsg_addFieldData has failed, for whatever reason, and the public   *)
(* function gives back what it took: the reference to the payload, ...     *)
UndoRetain_Forgotten ==
    /\ At("undo")
    /\ call.kind \in {"message", "string"}
    /\ ptr' = [ptr EXCEPT ![FieldData] = Null]
    /\ call' = Idle
    /\ UNCHANGED <<mem, count, raw, stack, top, capacity>>

UndoRetain ==
    /\ At("undo")
    /\ call.kind \in {"message", "string"}
    /\ ReleaseObject(call.data)
    /\ ptr' = [ptr EXCEPT ![FieldData] = Null]
    /\ call' = Idle
    /\ UNCHANGED <<mem, raw, top, capacity>>

(* ... or the block it allocated; ...                                      *)
UndoCopy ==
    /\ At("undo")
    /\ call.kind = "opaque"
    /\ mem' = [mem EXCEPT ![call.data] = "freed"]
    /\ ptr' = [ptr EXCEPT ![FieldData] = Null]
    /\ raw' = raw \ {FieldData}
    /\ call' = Idle
    /\ UNCHANGED <<count, stack, top, capacity>>

(* ... or nothing: the payload is where FudgeMsg_addFieldData left it, the *)
(* client's again unless the field had been destroyed.                     *)
UndoNothing ==
    /\ At("undo")
    /\ call.kind \in {"primitive", "data", "usertype"}
    /\ IF ptr[FieldData] = Null
         THEN UNCHANGED ptr
         ELSE \E c \in FreeVars :
                ptr' = [ptr EXCEPT ![c] = ptr[FieldData], ![FieldData] = Null]
    /\ raw' = raw \ {FieldData}
    /\ call' = Idle
    /\ UNCHANGED <<mem, count, stack, top, capacity>>

-----------------------------------------------------------------------------
Names == Strs \cup {Null}

AddField ==
    \E m \in Msgs, n \in Names :
        \/ \E d \in Msgs \cup Strs : AddCounted(m, d, n)
        \/ \E b \in Blobs : AddOpaque(m, b, n)
        \/ AddPrimitive(m, n)
        \/ \E c \in ClientVars : AddData(m, c, n)

Create ==
    \E c \in ClientVars :
        \/ \E m \in Msgs : CreateMsg(m, c)
        \/ \E s \in Strs : CreateString(s, c)
        \/ \E e \in Envs, m \in Msgs : CreateEnvelope(e, m, c)

(* The steps of a call once it has been made.                              *)
Destructor == (DestroyNextField \/ FreeObject) /\ UNCHANGED <<top, capacity, call>>

Running ==
    \/ Destructor
    \/ CheckName \/ AppendField \/ AppendFails \/ DestroyField
    \/ UndoRetain \/ UndoCopy \/ UndoNothing

Next ==
    \/ Create
    \/ \E o \in Counted, c \in ClientVars : Retain(o, c)
    \/ \E c \in ClientVars : Release(c)
    \/ AddField
    \/ Running

Spec == Init /\ [][Next]_vars /\ WF_vars(Running)

-----------------------------------------------------------------------------
(* Every variable has its type: no count goes below zero, and a vector     *)
(* never has more fields than it was given.                                *)
TypeOK ==
    /\ HeapTypeOK
    /\ top \in [Msgs -> 0..MaxFields]
    /\ capacity \in [Msgs -> Nat]
    /\ call \in [at : {"idle", "check", "append", "destroy", "undo"},
                 msg : Msgs \cup {Null}, kind : Kinds \cup {Null},
                 data : Objects \cup {Null}, name : Strs \cup {Null}]

(* FieldVector_append writes only inside the vector: FieldVector_grow,     *)
(* whose own test is a different one, has always made room by then.        *)
VectorHasRoom == \A m \in Msgs : mem[m] = "live" => top[m] <= capacity[m]

(* A field, once added, keeps its payload and its name until its message   *)
(* is destroyed: neither later additions nor failed ones disturb it.       *)
FieldsKept ==
    [][\A p \in ObjectPlaces :
          ptr[p] # Null /\ (\A i \in DOMAIN stack : stack[i] # p[1])
          => ptr'[p] = ptr[p]]_vars

(* Every call comes to an end, however deep the destruction it sets off.   *)
CallsReturn == ~ ClientTurn ~> ClientTurn
=============================================================================
