--------------------------- MODULE FudgeMsgProofs ---------------------------
(***************************************************************************)
(* The safety of message building, for any number of messages, strings,    *)
(* blocks, envelopes and client variables, any capacity and any depth of   *)
(* nesting.                                                                *)
(*                                                                         *)
(* IInv adds to the heap's own invariant what the locals of a call in      *)
(* progress hold. It is needed because an addition takes its references    *)
(* before it knows whether it succeeds: which of them are still to be      *)
(* given back, and by whom, is known only from the kind of payload and the *)
(* step the call has reached.                                              *)
(***************************************************************************)
EXTENDS FudgeMsg, ObjectHeapProofs

(* A client with no type of its own that holds a submessage, and memory    *)
(* that runs out only where the caller's clean-up expects it: what is      *)
(* asked of the rest by FudgeMsgUserType.cfg and FudgeMsgGrowFails.cfg     *)
(* does not hold.                                                          *)
Careful ==
    /\ ~ UserSubmessages
    /\ GrowFailsIn \subseteq {"primitive", "data"}

(* The types of what is not the heap.                                      *)
RestTypeOK ==
    /\ top \in [Msgs -> 0..MaxFields]
    /\ capacity \in [Msgs -> Nat]
    /\ call \in [at : {"idle", "check", "append", "destroy", "undo"},
                 msg : Msgs \cup {Null}, kind : Kinds \cup {Null},
                 data : Objects \cup {Null}, name : Strs \cup {Null}]

(* The slots above the top of a vector are empty.                          *)
SlotsOK ==
    \A m \in Msgs, i \in 1..MaxFields, k \in {"data", "name"} :
        i > top[m] => ptr[<<m, i, k>>] = Null

(* A vector has room for its fields; an unused address has none.           *)
RoomOK ==
    \A m \in Msgs : /\ mem[m] = "live" => top[m] <= capacity[m]
                    /\ mem[m] = "unused" => top[m] = 0

(* What field.data of the call in progress holds, for each kind of         *)
(* payload: after FudgeField_destroy has begun nothing but a "data"        *)
(* payload may be there, as the caller would release any other again.      *)
PayloadOK ==
    /\ \/ /\ call.kind \in {"message", "string"} /\ call.data \in Msgs \cup Strs
          /\ ptr[FieldData] = call.data /\ call.at # "destroy"
       \/ /\ call.kind = "opaque" /\ call.data \in Blobs
          /\ ptr[FieldData] = call.data /\ call.at # "destroy"
       \/ call.kind = "primitive" /\ ptr[FieldData] = Null
       \/ call.kind = "data" /\ ptr[FieldData] \in Msgs \cup {Null}
    /\ ptr[FieldData] \in Msgs => ptr[FieldData] < call.msg

(* The name has not been retained yet, but someone holds it.               *)
NameHeld == stack = <<>> /\ (call.name # Null => \E p \in Places : ptr[p] = call.name)

(* A call in progress holds its message, has room for one more field, and  *)
(* keeps in its locals exactly the references it took.                     *)
Adding ==
    /\ call.msg \in Msgs /\ Holds(call.msg) /\ top[call.msg] < MaxFields
    /\ PayloadOK
    /\ ptr[FieldName] \in Names
    /\ ptr[FieldName] # Null => call.at \in {"append", "destroy"}
    /\ call.at = "check" => NameHeld

(* No call leaves anything in the locals.                                  *)
CallOK ==
    IF call.at = "idle" THEN call = Idle /\ ptr[FieldData] = Null /\ ptr[FieldName] = Null
    ELSE Adding

(* The inductive invariant.                                                *)
IInv == HeapOK /\ Ordered /\ RestTypeOK /\ SlotsOK /\ RoomOK /\ CallOK

-----------------------------------------------------------------------------
(* The two locals of a call, and the slots of a message, are places.       *)
LEMMA LocalsApart ==
    /\ FieldData \in LocalPlaces /\ FieldName \in LocalPlaces /\ FieldData # FieldName
    /\ FieldData \notin ClientVars /\ FieldName \notin ClientVars
    /\ FieldData \notin ObjectPlaces /\ FieldName \notin ObjectPlaces
    /\ FieldData \in Places /\ FieldName \in Places
<1>1. FieldData \in LocalPlaces /\ FieldName \in LocalPlaces /\ FieldData # FieldName
  BY FudgeMsgAssumption DEF FieldData, FieldName, LocalPlaces
<1> QED
  BY <1>1, PlacesApart

LEMMA SlotPlaces ==
    /\ \A p \in FieldPlaces : \E m \in Msgs, i \in 1..MaxFields, k \in {"data", "name"} :
          p = <<m, i, k>>
    /\ \A m \in Msgs, i \in 1..MaxFields, k \in {"data", "name"} :
          <<m, i, k>> \in FieldPlaces /\ <<m, i, k>> \in ObjectPlaces
BY DEF FieldPlaces, ObjectPlaces

(* The program begins so.                                                  *)
LEMMA InitIInv == Init => IInv
<1> SUFFICES ASSUME Init PROVE IInv
  OBVIOUS
<1> USE PlacesApart, LocalsApart, KindsApart
<1>1. HeapOK
  BY InitKeeps DEF Init
<1>2. \A p \in Places : ptr[p] = Null
  BY DEF Init, HeapInit
<1>3. Ordered
  BY <1>2 DEF Ordered, ObjectPlaces
<1>4. RestTypeOK
  BY ObjectHeapAssumption DEF Init, Idle, RestTypeOK
<1>5. SlotsOK /\ RoomOK
  BY <1>2, SlotPlaces DEF SlotsOK, RoomOK, Init, HeapInit
<1>6. CallOK
  BY <1>2 DEF CallOK, Init, Idle
<1> QED
  BY <1>1, <1>3, <1>4, <1>5, <1>6 DEF IInv

(* What a step may do that is not about the fields of messages.            *)
LEMMA FieldsAsBefore ==
    ASSUME Ordered, SlotsOK, RoomOK,
           \A p \in ObjectPlaces : ptr'[p] = ptr[p] \/ ptr'[p] = Null,
           \A m \in Msgs : mem'[m] = mem[m] \/ mem'[m] = "freed",
           UNCHANGED <<top, capacity>>
    PROVE  Ordered' /\ SlotsOK' /\ RoomOK'
<1>1. Ordered'
  BY KindsApart DEF Ordered, ObjectPlaces
<1>2. SlotsOK'
  BY SlotPlaces DEF SlotsOK
<1>3. RoomOK'
  BY DEF RoomOK
<1> QED
  BY <1>1, <1>2, <1>3

(* The client acts between calls only.                                     *)
LEMMA IdleAsBefore ==
    ASSUME CallOK, call = Idle, call' = Idle, ptr'[FieldData] = Null, ptr'[FieldName] = Null
    PROVE  CallOK'
BY DEF CallOK, Idle

LEMMA ClientHas ==
    ASSUME IInv, ClientTurn
    PROVE  call = Idle /\ stack = <<>> /\ ptr[FieldData] = Null /\ ptr[FieldName] = Null
BY DEF IInv, ClientTurn, CallOK, Idle

(* Now each operation of the client, in the order of the module.           *)
LEMMA CreateMsgIInv ==
    ASSUME IInv, NEW m \in Msgs, NEW c \in ClientVars, CreateMsg(m, c)
    PROVE  IInv'
<1> USE PlacesApart, LocalsApart, KindsApart
<1>1. /\ HeapOK /\ m \in Objects /\ m \in Counted /\ m \notin Blobs
      /\ c \in ClientVars \cup LocalPlaces
  BY DEF IInv
<1>2. /\ mem[m] = "unused" /\ ptr[c] = Null /\ mem' = [mem EXCEPT ![m] = "live"]
      /\ count' = [count EXCEPT ![m] = 1] /\ Changed(ptr, c, m, ptr')
      /\ UNCHANGED <<raw, stack>>
  BY DEF CreateMsg, NewObject, Changed
<1>3. HeapOK'
  BY <1>1, <1>2, NewKeeps
<1>4. /\ ptr \in [Places -> Addresses] /\ ptr' = [ptr EXCEPT ![c] = m]
      /\ mem \in [Objects -> {"unused", "live", "freed"}]
  BY <1>2 DEF Changed, IInv, HeapOK, HeapTypeOK, Addresses
<1>5. \A p \in ObjectPlaces : ptr'[p] = ptr[p]
  BY <1>4
<1>6. Ordered' /\ SlotsOK'
  BY <1>5, SlotPlaces DEF Ordered, ObjectPlaces, SlotsOK, IInv, CreateMsg
<1>7. RestTypeOK' /\ RoomOK'
  BY <1>2, <1>4, FudgeMsgAssumption DEF IInv, RestTypeOK, RoomOK, CreateMsg
<1>8. call = Idle /\ call' = Idle /\ ptr'[FieldData] = Null /\ ptr'[FieldName] = Null
  BY <1>4, ClientHas DEF CreateMsg, NewObject
<1>9. CallOK'
  BY <1>8, IdleAsBefore DEF IInv
<1> QED
  BY <1>3, <1>6, <1>7, <1>9 DEF IInv

LEMMA CreateStringIInv ==
    ASSUME IInv, NEW s \in Strs, NEW c \in ClientVars, CreateString(s, c)
    PROVE  IInv'
<1> USE PlacesApart, LocalsApart, KindsApart
<1>1. /\ HeapOK /\ s \in Objects /\ s \in Counted /\ s \notin Blobs /\ s \notin Msgs
      /\ c \in ClientVars \cup LocalPlaces
  BY DEF IInv
<1>2. /\ mem[s] = "unused" /\ ptr[c] = Null /\ mem' = [mem EXCEPT ![s] = "live"]
      /\ count' = [count EXCEPT ![s] = 1] /\ Changed(ptr, c, s, ptr')
      /\ UNCHANGED <<raw, stack>>
  BY DEF CreateString, NewObject, Changed
<1>3. HeapOK'
  BY <1>1, <1>2, NewKeeps
<1>4. /\ ptr \in [Places -> Addresses] /\ ptr' = [ptr EXCEPT ![c] = s]
      /\ mem \in [Objects -> {"unused", "live", "freed"}]
  BY <1>2 DEF Changed, IInv, HeapOK, HeapTypeOK, Addresses
<1>5. /\ \A p \in ObjectPlaces : ptr'[p] = ptr[p]
      /\ \A m \in Msgs : mem'[m] = mem[m]
  BY <1>1, <1>2, <1>4
<1>6. Ordered' /\ SlotsOK' /\ RoomOK'
  BY <1>5, FieldsAsBefore DEF IInv, CreateString
<1>7. RestTypeOK'
  BY DEF IInv, RestTypeOK, CreateString
<1>8. call = Idle /\ call' = Idle /\ ptr'[FieldData] = Null /\ ptr'[FieldName] = Null
  BY <1>4, ClientHas DEF CreateString, NewObject
<1>9. CallOK'
  BY <1>8, IdleAsBefore DEF IInv
<1> QED
  BY <1>3, <1>6, <1>7, <1>9 DEF IInv

LEMMA CreateEnvelopeIInv ==
    ASSUME IInv, NEW e \in Envs, NEW m \in Msgs, NEW c \in ClientVars, CreateEnvelope(e, m, c)
    PROVE  IInv'
<1> USE PlacesApart, LocalsApart, KindsApart
<1> DEFINE x == <<e, 1, "data">>
<1>1. PICK q \in Places : ptr[q] = m
  BY DEF CreateEnvelope, Holds
<1>2. PICK one : Changed(ptr, c, e, one)
  BY DEF Changed
<1>3. /\ mem[e] = "unused" /\ ptr[c] = Null /\ mem' = [mem EXCEPT ![e] = "live"]
      /\ count' = [count EXCEPT ![e] = 1, ![m] = @ + 1]
      /\ Changed(one, x, m, ptr')
      /\ UNCHANGED <<raw, stack>>
  BY <1>2 DEF CreateEnvelope, NewObject, Changed
<1>4. HeapOK /\ HeapOK'
  BY <1>1, <1>2, <1>3, WrapKeeps DEF IInv
<1>5. /\ ptr \in [Places -> Addresses] /\ ptr' = [ptr EXCEPT ![c] = e, ![x] = m]
      /\ mem \in [Objects -> {"unused", "live", "freed"}]
  BY DEF IInv, HeapOK, HeapTypeOK, Addresses, CreateEnvelope
<1>6. /\ x \notin FieldPlaces /\ x \in ObjectPlaces /\ x # c /\ e \in Objects /\ e \notin Msgs
      /\ m \notin Envs
  BY DEF FieldPlaces, ObjectPlaces, EnvPlaces
<1>7. /\ \A p \in ObjectPlaces : ptr'[p] = IF p = x THEN m ELSE ptr[p]
      /\ \A p \in FieldPlaces : ptr'[p] = ptr[p]
      /\ \A r \in Msgs : mem'[r] = mem[r]
  <2> HIDE DEF x
  <2> QED
    BY <1>3, <1>5, <1>6 DEF ObjectPlaces
<1>8. Ordered'
  <2> HIDE DEF x
  <2> QED
    BY <1>6, <1>7 DEF Ordered, IInv
<1>9. SlotsOK'
  <2>1. top' = top /\ SlotsOK
    BY DEF CreateEnvelope, IInv
  <2> SUFFICES ASSUME NEW r \in Msgs, NEW i \in 1..MaxFields, NEW k \in {"data", "name"},
                      i > top[r]
               PROVE  ptr'[<<r, i, k>>] = Null
    BY <2>1 DEF SlotsOK
  <2>2. <<r, i, k>> \in FieldPlaces
    BY SlotPlaces
  <2>3. ptr[<<r, i, k>>] = Null
    BY <2>1 DEF SlotsOK
  <2>4. ptr'[<<r, i, k>>] = ptr[<<r, i, k>>]
    BY <1>7, <2>2
  <2> QED
    BY <2>3, <2>4
<1>10. RoomOK' /\ RestTypeOK'
  BY <1>7 DEF RoomOK, RestTypeOK, IInv, CreateEnvelope
<1>11. call = Idle /\ call' = Idle /\ ptr'[FieldData] = Null /\ ptr'[FieldName] = Null
  <2>1. FieldData # x /\ FieldName # x /\ FieldData # c /\ FieldName # c
    BY <1>6
  <2> HIDE DEF x
  <2> QED
    BY <1>5, <2>1, ClientHas DEF CreateEnvelope, NewObject
<1>12. CallOK'
  BY <1>11, IdleAsBefore DEF IInv
<1> QED
  BY <1>4, <1>8, <1>9, <1>10, <1>12 DEF IInv

(* What the client can see is held.                                        *)
LEMMA VisibleIsHeld ==
    ASSUME NEW o, Visible(o)
    PROVE  \E q \in ClientVars \cup ObjectPlaces : ptr[q] = o
BY DEF Visible, Holds, Lent

LEMMA RetainIInv ==
    ASSUME IInv, NEW o \in Counted, NEW c \in ClientVars, Retain(o, c)
    PROVE  IInv'
<1> USE PlacesApart, LocalsApart, KindsApart
<1>1. PICK q \in Places : ptr[q] = o
  BY VisibleIsHeld DEF Retain
<1>2. /\ ptr[c] = Null /\ Changed(ptr, c, o, ptr') /\ c \in Places
      /\ c \in ObjectPlaces => mem[c[1]] = "live"
      /\ count' = [count EXCEPT ![o] = count[o] + 1]
      /\ UNCHANGED <<mem, raw, stack>>
  BY DEF Retain, Changed
<1>3. HeapOK /\ HeapOK'
  BY <1>1, <1>2, TakeKeeps DEF IInv
<1>4. ptr \in [Places -> Addresses] /\ ptr' = [ptr EXCEPT ![c] = o]
  BY DEF IInv, HeapOK, HeapTypeOK, Addresses, Retain
<1>5. (\A p \in ObjectPlaces : ptr'[p] = ptr[p]) /\ \A m \in Msgs : mem'[m] = mem[m]
  BY <1>2, <1>4
<1>6. Ordered' /\ SlotsOK' /\ RoomOK'
  BY <1>5, FieldsAsBefore DEF IInv, Retain
<1>7. RestTypeOK'
  BY DEF IInv, RestTypeOK, Retain
<1>8. call = Idle /\ call' = Idle /\ ptr'[FieldData] = Null /\ ptr'[FieldName] = Null
  BY <1>4, ClientHas DEF Retain
<1>9. CallOK'
  BY <1>8, IdleAsBefore DEF IInv
<1> QED
  BY <1>3, <1>6, <1>7, <1>9 DEF IInv

LEMMA ReleaseIInv ==
    ASSUME IInv, NEW c \in ClientVars, Release(c)
    PROVE  IInv'
<1> USE PlacesApart, LocalsApart, KindsApart
<1>1. /\ ptr[c] # Null /\ ReleaseObject(ptr[c]) /\ Changed(ptr, c, Null, ptr') /\ c \in Places
      /\ UNCHANGED <<mem, raw>>
  BY DEF Release, Changed
<1>2. ptr \in [Places -> Addresses] /\ ptr' = [ptr EXCEPT ![c] = Null]
  BY DEF IInv, HeapOK, HeapTypeOK, Addresses, Release
<1>3. ptr[c] \in Counted
  BY <1>1, <1>2 DEF IInv, HeapOK, RawOK, Addresses
<1>4. HeapOK /\ HeapOK'
  BY <1>1, <1>3, ReleaseKeeps DEF IInv
<1>5. (\A p \in ObjectPlaces : ptr'[p] = ptr[p]) /\ \A m \in Msgs : mem'[m] = mem[m]
  BY <1>1, <1>2
<1>6. Ordered' /\ SlotsOK' /\ RoomOK'
  BY <1>5, FieldsAsBefore DEF IInv, Release
<1>7. RestTypeOK'
  BY DEF IInv, RestTypeOK, Release
<1>8. call = Idle /\ call' = Idle /\ ptr'[FieldData] = Null /\ ptr'[FieldName] = Null
  BY <1>2, ClientHas DEF Release
<1>9. CallOK'
  BY <1>8, IdleAsBefore DEF IInv
<1> QED
  BY <1>4, <1>6, <1>7, <1>9 DEF IInv

-----------------------------------------------------------------------------
(* What all the beginnings of an addition have in common.                  *)
LEMMA Begun ==
    ASSUME IInv, NEW m \in Msgs, NEW k \in Kinds, NEW d \in Objects \cup {Null},
           NEW n \in Names, Begin(m, k, d, n)
    PROVE  /\ ClientTurn /\ Holds(m) /\ top[m] < MaxFields
           /\ UNCHANGED <<top, capacity, stack>>
           /\ call'.at = "check" /\ call'.msg = m /\ call'.kind = k
           /\ call'.data = d /\ call'.name = n
           /\ RestTypeOK'
           /\ n # Null => \E q \in ClientVars \cup ObjectPlaces : ptr[q] = n
<1>1. n # Null => \E q \in ClientVars \cup ObjectPlaces : ptr[q] = n
  BY VisibleIsHeld DEF Begin
<1>2. RestTypeOK'
  BY DEF Begin, IInv, RestTypeOK, Names
<1> QED
  BY <1>1, <1>2 DEF Begin

(* Additions begin: a message or string is retained, a block is copied, an *)
(* integer needs nothing, and what is given to FudgeMsg_addFieldData is    *)
(* moved.                                                                  *)
LEMMA AddCountedIInv ==
    ASSUME IInv, NEW m \in Msgs, NEW d \in Msgs \cup Strs, NEW n \in Names, AddCounted(m, d, n)
    PROVE  IInv'
<1> USE PlacesApart, LocalsApart, KindsApart
<1> DEFINE k == IF d \in Msgs THEN "message" ELSE "string"
<1>1. Begin(m, k, d, n) /\ k \in Kinds /\ d \in Counted /\ d \in Objects \cup {Null}
  BY DEF AddCounted, Kinds
<1>a. k \in {"message", "string"}
  OBVIOUS
<1> HIDE DEF k
<1>2. /\ ClientTurn /\ Holds(m) /\ top[m] < MaxFields
      /\ UNCHANGED <<top, capacity, stack>>
      /\ call'.at = "check" /\ call'.msg = m /\ call'.kind = k
      /\ call'.data = d /\ call'.name = n
      /\ RestTypeOK'
      /\ n # Null => \E q \in ClientVars \cup ObjectPlaces : ptr[q] = n
  BY <1>1, Begun
<1>3. stack = <<>> /\ ptr[FieldData] = Null /\ ptr[FieldName] = Null
  BY <1>2, ClientHas
<1>4. PICK q \in Places : ptr[q] = d
  BY VisibleIsHeld DEF AddCounted
<1>5. /\ Changed(ptr, FieldData, d, ptr') /\ count' = [count EXCEPT ![d] = count[d] + 1]
      /\ FieldData \in ObjectPlaces => mem[FieldData[1]] = "live"
      /\ UNCHANGED <<mem, raw, stack>>
  BY <1>2 DEF AddCounted, Changed
<1>6. HeapOK /\ HeapOK'
  BY <1>1, <1>3, <1>4, <1>5, TakeKeeps DEF IInv
<1>7. ptr \in [Places -> Addresses] /\ ptr' = [ptr EXCEPT ![FieldData] = d]
  BY DEF IInv, HeapOK, HeapTypeOK, Addresses, AddCounted
<1>8. /\ \A p \in ObjectPlaces \cup ClientVars : ptr'[p] = ptr[p]
      /\ \A r \in Msgs : mem'[r] = mem[r]
  BY <1>5, <1>7
<1>9. Ordered' /\ SlotsOK' /\ RoomOK'
  BY <1>2, <1>8, FieldsAsBefore DEF IInv
<1>10. PayloadOK'
  BY <1>2, <1>a, <1>7 DEF PayloadOK, AddCounted
<1>11. NameHeld' /\ Holds(m)'
  BY <1>2, <1>3, <1>8 DEF NameHeld, Holds
<1>12. CallOK'
  BY <1>2, <1>3, <1>7, <1>10, <1>11 DEF CallOK, Adding, Names
<1> QED
  BY <1>2, <1>6, <1>9, <1>12 DEF IInv

LEMMA AddOpaqueIInv ==
    ASSUME IInv, NEW m \in Msgs, NEW b \in Blobs, NEW n \in Names, AddOpaque(m, b, n)
    PROVE  IInv'
<1> USE PlacesApart, LocalsApart, KindsApart
<1>1. /\ Begin(m, "opaque", b, n) /\ "opaque" \in Kinds /\ b \in Objects /\ b \in Objects \cup {Null}
      /\ b \notin Counted
  BY DEF AddOpaque, Kinds
<1>2. /\ ClientTurn /\ Holds(m) /\ top[m] < MaxFields
      /\ UNCHANGED <<top, capacity, stack>>
      /\ call'.at = "check" /\ call'.msg = m /\ call'.kind = "opaque"
      /\ call'.data = b /\ call'.name = n
      /\ RestTypeOK'
      /\ n # Null => \E q \in ClientVars \cup ObjectPlaces : ptr[q] = n
  BY <1>1, Begun
<1>3. stack = <<>> /\ ptr[FieldData] = Null /\ ptr[FieldName] = Null
  BY <1>2, ClientHas
<1>4. /\ mem[b] = "unused" /\ mem' = [mem EXCEPT ![b] = "live"]
      /\ Changed(ptr, FieldData, b, ptr') /\ raw' = raw \cup {FieldData}
      /\ count' = count /\ stack' = stack
      /\ FieldData \in ClientVars \cup LocalPlaces
  BY <1>2 DEF AddOpaque, Changed
<1>5. HeapOK /\ HeapOK'
  BY <1>1, <1>3, <1>4, NewKeeps DEF IInv
<1>6. /\ ptr \in [Places -> Addresses] /\ ptr' = [ptr EXCEPT ![FieldData] = b]
      /\ mem \in [Objects -> {"unused", "live", "freed"}]
  BY DEF IInv, HeapOK, HeapTypeOK, Addresses, AddOpaque
<1>7. /\ \A p \in ObjectPlaces \cup ClientVars : ptr'[p] = ptr[p]
      /\ \A r \in Msgs : mem'[r] = mem[r]
  BY <1>1, <1>4, <1>6
<1>8. Ordered' /\ SlotsOK' /\ RoomOK'
  BY <1>2, <1>7, FieldsAsBefore DEF IInv
<1>9. PayloadOK'
  BY <1>1, <1>2, <1>6 DEF PayloadOK
<1>10. NameHeld' /\ Holds(m)'
  BY <1>2, <1>3, <1>7 DEF NameHeld, Holds
<1>11. CallOK'
  BY <1>2, <1>3, <1>6, <1>9, <1>10 DEF CallOK, Adding, Names
<1> QED
  BY <1>2, <1>5, <1>8, <1>11 DEF IInv

LEMMA AddPrimitiveIInv ==
    ASSUME IInv, NEW m \in Msgs, NEW n \in Names, AddPrimitive(m, n)
    PROVE  IInv'
<1> USE PlacesApart, LocalsApart, KindsApart
<1>1. Begin(m, "primitive", Null, n) /\ "primitive" \in Kinds /\ Null \in Objects \cup {Null}
  BY DEF AddPrimitive, Kinds
<1>2. /\ ClientTurn /\ Holds(m) /\ top[m] < MaxFields
      /\ UNCHANGED <<top, capacity, stack>>
      /\ call'.at = "check" /\ call'.msg = m /\ call'.kind = "primitive"
      /\ call'.data = Null /\ call'.name = n
      /\ RestTypeOK'
      /\ n # Null => \E q \in ClientVars \cup ObjectPlaces : ptr[q] = n
  BY <1>1, Begun
<1>3. stack = <<>> /\ ptr[FieldData] = Null /\ ptr[FieldName] = Null
  BY <1>2, ClientHas
<1>4. UNCHANGED <<mem, count, ptr, raw>>
  BY DEF AddPrimitive
<1>5. HeapOK' /\ Ordered' /\ SlotsOK' /\ RoomOK'
  BY <1>2, <1>4, HeapAsBefore, FieldsAsBefore DEF IInv, heapVars
<1>6. PayloadOK'
  BY <1>2, <1>3, <1>4 DEF PayloadOK
<1>7. NameHeld' /\ Holds(m)'
  BY <1>2, <1>3, <1>4 DEF NameHeld, Holds
<1>8. CallOK'
  BY <1>2, <1>3, <1>4, <1>6, <1>7 DEF CallOK, Adding, Names
<1> QED
  BY <1>2, <1>5, <1>8 DEF IInv

(* A client that has no type of its own with a submessage to it.           *)
LEMMA AddDataIInv ==
    ASSUME Careful, IInv, NEW m \in Msgs, NEW c \in ClientVars, NEW n \in Names, AddData(m, c, n)
    PROVE  IInv'
<1> USE PlacesApart, LocalsApart, KindsApart
<1>1. /\ Begin(m, "data", ptr[c], n) /\ "data" \in Kinds /\ ptr[c] \in Objects \cup {Null}
      /\ ptr[c] \in Msgs /\ ptr[c] < m /\ raw' = raw
  BY DEF AddData, Kinds, Careful
<1>2. /\ ClientTurn /\ Holds(m) /\ top[m] < MaxFields
      /\ UNCHANGED <<top, capacity, stack>>
      /\ call'.at = "check" /\ call'.msg = m /\ call'.kind = "data"
      /\ call'.name = n
      /\ RestTypeOK'
      /\ n # Null => \E q \in ClientVars \cup ObjectPlaces : ptr[q] = n
  BY <1>1, Begun
<1>3. stack = <<>> /\ ptr[FieldData] = Null /\ ptr[FieldName] = Null
  BY <1>2, ClientHas
<1>4. /\ Moved(ptr, c, FieldData, ptr') /\ c # FieldData /\ c \in Places
      /\ c \notin raw /\ UNCHANGED <<mem, count, raw, stack>>
  <2>1. ptr' = [ptr EXCEPT ![FieldData] = ptr[c], ![c] = Null]
    BY DEF AddData, IInv, HeapOK, HeapTypeOK
  <2> QED
    BY <1>1, <1>2, <2>1 DEF AddData, Moved, IInv, HeapOK, RawOK
<1>5. HeapOK /\ HeapOK'
  BY <1>3, <1>4, MoveKeeps DEF IInv
<1>6. ptr \in [Places -> Addresses] /\ ptr' = [ptr EXCEPT ![c] = Null, ![FieldData] = ptr[c]]
  BY DEF IInv, HeapOK, HeapTypeOK, Addresses, AddData
<1>7. /\ \A p \in ObjectPlaces \cup ClientVars : p # c => ptr'[p] = ptr[p]
      /\ \A r \in Msgs : mem'[r] = mem[r]
  BY <1>4, <1>6
<1>8. Ordered' /\ SlotsOK' /\ RoomOK'
  BY <1>2, <1>7, FieldsAsBefore DEF IInv
<1>9. PayloadOK'
  BY <1>1, <1>2, <1>6 DEF PayloadOK
<1>10. NameHeld' /\ Holds(m)'
  <2>1. ptr[c] # m /\ ptr[c] # n
    BY <1>1, ObjectHeapAssumption DEF Names
  <2> QED
    BY <1>2, <1>3, <1>7, <2>1 DEF NameHeld, Holds
<1>11. CallOK'
  BY <1>2, <1>3, <1>6, <1>9, <1>10 DEF CallOK, Adding, Names
<1> QED
  BY <1>2, <1>5, <1>8, <1>11 DEF IInv

-----------------------------------------------------------------------------
(* A call in progress sees nothing of what a destructor does.              *)
LEMMA CallAsBefore ==
    ASSUME CallOK, stack # <<>>, UNCHANGED <<top, call>>,
           \A p \in ClientVars \cup LocalPlaces : ptr'[p] = ptr[p]
    PROVE  CallOK'
<1>1. ptr'[FieldData] = ptr[FieldData] /\ ptr'[FieldName] = ptr[FieldName]
  BY LocalsApart
<1>2. CASE call.at = "idle"
  BY <1>1, <1>2 DEF CallOK
<1>3. CASE call.at # "idle"
  <2>1. Adding /\ call.at # "check"
    BY <1>3 DEF CallOK, Adding, NameHeld
  <2>2. PayloadOK'
    BY <1>1, <2>1 DEF Adding, PayloadOK
  <2>3. Holds(call.msg)'
    BY <2>1 DEF Adding, Holds
  <2> QED
    BY <1>1, <1>3, <2>1, <2>2, <2>3 DEF CallOK, Adding
<1> QED
  BY <1>2, <1>3

(* A step of a destructor leaves the rest of the invariant alone: it       *)
(* empties places and frees objects that are not held.                     *)
LEMMA DestructorIInv ==
    ASSUME IInv, Destructor
    PROVE  IInv'
<1> USE PlacesApart, KindsApart
<1>1. /\ HeapOK /\ stack # <<>> /\ UNCHANGED <<top, capacity, call>>
      /\ mem \in [Objects -> {"unused", "live", "freed"}] /\ ptr \in [Places -> Addresses]
  BY DEF Destructor, DestroyNextField, FreeObject, IInv, HeapOK, HeapTypeOK, Addresses
<1>2. RestTypeOK'
  BY <1>1 DEF RestTypeOK, IInv
<1>3. CASE DestroyNextField
  <2>1. PICK p \in ObjectPlaces : ptr[p] # Null /\ DestroyPointer(p)
    BY <1>3 DEF DestroyNextField, OwnedPlaces
  <2>2. /\ HeapOK' /\ ptr' = [ptr EXCEPT ![p] = Null]
        /\ \A o \in Counted : mem'[o] = mem[o]
    BY <1>1, <2>1, DestroyKeeps
  <2>3. /\ \A q \in ObjectPlaces : ptr'[q] = ptr[q] \/ ptr'[q] = Null
        /\ \A q \in ClientVars \cup LocalPlaces : ptr'[q] = ptr[q]
        /\ \A m \in Msgs : mem'[m] = mem[m]
    BY <1>1, <2>1, <2>2
  <2>4. Ordered' /\ SlotsOK' /\ RoomOK'
    BY <1>1, <2>3, FieldsAsBefore DEF IInv
  <2>5. CallOK'
    BY <1>1, <2>3, CallAsBefore DEF IInv
  <2> QED
    BY <1>2, <2>2, <2>4, <2>5 DEF IInv
<1>4. CASE FreeObject
  <2>1. HeapOK'
    BY <1>1, <1>4, FreeKeeps
  <2>2. ptr' = ptr /\ \A m \in Msgs : mem'[m] = mem[m] \/ mem'[m] = "freed"
    BY <1>1, <1>4 DEF FreeObject
  <2>3. Ordered' /\ SlotsOK' /\ RoomOK'
    BY <1>1, <2>2, FieldsAsBefore DEF IInv
  <2>4. CallOK'
    BY <1>1, <2>2, CallAsBefore DEF IInv
  <2> QED
    BY <1>2, <2>1, <2>3, <2>4 DEF IInv
<1> QED
  BY <1>3, <1>4 DEF Destructor

(* A step of a call that has begun.                                        *)
LEMMA InCall ==
    ASSUME IInv, NEW step \in {"check", "append", "destroy", "undo"}, At(step)
    PROVE  /\ stack = <<>> /\ call.at = step /\ Adding /\ HeapOK
           /\ ptr \in [Places -> Addresses]
           /\ mem \in [Objects -> {"unused", "live", "freed"}]
BY DEF At, IInv, CallOK, HeapOK, HeapTypeOK, Addresses

(* The name is refused, or retained: someone else held it until then.      *)
LEMMA CheckNameIInv ==
    ASSUME IInv, CheckName
    PROVE  IInv'
<1> USE PlacesApart, LocalsApart, KindsApart
<1>1. /\ stack = <<>> /\ call.at = "check" /\ Adding /\ HeapOK
      /\ ptr \in [Places -> Addresses]
  BY InCall DEF CheckName
<1>2. UNCHANGED <<mem, raw, stack, top, capacity>>
  BY DEF CheckName
<1>3. call \in [at : {"idle", "check", "append", "destroy", "undo"},
                msg : Msgs \cup {Null}, kind : Kinds \cup {Null},
                data : Objects \cup {Null}, name : Strs \cup {Null}]
  BY DEF IInv, RestTypeOK
<1>4. CASE call.name \in LongNames
  <2>1. call' = [call EXCEPT !.at = "undo"] /\ UNCHANGED <<count, ptr>>
    BY <1>4 DEF CheckName, Goto
  <2>2. HeapOK' /\ Ordered' /\ SlotsOK' /\ RoomOK'
    BY <1>1, <1>2, <2>1, HeapAsBefore, FieldsAsBefore DEF IInv, heapVars
  <2>3. /\ RestTypeOK' /\ call'.at = "undo" /\ call'.msg = call.msg
        /\ call'.kind = call.kind /\ call'.data = call.data
    BY <1>2, <1>3, <2>1 DEF RestTypeOK, IInv
  <2>4. PayloadOK' /\ Holds(call.msg)'
    BY <1>1, <2>1, <2>3 DEF Adding, PayloadOK, Holds
  <2>5. CallOK'
    BY <1>1, <1>2, <2>1, <2>3, <2>4 DEF CallOK, Adding
  <2> QED
    BY <2>2, <2>3, <2>5 DEF IInv
<1>5. CASE call.name \notin LongNames
  <2>1. /\ call' = [call EXCEPT !.at = "append"]
        /\ ptr' = [ptr EXCEPT ![FieldName] = call.name]
        /\ count' = IF call.name = Null THEN count
                    ELSE [count EXCEPT ![call.name] = @ + 1]
    BY <1>5 DEF CheckName, Goto
  <2>2. /\ RestTypeOK' /\ call'.at = "append" /\ call'.msg = call.msg
        /\ call'.kind = call.kind /\ call'.data = call.data
        /\ call.name \in Strs \cup {Null}
    BY <1>2, <1>3, <2>1 DEF RestTypeOK, IInv
  <2>3. ptr[FieldName] = Null
    BY <1>1 DEF Adding
  <2>4. HeapOK'
    <3>1. CASE call.name = Null
      <4>1. ptr' = ptr
        BY <1>1, <2>1, <2>3, <3>1
      <4> QED
        BY <1>1, <1>2, <2>1, <3>1, <4>1, HeapAsBefore DEF heapVars
    <3>2. CASE call.name # Null
      <4>1. PICK o \in Counted : o = call.name
        BY <2>2, <3>2
      <4>2. PICK q \in Places : ptr[q] = o
        BY <1>1, <3>2, <4>1 DEF Adding, NameHeld
      <4>3. /\ Changed(ptr, FieldName, o, ptr') /\ count' = [count EXCEPT ![o] = count[o] + 1]
            /\ FieldName \in ObjectPlaces => mem[FieldName[1]] = "live"
        BY <2>1, <3>2, <4>1 DEF Changed
      <4> QED
        BY <1>1, <1>2, <2>3, <4>2, <4>3, TakeKeeps
    <3> QED
      BY <3>1, <3>2
  <2>5. /\ \A p \in ObjectPlaces \cup ClientVars : ptr'[p] = ptr[p]
        /\ ptr'[FieldData] = ptr[FieldData] /\ ptr'[FieldName] = call.name
        /\ \A m \in Msgs : mem'[m] = mem[m]
    BY <1>1, <1>2, <2>1
  <2>6. Ordered' /\ SlotsOK' /\ RoomOK'
    BY <1>2, <2>5, FieldsAsBefore DEF IInv
  <2>7. PayloadOK' /\ Holds(call.msg)'
    BY <1>1, <2>2, <2>5 DEF Adding, PayloadOK, Holds
  <2>8. CallOK'
    BY <1>1, <1>2, <2>2, <2>5, <2>7 DEF CallOK, Adding, Names
  <2> QED
    BY <2>2, <2>4, <2>6, <2>8 DEF IInv
<1> QED
  BY <1>4, <1>5

(* FieldVector_grow makes room for the field, whatever the capacity was.   *)
LEMMA GrownHasRoom ==
    ASSUME NEW cap \in Nat, NEW size \in Nat
    PROVE  Grown(cap, size) \in Nat /\ Grown(cap, size) >= size
BY DEF Grown

(* The field joins the vector: slots above the top were empty, so no       *)
(* pointer is overwritten.                                                 *)
LEMMA AppendFieldIInv ==
    ASSUME IInv, AppendField
    PROVE  IInv'
<1> USE PlacesApart, LocalsApart, KindsApart
<1>1. /\ stack = <<>> /\ call.at = "append" /\ Adding /\ HeapOK
      /\ ptr \in [Places -> Addresses]
      /\ mem \in [Objects -> {"unused", "live", "freed"}]
  BY InCall DEF AppendField
<1> DEFINE m == call.msg
           t == NewTop
           new == [ptr EXCEPT ![DataSlot] = ptr[FieldData], ![FieldData] = Null]
<1>2. /\ m \in Msgs /\ t = top[m] + 1 /\ t \in 1..MaxFields
      /\ top \in [Msgs -> 0..MaxFields] /\ capacity \in [Msgs -> Nat] /\ top[m] \in Nat
  <2>1. m \in Msgs /\ top[m] < MaxFields
    BY <1>1 DEF Adding
  <2>2. top \in [Msgs -> 0..MaxFields] /\ capacity \in [Msgs -> Nat]
    BY DEF IInv, RestTypeOK
  <2>3. top[m] \in 0..MaxFields /\ MaxFields \in Nat
    BY <2>1, <2>2, ObjectHeapAssumption
  <2>4. t = top[m] + 1
    BY DEF NewTop
  <2> HIDE DEF m, t, new
  <2> QED
    BY <2>1, <2>2, <2>3, <2>4
<1>3. /\ DataSlot \in FieldPlaces /\ NameSlot \in FieldPlaces /\ DataSlot # NameSlot
      /\ DataSlot \in ObjectPlaces /\ NameSlot \in ObjectPlaces
      /\ DataSlot[1] = m /\ NameSlot[1] = m
  BY <1>2, SlotPlaces DEF DataSlot, NameSlot
<1>4. ptr[DataSlot] = Null /\ ptr[NameSlot] = Null
  BY <1>2 DEF IInv, SlotsOK, DataSlot, NameSlot
<1>5. mem[m] = "live"
  <2>1. PICK c \in ClientVars : ptr[c] = m
    BY <1>1 DEF Adding, Holds
  <2> QED
    BY <1>1, <1>2, <2>1, PointedAtIsLive
<1>6. /\ top' = [top EXCEPT ![m] = t] /\ call' = Idle
      /\ capacity' = [capacity EXCEPT ![m] = NewCapacity]
      /\ UNCHANGED <<mem, count, stack>>
      /\ raw' = IF FieldData \in raw THEN (raw \ {FieldData}) \cup {DataSlot} ELSE raw
      /\ ptr' = [ptr EXCEPT ![DataSlot] = ptr[FieldData], ![FieldData] = Null,
                            ![NameSlot] = ptr[FieldName], ![FieldName] = Null]
  BY DEF AppendField
<1>7. Moved(ptr, FieldData, DataSlot, new)
  BY DEF Moved
<1>8. FieldData # DataSlot /\ FieldName # NameSlot /\ FieldData # NameSlot /\ FieldName # DataSlot
  BY <1>3
<1> HIDE DEF new, m, t
<1>9. new \in [Places -> Addresses] /\ \A r \in Objects : Held(new, r) = Held(ptr, r)
  BY <1>1, <1>3, <1>4, <1>7, <1>8, HeldElsewhere
<1>10. new[NameSlot] = Null /\ Moved(new, FieldName, NameSlot, ptr')
  BY <1>1, <1>3, <1>4, <1>6, <1>8 DEF new, Moved
<1>11. ptr' \in [Places -> Addresses] /\ \A r \in Objects : Held(ptr', r) = Held(new, r)
  BY <1>3, <1>8, <1>9, <1>10, HeldElsewhere
<1>12. \A p \in Places : ptr'[p] = IF p = DataSlot THEN ptr[FieldData]
                                   ELSE IF p = NameSlot THEN ptr[FieldName]
                                   ELSE IF p \in {FieldData, FieldName} THEN Null ELSE ptr[p]
  BY <1>1, <1>3, <1>6, <1>8
<1>13. ptr[FieldName] \in Strs \cup {Null} /\ ptr[FieldData] \notin Envs
  BY <1>1 DEF Adding, Names, PayloadOK
<1>14. HeapOK'
  <2>1. HeapTypeOK'
    BY <1>1, <1>3, <1>6, <1>11 DEF HeapOK, HeapTypeOK, Addresses
  <2>2. Counts'
    BY <1>1, <1>6, <1>9, <1>11 DEF HeapOK, Counts, Owed
  <2>3. RawOK'
    <3>1. RawOK /\ FieldName \notin raw /\ DataSlot \notin raw /\ NameSlot \notin raw
      BY <1>1, <1>3, <1>4, <1>13 DEF HeapOK, RawOK
    <3>2. \A p \in Places : p \in raw' <=> \/ p = DataSlot /\ FieldData \in raw
                                           \/ p \in raw /\ p # FieldData
      BY <1>3, <1>6, <1>8, <3>1
    <3>3. ASSUME NEW p \in Places PROVE p \in raw' <=> ptr'[p] \in Blobs
      <4>1. CASE p = DataSlot
        BY <1>8, <1>12, <3>1, <3>2, <4>1 DEF RawOK
      <4>2. CASE p = NameSlot
        BY <1>3, <1>12, <1>13, <3>1, <3>2, <4>2 DEF RawOK
      <4>3. CASE p \in {FieldData, FieldName}
        BY <1>8, <1>12, <3>1, <3>2, <4>3 DEF RawOK
      <4>4. CASE p \notin {DataSlot, NameSlot, FieldData, FieldName}
        BY <1>12, <3>1, <3>2, <4>4 DEF RawOK
      <4> QED
        BY <4>1, <4>2, <4>3, <4>4
    <3>4. raw' \cap ClientVars = {}
      BY <1>3, <1>6, <3>1 DEF RawOK
    <3> QED
      BY <3>3, <3>4 DEF RawOK
  <2>4. OwnersLive'
    BY <1>1, <1>3, <1>5, <1>6, <1>12 DEF HeapOK, OwnersLive
  <2>5. DestroyedOnce' /\ UnheldDying'
    BY <1>1, <1>6 DEF HeapOK, DestroyedOnce, UnheldDying
  <2> QED
    BY <2>1, <2>2, <2>3, <2>4, <2>5 DEF HeapOK
<1>15. Ordered'
  <2>1. ptr[FieldData] \in Msgs => ptr[FieldData] < m
    BY <1>1 DEF Adding, PayloadOK, m
  <2> QED
    BY <1>3, <1>12, <1>13, <2>1 DEF IInv, Ordered, ObjectPlaces
<1>16. SlotsOK'
  <2> SUFFICES ASSUME NEW r \in Msgs, NEW i \in 1..MaxFields, NEW k \in {"data", "name"},
                      i > top'[r]
               PROVE  ptr'[<<r, i, k>>] = Null
    BY DEF SlotsOK
  <2>1. i > top[r] /\ (r = m => i # t)
    BY <1>2, <1>6
  <2>2. <<r, i, k>> # DataSlot /\ <<r, i, k>> # NameSlot
    BY <2>1 DEF DataSlot, NameSlot, m, t
  <2>3. <<r, i, k>> \in ObjectPlaces /\ ptr[<<r, i, k>>] = Null
    BY <2>1, SlotPlaces DEF IInv, SlotsOK
  <2> QED
    BY <1>12, <2>2, <2>3
<1>17. NewCapacity \in Nat /\ NewCapacity >= t
  <2>1. CASE NeedsGrow
    <3>1. NewCapacity = Grown(capacity[m], t + 1)
      BY <2>1 DEF NewCapacity, m, t
    <3> QED
      BY <1>2, <3>1, GrownHasRoom
  <2>2. CASE ~ NeedsGrow
    BY <1>2, <2>2 DEF NewCapacity, NeedsGrow, m, t
  <2> QED
    BY <2>1, <2>2
<1>18. RoomOK' /\ RestTypeOK'
  <2>1. RoomOK'
    BY <1>2, <1>5, <1>6, <1>17 DEF IInv, RoomOK
  <2>2. top' \in [Msgs -> 0..MaxFields] /\ capacity' \in [Msgs -> Nat]
    BY <1>2, <1>6, <1>17
  <2> QED
    BY <1>6, <2>1, <2>2 DEF RestTypeOK, Idle
<1>19. CallOK'
  BY <1>6, <1>8, <1>12 DEF CallOK, Idle
<1> QED
  BY <1>14, <1>15, <1>16, <1>18, <1>19 DEF IInv

(* Where no payload of the caller's is lost if there is no memory.         *)
LEMMA AppendFailsIInv ==
    ASSUME Careful, IInv, AppendFails
    PROVE  IInv'
<1> USE PlacesApart, LocalsApart, KindsApart
<1>1. /\ stack = <<>> /\ call.at = "append" /\ Adding /\ HeapOK
      /\ ptr \in [Places -> Addresses]
  BY InCall DEF AppendFails
<1>2. /\ call' = [call EXCEPT !.at = "destroy"] /\ UNCHANGED <<heapVars, top, capacity>>
      /\ call.kind \in {"primitive", "data"}
  BY DEF AppendFails, Goto, Careful
<1>3. UNCHANGED <<mem, ptr, stack>>
  BY <1>2 DEF heapVars
<1>4. HeapOK' /\ Ordered' /\ SlotsOK' /\ RoomOK'
  BY <1>1, <1>2, <1>3, HeapAsBefore, FieldsAsBefore DEF IInv
<1>5. /\ RestTypeOK' /\ call'.at = "destroy" /\ call'.msg = call.msg
      /\ call'.kind = call.kind /\ call'.data = call.data
  BY <1>2 DEF RestTypeOK, IInv
<1>6. PayloadOK' /\ Holds(call.msg)'
  BY <1>1, <1>2, <1>3, <1>5 DEF Adding, PayloadOK, Holds
<1>7. CallOK'
  BY <1>1, <1>2, <1>3, <1>5, <1>6 DEF CallOK, Adding
<1> QED
  BY <1>4, <1>5, <1>7 DEF IInv

(* One of the two pointers of the local field goes.                        *)
LEMMA LocalDestroyed ==
    ASSUME IInv, At("destroy"), NEW p \in {FieldData, FieldName}, ptr[p] # Null,
           DestroyPointer(p), UNCHANGED <<top, capacity, call>>
    PROVE  IInv'
<1> USE PlacesApart, LocalsApart, KindsApart
<1>1. /\ stack = <<>> /\ call.at = "destroy" /\ Adding /\ HeapOK
      /\ ptr \in [Places -> Addresses]
  BY InCall
<1>2. /\ HeapOK' /\ ptr' = [ptr EXCEPT ![p] = Null]
      /\ \A o \in Counted : mem'[o] = mem[o]
  BY <1>1, DestroyKeeps
<1>3. /\ \A q \in ObjectPlaces \cup ClientVars : ptr'[q] = ptr[q]
      /\ \A m \in Msgs : mem'[m] = mem[m]
      /\ ptr'[FieldData] = ptr[FieldData] \/ ptr'[FieldData] = Null
      /\ ptr'[FieldName] = ptr[FieldName] \/ ptr'[FieldName] = Null
  BY <1>1, <1>2
<1>4. Ordered' /\ SlotsOK' /\ RoomOK'
  BY <1>3, FieldsAsBefore DEF IInv
<1>5. RestTypeOK'
  BY DEF RestTypeOK, IInv
<1>6. PayloadOK' /\ Holds(call.msg)'
  BY <1>1, <1>3 DEF Adding, PayloadOK, Holds
<1>7. CallOK'
  BY <1>1, <1>3, <1>6 DEF CallOK, Adding, Names
<1> QED
  BY <1>2, <1>4, <1>5, <1>7 DEF IInv

(* FudgeField_destroy gives up the payload and then the name, and only     *)
(* payloads that the caller does not clean up are there.                   *)
LEMMA DestroyFieldIInv ==
    ASSUME IInv, DestroyField
    PROVE  IInv'
<1>1. At("destroy") /\ UNCHANGED <<top, capacity>>
  BY DEF DestroyField
<1>2. CASE ptr[FieldData] # Null
  <2>1. DestroyPointer(FieldData) /\ UNCHANGED call
    BY <1>2 DEF DestroyField
  <2> QED
    BY <1>1, <1>2, <2>1, LocalDestroyed
<1>3. CASE ptr[FieldData] = Null /\ ptr[FieldName] # Null
  <2>1. DestroyPointer(FieldName) /\ UNCHANGED call
    BY <1>3 DEF DestroyField
  <2> QED
    BY <1>1, <1>3, <2>1, LocalDestroyed
<1>4. CASE ptr[FieldData] = Null /\ ptr[FieldName] = Null
  <2>1. /\ stack = <<>> /\ call.at = "destroy" /\ Adding /\ HeapOK
        /\ ptr \in [Places -> Addresses]
    BY <1>1, InCall
  <2>2. call' = [call EXCEPT !.at = "undo"] /\ UNCHANGED heapVars
    BY <1>4 DEF DestroyField, Goto
  <2>3. UNCHANGED <<mem, ptr, stack>>
    BY <2>2 DEF heapVars
  <2>4. HeapOK' /\ Ordered' /\ SlotsOK' /\ RoomOK'
    BY <1>1, <2>1, <2>2, <2>3, HeapAsBefore, FieldsAsBefore DEF IInv
  <2>5. /\ RestTypeOK' /\ call'.at = "undo" /\ call'.msg = call.msg
        /\ call'.kind = call.kind /\ call'.data = call.data
    BY <1>1, <2>2 DEF RestTypeOK, IInv
  <2>6. PayloadOK' /\ Holds(call.msg)'
    BY <2>1, <2>3, <2>5 DEF Adding, PayloadOK, Holds
  <2>7. CallOK'
    BY <1>1, <1>4, <2>1, <2>3, <2>5, <2>6 DEF CallOK, Adding
  <2> QED
    BY <2>4, <2>5, <2>7 DEF IInv
<1> QED
  BY <1>2, <1>3, <1>4

(* The call returns with nothing in its locals.                            *)
LEMMA CallReturns ==
    ASSUME IInv, call' = Idle, UNCHANGED <<top, capacity>>, HeapOK',
           \A p \in ObjectPlaces : ptr'[p] = ptr[p],
           \A m \in Msgs : mem'[m] = mem[m],
           ptr'[FieldData] = Null, ptr'[FieldName] = Null
    PROVE  IInv'
<1>1. Ordered' /\ SlotsOK' /\ RoomOK'
  BY FieldsAsBefore DEF IInv
<1>2. RestTypeOK'
  BY DEF RestTypeOK, IInv, Idle
<1>3. CallOK'
  BY DEF CallOK, Idle
<1> QED
  BY <1>1, <1>2, <1>3 DEF IInv

(* A call that failed gives back its reference, its block or nothing.      *)
LEMMA UndoRetainIInv ==
    ASSUME IInv, UndoRetain
    PROVE  IInv'
<1> USE PlacesApart, LocalsApart, KindsApart
<1>1. /\ stack = <<>> /\ call.at = "undo" /\ Adding /\ HeapOK
      /\ ptr \in [Places -> Addresses]
  BY InCall DEF UndoRetain
<1>2. /\ ptr[FieldData] = call.data /\ ptr[FieldData] \in Counted /\ ptr[FieldName] = Null
  BY <1>1 DEF Adding, PayloadOK, UndoRetain
<1>3. /\ ReleaseObject(ptr[FieldData]) /\ Changed(ptr, FieldData, Null, ptr')
      /\ UNCHANGED <<mem, raw>>
  BY <1>2 DEF UndoRetain, Changed
<1>4. HeapOK'
  BY <1>1, <1>2, <1>3, ReleaseKeeps
<1>5. /\ \A p \in ObjectPlaces : ptr'[p] = ptr[p]
      /\ \A m \in Msgs : mem'[m] = mem[m]
      /\ ptr'[FieldData] = Null /\ ptr'[FieldName] = Null
  BY <1>1, <1>2, <1>3 DEF Changed
<1> QED
  BY <1>4, <1>5, CallReturns DEF UndoRetain

LEMMA UndoCopyIInv ==
    ASSUME IInv, UndoCopy
    PROVE  IInv'
<1> USE PlacesApart, LocalsApart, KindsApart
<1>1. /\ stack = <<>> /\ call.at = "undo" /\ Adding /\ HeapOK
      /\ ptr \in [Places -> Addresses]
      /\ mem \in [Objects -> {"unused", "live", "freed"}]
  BY InCall DEF UndoCopy
<1>2. /\ ptr[FieldData] = call.data /\ ptr[FieldData] \in Blobs /\ ptr[FieldName] = Null
  BY <1>1 DEF Adding, PayloadOK, UndoCopy
<1>3. /\ mem' = [mem EXCEPT ![ptr[FieldData]] = "freed"] /\ Changed(ptr, FieldData, Null, ptr')
      /\ raw' = raw \ {FieldData} /\ UNCHANGED <<count, stack>>
  BY <1>2 DEF UndoCopy, Changed
<1>4. HeapOK'
  BY <1>1, <1>2, <1>3, FreeBlobKeeps
<1>5. /\ \A p \in ObjectPlaces : ptr'[p] = ptr[p]
      /\ \A m \in Msgs : mem'[m] = mem[m]
      /\ ptr'[FieldData] = Null /\ ptr'[FieldName] = Null
  BY <1>1, <1>2, <1>3 DEF Changed
<1> QED
  BY <1>4, <1>5, CallReturns DEF UndoCopy

LEMMA UndoNothingIInv ==
    ASSUME IInv, UndoNothing
    PROVE  IInv'
<1> USE PlacesApart, LocalsApart, KindsApart
<1>1. /\ stack = <<>> /\ call.at = "undo" /\ Adding /\ HeapOK
      /\ ptr \in [Places -> Addresses]
  BY InCall DEF UndoNothing
<1>2. /\ ptr[FieldData] \in Msgs \cup {Null} /\ ptr[FieldName] = Null
      /\ FieldData \notin raw
  BY <1>1 DEF Adding, PayloadOK, UndoNothing, HeapOK, RawOK
<1>3. raw' = raw /\ UNCHANGED <<mem, count, stack, top, capacity>> /\ call' = Idle
  BY <1>2 DEF UndoNothing
<1>4. CASE ptr[FieldData] = Null
  <2>1. ptr' = ptr
    BY <1>4 DEF UndoNothing
  <2>2. HeapOK'
    BY <1>1, <1>3, <2>1, HeapAsBefore DEF heapVars
  <2> QED
    BY <1>2, <1>3, <1>4, <2>1, <2>2, CallReturns
<1>5. CASE ptr[FieldData] # Null
  <2>1. PICK c \in FreeVars : ptr' = [ptr EXCEPT ![c] = ptr[FieldData], ![FieldData] = Null]
    BY <1>5 DEF UndoNothing
  <2>2. c \in ClientVars /\ ptr[c] = Null /\ Moved(ptr, FieldData, c, ptr')
    BY <2>1 DEF FreeVars, Moved
  <2>3. HeapOK'
    BY <1>1, <1>2, <1>3, <2>2, MoveKeeps
  <2>4. /\ \A p \in ObjectPlaces : ptr'[p] = ptr[p]
        /\ ptr'[FieldData] = Null /\ ptr'[FieldName] = Null
    BY <1>1, <1>2, <2>2 DEF Moved
  <2> QED
    BY <1>3, <2>3, <2>4, CallReturns
<1> QED
  BY <1>4, <1>5

-----------------------------------------------------------------------------
(* Every step keeps the invariant.                                         *)
LEMMA NextIInv ==
    ASSUME Careful
    PROVE  IInv /\ [Next]_vars => IInv'
<1> SUFFICES ASSUME IInv, [Next]_vars PROVE IInv'
  OBVIOUS
<1>1. CASE UNCHANGED vars
  <2>1. UNCHANGED heapVars /\ UNCHANGED <<mem, ptr, stack, top, capacity, call>>
    BY <1>1 DEF vars, heapVars
  <2>2. HeapOK' /\ Ordered' /\ SlotsOK' /\ RoomOK'
    BY <2>1, HeapAsBefore, FieldsAsBefore DEF IInv
  <2>3. RestTypeOK'
    BY <2>1 DEF RestTypeOK, IInv
  <2>4. CallOK'
    BY <2>1 DEF IInv, CallOK, Adding, PayloadOK, NameHeld, Holds
  <2> QED
    BY <2>2, <2>3, <2>4 DEF IInv
<1>2. CASE Create
  BY <1>2, CreateMsgIInv, CreateStringIInv, CreateEnvelopeIInv DEF Create
<1>3. CASE \E o \in Counted, c \in ClientVars : Retain(o, c)
  BY <1>3, RetainIInv
<1>4. CASE \E c \in ClientVars : Release(c)
  BY <1>4, ReleaseIInv
<1>5. CASE AddField
  BY <1>5, AddCountedIInv, AddOpaqueIInv, AddPrimitiveIInv, AddDataIInv DEF AddField
<1>6. CASE Running
  BY <1>6, DestructorIInv, CheckNameIInv, AppendFieldIInv, AppendFailsIInv,
     DestroyFieldIInv, UndoRetainIInv, UndoCopyIInv, UndoNothingIInv DEF Running
<1> QED
  BY <1>1, <1>2, <1>3, <1>4, <1>5, <1>6 DEF Next

Kept ==
    \A p \in ObjectPlaces :
        ptr[p] # Null /\ (\A i \in DOMAIN stack : stack[i] # p[1]) => ptr'[p] = ptr[p]

(* No step disturbs a field of a message that is not being destroyed: only *)
(* AppendField and DestroyNextField write slots, one those above the top,  *)
(* the other those of the message on top of the stack.                     *)
LEMMA NextKeeps ==
    ASSUME IInv, Next
    PROVE  Kept
<1> USE PlacesApart, LocalsApart
<1>1. ptr \in [Places -> Addresses] /\ HeapOK
  BY DEF IInv, HeapOK, HeapTypeOK, Addresses
<1>2. ASSUME NEW c \in ClientVars, NEW m \in Msgs, CreateMsg(m, c) PROVE Kept
  BY <1>1, <1>2 DEF Kept, CreateMsg
<1>3. ASSUME NEW c \in ClientVars, NEW s \in Strs, CreateString(s, c) PROVE Kept
  BY <1>1, <1>3 DEF Kept, CreateString
<1>4. ASSUME NEW c \in ClientVars, NEW e \in Envs, NEW m \in Msgs, CreateEnvelope(e, m, c)
      PROVE  Kept
  <2>1. mem[e] = "unused" /\ <<e, 1, "data">> \in ObjectPlaces
    BY <1>4 DEF CreateEnvelope, NewObject, ObjectPlaces, EnvPlaces
  <2>2. ptr[<<e, 1, "data">>] = Null
    BY <1>1, <2>1 DEF HeapOK, OwnersLive
  <2>3. \A p \in ObjectPlaces : p # <<e, 1, "data">> => ptr'[p] = ptr[p]
    BY <1>1, <1>4 DEF CreateEnvelope
  <2> QED
    BY <2>2, <2>3 DEF Kept
<1>5. ASSUME NEW c \in ClientVars, NEW o \in Counted, Retain(o, c) PROVE Kept
  BY <1>1, <1>5 DEF Kept, Retain
<1>6. ASSUME NEW c \in ClientVars, Release(c) PROVE Kept
  BY <1>1, <1>6 DEF Kept, Release
<1>7. ASSUME AddField PROVE Kept
  <2>1. PICK m \in Msgs, n \in Names :
            \/ \E d \in Msgs \cup Strs : AddCounted(m, d, n)
            \/ \E b \in Blobs : AddOpaque(m, b, n)
            \/ AddPrimitive(m, n)
            \/ \E c \in ClientVars : AddData(m, c, n)
    BY <1>7 DEF AddField
  <2>2. ASSUME NEW d \in Msgs \cup Strs, AddCounted(m, d, n) PROVE Kept
    BY <1>1, <2>2 DEF Kept, AddCounted
  <2>3. ASSUME NEW b \in Blobs, AddOpaque(m, b, n) PROVE Kept
    BY <1>1, <2>3 DEF Kept, AddOpaque
  <2>4. ASSUME AddPrimitive(m, n) PROVE Kept
    BY <1>1, <2>4 DEF Kept, AddPrimitive
  <2>5. ASSUME NEW c \in ClientVars, AddData(m, c, n) PROVE Kept
    BY <1>1, <2>5 DEF Kept, AddData
  <2> QED
    BY <2>1, <2>2, <2>3, <2>4, <2>5
<1>8. ASSUME Destructor PROVE Kept
  <2>1. ASSUME FreeObject PROVE Kept
    BY <2>1 DEF Kept, FreeObject
  <2>2. ASSUME DestroyNextField PROVE Kept
    <3>1. stack \in Seq(Counted) /\ stack # <<>>
      BY <1>1, <2>2 DEF HeapOK, HeapTypeOK, DestroyNextField
    <3>2. PICK p \in ObjectPlaces : p[1] = Head(stack) /\ DestroyPointer(p)
      BY <2>2 DEF DestroyNextField, OwnedPlaces
    <3>3. 1 \in DOMAIN stack /\ stack[1] = p[1]
      BY <3>1, <3>2
    <3>4. ptr' = [ptr EXCEPT ![p] = Null]
      BY <3>2 DEF DestroyPointer
    <3> QED
      BY <1>1, <3>3, <3>4 DEF Kept
  <2> QED
    BY <1>8, <2>1, <2>2 DEF Destructor
<1>9. ASSUME CheckName PROVE Kept
  BY <1>1, <1>9 DEF Kept, CheckName
<1>10. ASSUME AppendField PROVE Kept
  <2>1. Adding
    BY <1>10, InCall DEF AppendField
  <2>2. call.msg \in Msgs /\ top[call.msg] < MaxFields /\ top[call.msg] \in 0..MaxFields
    BY <2>1 DEF Adding, IInv, RestTypeOK
  <2>3. NewTop \in 1..MaxFields /\ NewTop > top[call.msg]
    BY <2>2, ObjectHeapAssumption DEF NewTop
  <2>4. ptr[DataSlot] = Null /\ ptr[NameSlot] = Null
    BY <2>2, <2>3 DEF IInv, SlotsOK, DataSlot, NameSlot
  <2>5. \A p \in ObjectPlaces : p # DataSlot /\ p # NameSlot => ptr'[p] = ptr[p]
    BY <1>1, <1>10 DEF AppendField
  <2> QED
    BY <2>4, <2>5 DEF Kept
<1>11. ASSUME AppendFails PROVE Kept
  BY <1>11 DEF Kept, AppendFails, heapVars
<1>12. ASSUME DestroyField PROVE Kept
  BY <1>1, <1>12 DEF Kept, DestroyField, DestroyPointer, heapVars
<1>13. ASSUME UndoRetain PROVE Kept
  BY <1>1, <1>13 DEF Kept, UndoRetain
<1>14. ASSUME UndoCopy PROVE Kept
  BY <1>1, <1>14 DEF Kept, UndoCopy
<1>15. ASSUME UndoNothing PROVE Kept
  BY <1>1, <1>15 DEF Kept, UndoNothing, FreeVars
<1> QED
  BY <1>2, <1>3, <1>4, <1>5, <1>6, <1>7, <1>8, <1>9, <1>10, <1>11, <1>12, <1>13, <1>14, <1>15
  DEF Next, Create, Running

-----------------------------------------------------------------------------
(* The invariant holds of every behaviour.                                 *)
LEMMA Inductive == Careful => (Spec => []IInv)
<1> SUFFICES ASSUME Careful PROVE Spec => []IInv
  OBVIOUS
<1>1. Init => IInv
  BY InitIInv
<1>2. IInv /\ [Next]_vars => IInv'
  BY NextIInv
<1> QED
  BY <1>1, <1>2, PTL DEF Spec

(* Every variable keeps its type: no count falls below 0, and no vector    *)
(* gets more fields than are asked for.                                    *)
THEOREM TypeCorrect == Careful => (Spec => []TypeOK)
<1>1. IInv => TypeOK
  BY DEF IInv, HeapOK, RestTypeOK, TypeOK
<1> QED
  BY <1>1, Inductive, PTL

(* The count of every live message, string and envelope is the number of   *)
(* pointers to it: each addition, failure and destructor takes and gives   *)
(* up exactly the references it should.                                    *)
THEOREM CountsCorrect == Careful => (Spec => []CountsExact)
<1>1. IInv => CountsExact
  BY HeapIsRight DEF IInv
<1> QED
  BY <1>1, Inductive, PTL

(* No client, field, envelope or local points at memory that was freed.    *)
THEOREM NothingDangles == Careful => (Spec => []NoDangling)
<1>1. IInv => NoDangling
  BY HeapIsRight DEF IInv
<1> QED
  BY <1>1, Inductive, PTL

(* However deep a release recurses, what is being destroyed is live, has   *)
(* no references left, and is being destroyed once.                        *)
THEOREM DestructionOnce == Careful => (Spec => []DestroyedOnce)
<1>1. IInv => DestroyedOnce
  BY DEF IInv, HeapOK
<1> QED
  BY <1>1, Inductive, PTL

(* A client that has released everything it held has freed everything it   *)
(* made: no failed addition leaves a reference behind.                     *)
THEOREM NothingLeaks == Careful => (Spec => []AllReclaimed)
<1>1. IInv => AllReclaimed
  BY Reclaimed DEF IInv
<1> QED
  BY <1>1, Inductive, PTL

(* FieldVector_append never writes past the memory of its vector.          *)
THEOREM RoomForFields == Careful => (Spec => []VectorHasRoom)
<1>1. IInv => VectorHasRoom
  BY DEF IInv, RoomOK, VectorHasRoom
<1> QED
  BY <1>1, Inductive, PTL

(* A field keeps its payload and name until its message is destroyed.      *)
THEOREM FieldsStay == Careful => (Spec => FieldsKept)
<1>1. IInv /\ [Next]_vars => [Kept]_vars
  BY NextKeeps
<1> QED
  BY <1>1, Inductive, PTL DEF Spec, FieldsKept, Kept
=============================================================================
