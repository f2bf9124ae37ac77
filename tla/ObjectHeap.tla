----------------------------- MODULE ObjectHeap -----------------------------
(***************************************************************************)
(* The heap of reference counted Fudge-C objects: messages, strings,       *)
(* envelopes, and the byte blocks that opaque fields own outright.         *)
(*                                                                         *)
(* A reference is a pointer stored somewhere, so the heap is a function    *)
(* ptr from the places that can hold one to what they point at: the        *)
(* client's variables, the data and name slots of each field of a message, *)
(* the message slot of an envelope, and the locals of the library call in  *)
(* progress.  The code never sees that graph, only each object's count.    *)
(*                                                                         *)
(* An object belongs to one thread at a time (message.h), so there are no  *)
(* interleavings here: what is hard is the recursion of release through    *)
(* shared submessages, and the paths on which an addition fails half way.  *)
(***************************************************************************)
EXTENDS Integers, Sequences, FiniteSets

CONSTANTS
    Msgs,        \* message addresses: numbers, children before their parents
    Strs,        \* string addresses
    Blobs,       \* addresses of byte blocks
    Envs,        \* envelope addresses
    ClientVars,  \* the variables in which the client keeps references
    MaxFields,   \* bound: fields per message
    Locals,      \* the stack frames of the library call in progress
    Null

Counted == Msgs \cup Strs \cup Envs
Objects == Counted \cup Blobs

FieldPlaces  == Msgs \X (1..MaxFields) \X {"data", "name"}
EnvPlaces    == Envs \X {1} \X {"data"}
LocalPlaces  == Locals \X {1} \X {"data", "name"}
ObjectPlaces == FieldPlaces \cup EnvPlaces
Places       == ClientVars \cup ObjectPlaces \cup LocalPlaces

ASSUME ObjectHeapAssumption ==
    /\ Msgs \subseteq Nat /\ IsFiniteSet(Msgs)
    /\ MaxFields \in Nat \ {0}
    /\ IsFiniteSet(Places)
    /\ Msgs \cap Strs = {} /\ Msgs \cap Blobs = {} /\ Msgs \cap Envs = {}
    /\ Strs \cap Blobs = {} /\ Strs \cap Envs = {} /\ Blobs \cap Envs = {}
    /\ Null \notin Objects
    /\ Locals \cap (Msgs \cup Envs) = {}
    /\ ClientVars \cap (ObjectPlaces \cup LocalPlaces) = {}

VARIABLES mem,    \* each address: "unused", "live" or "freed"
          count,  \* each object's FudgeRefCount
          ptr,    \* what each place points at
          raw,    \* places of fields that FudgeField_destroy frees as bytes
          stack   \* objects being destroyed, innermost call first

heapVars == <<mem, count, ptr, raw, stack>>

HeapInit ==
    /\ mem = [o \in Objects |-> "unused"]
    /\ count = [o \in Counted |-> 0]
    /\ ptr = [p \in Places |-> Null]
    /\ raw = {}
    /\ stack = <<>>

-----------------------------------------------------------------------------
Holds(o) == \E c \in ClientVars : ptr[c] = o

FreeVars == {c \in ClientVars : ptr[c] = Null}

(* The pointers an object owns, in the order its destructor visits them.   *)
OwnedPlaces(o) == {p \in ObjectPlaces : p[1] = o /\ ptr[p] # Null}

Before(p, q) == p[2] < q[2] \/ (p[2] = q[2] /\ p[3] = "data")

(* FudgeMsg_release, FudgeString_release, FudgeMsgEnvelope_release: the    *)
(* decrement, and the call of the destructor if it returned 0.             *)
ReleaseObject_Early(o) ==
    /\ count' = [count EXCEPT ![o] = @ - 1]
    /\ stack' = IF count[o] <= 2 THEN <<o>> \o stack ELSE stack

ReleaseObject(o) ==
    /\ count' = [count EXCEPT ![o] = @ - 1]
    /\ stack' = IF count[o] = 1 THEN <<o>> \o stack ELSE stack

(* One branch of FudgeField_destroy's switch for each kind of field: a     *)
(* submessage or string is released, anything that keeps its data in the   *)
(* bytes pointer is handed to free.                                        *)
DestroyPointer_Kept(p) ==
    IF p \in raw
      THEN /\ mem' = [mem EXCEPT ![ptr[p]] = "freed"]
           /\ ptr' = [ptr EXCEPT ![p] = Null]
           /\ raw' = raw \ {p}
           /\ UNCHANGED <<count, stack>>
      ELSE /\ ptr' = [ptr EXCEPT ![p] = Null]
           /\ UNCHANGED <<mem, count, raw, stack>>

DestroyPointer(p) ==
    IF p \in raw
      THEN /\ mem' = [mem EXCEPT ![ptr[p]] = "freed"]
           /\ ptr' = [ptr EXCEPT ![p] = Null]
           /\ raw' = raw \ {p}
           /\ UNCHANGED <<count, stack>>
      ELSE /\ ReleaseObject(ptr[p])
           /\ ptr' = [ptr EXCEPT ![p] = Null]
           /\ UNCHANGED <<mem, raw>>

(* FieldVector_destroy, or an envelope releasing its message: the object   *)
(* on top of the stack gives up its next pointer.  If that was the last    *)
(* reference to its target, the target is destroyed first.                 *)
DestroyNextField ==
    /\ stack # <<>>
    /\ \E p \in OwnedPlaces(Head(stack)) :
          /\ \A q \in OwnedPlaces(Head(stack)) : Before(p, q) \/ p = q
          /\ DestroyPointer(p)

(* The object owns nothing any more: its memory is freed and its           *)
(* destructor returns.                                                     *)
FreeObject_KeepsGoing ==
    /\ stack # <<>>
    /\ OwnedPlaces(Head(stack)) = {}
    /\ mem' = [mem EXCEPT ![Head(stack)] = "freed"]
    /\ UNCHANGED <<stack, count, ptr, raw>>

FreeObject ==
    /\ stack # <<>>
    /\ OwnedPlaces(Head(stack)) = {}
    /\ mem' = [mem EXCEPT ![Head(stack)] = "freed"]
    /\ stack' = Tail(stack)
    /\ UNCHANGED <<count, ptr, raw>>

-----------------------------------------------------------------------------
(* The heap is what it should be; in particular no count goes below zero.  *)
HeapTypeOK ==
    /\ mem \in [Objects -> {"unused", "live", "freed"}]
    /\ count \in [Counted -> Nat]
    /\ ptr \in [Places -> Objects \cup {Null}]
    /\ raw \subseteq Places
    /\ stack \in Seq(Counted)

(* A place exists while the object it is part of does.                     *)
LivePlaces ==
    {p \in Places : p \in ObjectPlaces => mem[p[1]] = "live"}

Pointers(o) == {p \in LivePlaces : ptr[p] = o}

(* The count of every live object is the number of pointers to it, those   *)
(* of half-destroyed and half-built objects included.                      *)
CountsExact ==
    \A o \in Counted : mem[o] = "live" => count[o] = Cardinality(Pointers(o))

(* Nobody is left pointing at memory that has been freed.                  *)
NoDangling ==
    \A p \in LivePlaces : ptr[p] # Null => mem[ptr[p]] = "live"

(* Every object being destroyed is still there, and is being destroyed     *)
(* once only.                                                              *)
DestroyedOnce ==
    /\ \A i \in DOMAIN stack : mem[stack[i]] = "live" /\ count[stack[i]] = 0
    /\ \A i, j \in DOMAIN stack : stack[i] = stack[j] => i = j

(* Once the client has released everything it held, nothing is left.       *)
AllReclaimed ==
    /\ stack = <<>>
    /\ \A p \in ClientVars \cup LocalPlaces : ptr[p] = Null
    => \A o \in Objects : mem[o] # "live"
=============================================================================
