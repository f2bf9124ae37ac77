--------------------------- MODULE RefCountAtomic ---------------------------
(***************************************************************************)
(* Reference counting in the multi-threaded build with compiler atomics    *)
(* (reference_atomic.c, atomic.h), together with the retain and release    *)
(* functions built on it.  FudgeMsg_retain/release is the code translated; *)
(* FudgeString, FudgeMsgEnvelope and FudgeStringPool repeat it line for    *)
(* line around their own destructor.                                       *)
(*                                                                         *)
(* AtomicIncrementAndReturn and AtomicDecrementAndReturn are single steps. *)
(* What follows a decrement, the test of the returned value and the        *)
(* destruction, is not atomic with it, and other threads run in between.   *)
(***************************************************************************)
EXTENDS RefTokens, Naturals

VARIABLES owner,     \* ghost: who owns each reference
          pc,        \* where each thread is inside FudgeMsg_release
          returned,  \* the value decrementAndReturn gave each thread
          count,     \* FudgeRefCountImpl.count
          countMem,  \* the FudgeRefCountImpl allocation
          objMem     \* the allocation of the object itself

vars == <<owner, pc, returned, count, countMem, objMem>>

Memory == {"none", "live", "freed"}

Init ==
    /\ owner = [r \in Refs |-> Nobody]
    /\ pc = [t \in Threads |-> "idle"]
    /\ returned = [t \in Threads |-> 0]
    /\ count = 0
    /\ countMem = "none"
    /\ objMem = "none"

-----------------------------------------------------------------------------
(* FudgeRefCount_create starts the count at the creator's own reference.   *)
InitialCount_Zero == 0
InitialCount == 1

(* FudgeMsg_create, as far as the count goes.  A failed create leaves no   *)
(* object and is not a step.                                               *)
Create(t) ==
    /\ objMem = "none"
    /\ objMem' = "live"
    /\ countMem' = "live"
    /\ count' = InitialCount
    /\ \E r \in Refs : owner' = [owner EXCEPT ![r] = t]
    /\ UNCHANGED <<pc, returned>>

Retain_NotCounted(t) ==
    /\ pc[t] = "idle"
    /\ OwnedBy(owner, t) # {}
    /\ \E r \in Refs : /\ owner[r] = Nobody
                       /\ owner' = [owner EXCEPT ![r] = t]
    /\ UNCHANGED <<pc, returned, count, countMem, objMem>>

(* FudgeRefCount_increment.  The caller must own a reference of its own:   *)
(* that is the one rule the client has to keep.                            *)
Retain(t) ==
    /\ pc[t] = "idle"
    /\ OwnedBy(owner, t) # {}
    /\ count' = count + 1
    /\ \E r \in Refs : /\ owner[r] = Nobody
                       /\ owner' = [owner EXCEPT ![r] = t]
    /\ UNCHANGED <<pc, returned, countMem, objMem>>

(* FudgeRefCount_decrementAndReturn: from here on the caller has given up  *)
(* its reference and knows only the value returned.                        *)
Decrement(t) ==
    /\ pc[t] = "idle"
    /\ \E r \in OwnedBy(owner, t) : owner' = [owner EXCEPT ![r] = Nobody]
    /\ count' = count - 1
    /\ returned' = [returned EXCEPT ![t] = count - 1]
    /\ pc' = [pc EXCEPT ![t] = "check"]
    /\ UNCHANGED <<countMem, objMem>>

(* if ( ! FudgeRefCount_decrementAndReturn ( ... ) )                       *)
(* It is the value returned that is tested, never the counter again.       *)
LastReference_RereadsCount(t) == count = 0
LastReference_TestsOne(t)     == returned[t] <= 1
LastReference_TestsBelow(t)   == returned[t] < 0
LastReference(t) == returned[t] = 0

Check(t) ==
    /\ pc[t] = "check"
    /\ pc' = [pc EXCEPT ![t] = IF LastReference(t) THEN "destroy_count"
                                                   ELSE "idle"]
    /\ UNCHANGED <<owner, returned, count, countMem, objMem>>

(* FudgeRefCount_destroy frees the counter before the object goes.         *)
DestroyCount(t) ==
    /\ pc[t] = "destroy_count"
    /\ countMem' = "freed"
    /\ pc' = [pc EXCEPT ![t] = "destroy_object"]
    /\ UNCHANGED <<owner, returned, count, objMem>>

DestroyObject(t) ==
    /\ pc[t] = "destroy_object"
    /\ objMem' = "freed"
    /\ pc' = [pc EXCEPT ![t] = "idle"]
    /\ UNCHANGED <<owner, returned, count, countMem>>

(* The client hands one of its references to another thread.               *)
Pass(t, u) ==
    /\ pc[t] = "idle"
    /\ \E r \in OwnedBy(owner, t) : owner' = [owner EXCEPT ![r] = u]
    /\ UNCHANGED <<pc, returned, count, countMem, objMem>>

(* The steps a call takes once it has been made.                           *)
Running(t) == Check(t) \/ DestroyCount(t) \/ DestroyObject(t)

Next ==
    \/ \E t \in Threads : Create(t) \/ Retain(t) \/ Decrement(t) \/ Running(t)
    \/ \E t, u \in Threads : Pass(t, u)

(* A thread inside a call is scheduled until the call returns.  Nothing    *)
(* obliges a client to make a call.                                        *)
Fairness == \A t \in Threads : WF_vars(Running(t))

Spec == Init /\ [][Next]_vars /\ Fairness

-----------------------------------------------------------------------------
Destroying(t) ==
    \/ pc[t] = "check" /\ returned[t] = 0
    \/ pc[t] \in {"destroy_count", "destroy_object"}

(* Every variable has its type; count \in Nat is the assertion in          *)
(* FudgeRefCount_decrementAndReturn that the count never goes negative.    *)
TypeOK ==
    /\ owner \in [Refs -> Owners]
    /\ pc \in [Threads -> {"idle", "check", "destroy_count", "destroy_object"}]
    /\ returned \in [Threads -> Nat]
    /\ count \in Nat
    /\ countMem \in Memory
    /\ objMem \in Memory

(* The counter is the number of references outstanding, whatever steps of  *)
(* whatever calls are in flight.                                           *)
CountIsReferences == count = Cardinality(Outstanding(owner))

(* While anybody owns a reference, neither the counter nor the object has  *)
(* been freed: no thread that may call retain or release touches freed     *)
(* memory.                                                                 *)
ReferencesPinMemory ==
    ~ Unreferenced(owner) => countMem = "live" /\ objMem = "live"

(* Two racing releases never both take themselves for the last one: at     *)
(* most one thread ever runs the destructor, and it runs on memory nobody  *)
(* freed before.                                                           *)
DestroyedOnce ==
    /\ \A t, u \in Threads : Destroying(t) /\ Destroying(u) => t = u
    /\ \A t \in Threads :
          /\ Destroying(t) => objMem = "live"
          /\ pc[t] = "destroy_count" => countMem = "live"

(* The code implements the promise of SharedObject, its liveness included: *)
(* once the last reference has gone, the object is reclaimed.              *)
Object == INSTANCE SharedObject WITH object <- objMem

SharedObjectSpec == Object!Spec

(* Its safety part, which is the one that can be proved.                   *)
SharedObjectSafety == Object!Safety
=============================================================================
