-------------------------- MODULE RefCountPthreads --------------------------
(***************************************************************************)
(* Reference counting in the multi-threaded build without compiler         *)
(* atomics (reference_pthreads.c), with the retain and release functions   *)
(* built on it (FudgeMsg_retain/release; the strings, envelopes and string *)
(* pools repeat them).                                                     *)
(*                                                                         *)
(* The counter is a plain int inside the allocation that also holds the    *)
(* mutex protecting it.  So the mutex must keep two reads and writes of    *)
(* the counter apart, and the last release destroys a mutex that the other *)
(* threads have only just let go of.                                       *)
(***************************************************************************)
EXTENDS RefTokens, Naturals

VARIABLES owner,     \* ghost: who owns each reference
          op,        \* the call each thread is in
          pc,        \* where in that call it is
          token,     \* the reference its retain or release is about
          local,     \* its local variable count
          count,     \* FudgeRefCountImpl.count
          mutex,     \* who holds FudgeRefCountImpl.mutex
          countMem,  \* the allocation that holds both
          objMem     \* the allocation of the object itself

vars == <<owner, op, pc, token, local, count, mutex, countMem, objMem>>

Memory == {"none", "live", "freed"}
Calls  == {"retain", "release"}

Init ==
    /\ owner = [r \in Refs |-> Nobody]
    /\ op = [t \in Threads |-> "none"]
    /\ pc = [t \in Threads |-> "idle"]
    /\ token = [t \in Threads |-> Nobody]
    /\ local = [t \in Threads |-> 0]
    /\ count = 0
    /\ mutex = Nobody
    /\ countMem = "none"
    /\ objMem = "none"

-----------------------------------------------------------------------------
(* FudgeRefCount_create.  A create that fails, for want of memory or of    *)
(* mutex resources, frees what it took and is not a step.                  *)
Create(t) ==
    /\ objMem = "none"
    /\ objMem' = "live"
    /\ countMem' = "live"
    /\ count' = 1
    /\ \E r \in Refs : owner' = [owner EXCEPT ![r] = t]
    /\ UNCHANGED <<op, pc, token, local, mutex>>

(* A thread that owns a reference calls FudgeRefCount_increment or         *)
(* decrementAndReturn.  The token a retain will bring into use is set      *)
(* aside now, so that a call once made is never held up by Refs.           *)
Reserved == {token[u] : u \in {v \in Threads : op[v] = "retain"}}

Call(t, o) ==
    /\ pc[t] = "idle"
    /\ OwnedBy(owner, t) # {}
    /\ \E r \in Refs :
          /\ o = "retain" => owner[r] = Nobody /\ r \notin Reserved
          /\ o = "release" => owner[r] = t
          /\ token' = [token EXCEPT ![t] = r]
    /\ op' = [op EXCEPT ![t] = o]
    /\ pc' = [pc EXCEPT ![t] = "lock"]
    /\ UNCHANGED <<owner, local, count, mutex, countMem, objMem>>

Lock_Missing(t) ==
    /\ pc[t] = "lock"
    /\ pc' = [pc EXCEPT ![t] = "load"]
    /\ UNCHANGED <<owner, op, token, local, count, mutex, countMem, objMem>>

Lock(t) ==
    /\ pc[t] = "lock"
    /\ mutex = Nobody
    /\ mutex' = t
    /\ pc' = [pc EXCEPT ![t] = "load"]
    /\ UNCHANGED <<owner, op, token, local, count, countMem, objMem>>

(* refcount->count += 1u and -= 1u read the counter, then write it.        *)
Load(t) ==
    /\ pc[t] = "load"
    /\ local' = [local EXCEPT ![t] = count]
    /\ pc' = [pc EXCEPT ![t] = "store"]
    /\ UNCHANGED <<owner, op, token, count, mutex, countMem, objMem>>

Updated(t) == IF op[t] = "retain" THEN local[t] + 1 ELSE local[t] - 1

NextHolder(t) == IF op[t] = "retain" THEN t ELSE Nobody

Store_LeavesLocked(t) ==
    /\ pc[t] = "store"
    /\ count' = Updated(t)
    /\ local' = [local EXCEPT ![t] = Updated(t)]
    /\ owner' = [owner EXCEPT ![token[t]] = NextHolder(t)]
    /\ token' = [token EXCEPT ![t] = Nobody]
    /\ pc' = [pc EXCEPT ![t] = IF op[t] = "release" THEN "check" ELSE "unlock"]
    /\ UNCHANGED <<op, mutex, countMem, objMem>>

Store(t) ==
    /\ pc[t] = "store"
    /\ count' = Updated(t)
    /\ local' = [local EXCEPT ![t] = Updated(t)]
    /\ owner' = [owner EXCEPT ![token[t]] = NextHolder(t)]
    /\ token' = [token EXCEPT ![t] = Nobody]
    /\ pc' = [pc EXCEPT ![t] = "unlock"]
    /\ UNCHANGED <<op, mutex, countMem, objMem>>

(* The call is over, and its local variable with it, unless it is a        *)
(* release: the value it returns is yet to be tested.                      *)
Return(t) ==
    IF op[t] = "release"
      THEN pc' = [pc EXCEPT ![t] = "check"] /\ UNCHANGED <<op, local>>
      ELSE /\ pc' = [pc EXCEPT ![t] = "idle"]
           /\ op' = [op EXCEPT ![t] = "none"]
           /\ local' = [local EXCEPT ![t] = 0]

Unlock(t) ==
    /\ pc[t] = "unlock"
    /\ mutex' = Nobody
    /\ Return(t)
    /\ UNCHANGED <<owner, token, count, countMem, objMem>>

(* if ( ! FudgeRefCount_decrementAndReturn ( ... ) )                       *)
LastReference_TestsOne(t) == local[t] <= 1
LastReference(t) == local[t] = 0

Check(t) ==
    /\ pc[t] = "check"
    /\ pc' = [pc EXCEPT ![t] = IF LastReference(t) THEN "destroy_count"
                                                   ELSE "idle"]
    /\ op' = [op EXCEPT ![t] = "none"]
    /\ local' = [local EXCEPT ![t] = 0]
    /\ UNCHANGED <<owner, token, count, mutex, countMem, objMem>>

(* FudgeRefCount_destroy: the mutex is destroyed with its allocation.      *)
DestroyCount(t) ==
    /\ pc[t] = "destroy_count"
    /\ countMem' = "freed"
    /\ pc' = [pc EXCEPT ![t] = "destroy_object"]
    /\ UNCHANGED <<owner, op, token, local, count, mutex, objMem>>

DestroyObject(t) ==
    /\ pc[t] = "destroy_object"
    /\ objMem' = "freed"
    /\ pc' = [pc EXCEPT ![t] = "idle"]
    /\ UNCHANGED <<owner, op, token, local, count, mutex, countMem>>

(* The client hands one of its references to another thread.               *)
Pass(t, u) ==
    /\ pc[t] = "idle"
    /\ \E r \in OwnedBy(owner, t) : owner' = [owner EXCEPT ![r] = u]
    /\ UNCHANGED <<op, pc, token, local, count, mutex, countMem, objMem>>

Running(t) ==
    \/ Lock(t) \/ Load(t) \/ Store(t) \/ Unlock(t)
    \/ Check(t) \/ DestroyCount(t) \/ DestroyObject(t)

Next ==
    \/ \E t \in Threads : Create(t) \/ Running(t) \/ \E o \in Calls : Call(t, o)
    \/ \E t, u \in Threads : Pass(t, u)

(* A thread inside a call is scheduled until the call returns.  Nothing is *)
(* assumed about who gets a contended mutex: once no reference is left,    *)
(* no call is left that would contend for it.                              *)
Fairness == \A t \in Threads : WF_vars(Running(t))

Spec == Init /\ [][Next]_vars /\ Fairness

-----------------------------------------------------------------------------
InSection(t) == pc[t] \in {"load", "store", "unlock"}

(* Every variable has its type; count \in Nat is the assertion in          *)
(* FudgeRefCount_decrementAndReturn that the count was at least one.       *)
TypeOK ==
    /\ owner \in [Refs -> Owners]
    /\ op \in [Threads -> Calls \cup {"none"}]
    /\ pc \in [Threads -> {"idle", "lock", "load", "store", "unlock", "check",
                           "destroy_count", "destroy_object"}]
    /\ token \in [Threads -> Refs \cup {Nobody}]
    /\ local \in [Threads -> Nat]
    /\ count \in Nat
    /\ mutex \in Owners
    /\ countMem \in Memory
    /\ objMem \in Memory

(* No update of the counter is lost, although each is a read followed by a *)
(* write: the counter is always the number of references outstanding.      *)
CountIsReferences == count = Cardinality(Outstanding(owner))

(* The mutex outlives its users: whoever is locking, holding or unlocking  *)
(* it does so before the last release frees it, and it is not held when    *)
(* it is destroyed (pthread_mutex_destroy would report EBUSY, and          *)
(* FudgeMsg_release would return without destroying the message).          *)
MutexOutlivesUsers ==
    \A t \in Threads :
        /\ pc[t] = "lock" \/ InSection(t) => countMem = "live"
        /\ pc[t] = "destroy_count" => countMem = "live" /\ mutex = Nobody

(* The code implements the promise of SharedObject, its liveness included. *)
Object == INSTANCE SharedObject WITH object <- objMem

SharedObjectSpec == Object!Spec

(* Its safety part, which is the one that can be proved.                   *)
SharedObjectSafety == Object!Safety
=============================================================================
