----------------------- MODULE RefCountAtomicProofs -----------------------
(***************************************************************************)
(* For any finite number of threads and references: RefCountAtomic keeps   *)
(* its safety invariants and implements the safety part of SharedObject.   *)
(*                                                                         *)
(* CountIsReferences is not enough to be inductive for the other parts:    *)
(* after the decrement that returned 0, the number no longer says that a   *)
(* thread is on its way to free the memory.  Lifecycle adds that: a        *)
(* destroying thread excludes references and other destroying threads, and *)
(* fixes what has been freed so far.                                       *)
(***************************************************************************)
EXTENDS RefCountAtomic, Naturals, FiniteSetTheorems, TLAPS

(* There are finitely many references, so their number is a natural one.   *)
LEMMA OutstandingFinite ==
    ASSUME NEW own
    PROVE  /\ IsFiniteSet(Outstanding(own))
           /\ Cardinality(Outstanding(own)) \in Nat
<1>1. Outstanding(own) \subseteq Refs
  BY DEF Outstanding
<1>2. IsFiniteSet(Outstanding(own))
  BY <1>1, FS_Subset, RefTokensAssumption
<1> QED
  BY <1>2, FS_CardinalityType

(* Taking a token into use counts one more reference.                      *)
LEMMA TakeToken ==
    ASSUME NEW own \in [Refs -> Owners], NEW r \in Refs, NEW t \in Threads,
           own[r] = Nobody
    PROVE  LET new == [own EXCEPT ![r] = t]
           IN  /\ new \in [Refs -> Owners]
               /\ ~ Unreferenced(new)
               /\ Cardinality(Outstanding(new)) = Cardinality(Outstanding(own)) + 1
<1> DEFINE new == [own EXCEPT ![r] = t]
<1>1. new \in [Refs -> Owners]
  BY DEF Owners
<1>2. t # Nobody
  BY RefTokensAssumption
<1>3. Outstanding(new) = Outstanding(own) \cup {r} /\ r \notin Outstanding(own)
  BY <1>2 DEF Outstanding
<1>4. Cardinality(Outstanding(new)) = Cardinality(Outstanding(own)) + 1
  BY <1>3, FS_AddElement, OutstandingFinite
<1> QED
  BY <1>1, <1>3, <1>4 DEF Unreferenced

(* Giving a token back counts one less, and there was at least one.        *)
LEMMA DropToken ==
    ASSUME NEW own \in [Refs -> Owners], NEW r \in Refs, own[r] # Nobody
    PROVE  LET new == [own EXCEPT ![r] = Nobody]
           IN  /\ new \in [Refs -> Owners]
               /\ ~ Unreferenced(own)
               /\ Cardinality(Outstanding(own)) \in Nat \ {0}
               /\ Cardinality(Outstanding(new)) = Cardinality(Outstanding(own)) - 1
               /\ Cardinality(Outstanding(new)) = 0 => Unreferenced(new)
<1> DEFINE new == [own EXCEPT ![r] = Nobody]
<1>1. new \in [Refs -> Owners]
  BY DEF Owners
<1>2. Outstanding(new) = Outstanding(own) \ {r} /\ r \in Outstanding(own)
  BY DEF Outstanding
<1>3. Cardinality(Outstanding(new)) = Cardinality(Outstanding(own)) - 1
  BY <1>2, FS_RemoveElement, OutstandingFinite
<1>4. Cardinality(Outstanding(own)) # 0
  BY <1>2, FS_EmptySet, OutstandingFinite
<1>5. Cardinality(Outstanding(new)) = 0 => Unreferenced(new)
  BY FS_EmptySet, OutstandingFinite DEF Unreferenced
<1> QED
  BY <1>1, <1>2, <1>3, <1>4, <1>5, OutstandingFinite DEF Unreferenced

(* Handing a token on leaves the set of outstanding references as it is.   *)
LEMMA HandToken ==
    ASSUME NEW own \in [Refs -> Owners], NEW r \in Refs, NEW u \in Threads,
           own[r] # Nobody
    PROVE  LET new == [own EXCEPT ![r] = u]
           IN  /\ new \in [Refs -> Owners]
               /\ Outstanding(new) = Outstanding(own)
               /\ ~ Unreferenced(own)
<1> DEFINE new == [own EXCEPT ![r] = u]
<1>1. u # Nobody
  BY RefTokensAssumption
<1>2. new \in [Refs -> Owners]
  BY DEF Owners
<1>3. Outstanding(new) = Outstanding(own) /\ r \in Outstanding(own)
  BY <1>1 DEF Outstanding
<1> QED
  BY <1>2, <1>3 DEF Unreferenced

(* While some thread destroys, no reference is left.                       *)
DestroyerIsAlone ==
    \A t \in Threads : Destroying(t) =>
        /\ Unreferenced(owner)
        /\ \A u \in Threads : Destroying(u) => u = t

(* What a destroying thread has freed so far.                              *)
DestroyerProgress ==
    \A t \in Threads :
        /\ Destroying(t) => objMem = "live"
        /\ Destroying(t) /\ pc[t] # "destroy_object" => countMem = "live"

IInv ==
    /\ TypeOK
    /\ CountIsReferences
    /\ ReferencesPinMemory
    /\ DestroyerIsAlone
    /\ DestroyerProgress

-----------------------------------------------------------------------------
(* Nothing has been created: every token is unused and the count is 0.     *)
LEMMA InitIInv == Init => IInv
<1> SUFFICES ASSUME Init PROVE IInv
  OBVIOUS
<1> USE DEF Init
<1>1. TypeOK
  BY DEF TypeOK, Owners, Memory
<1>2. Outstanding(owner) = {}
  BY DEF Outstanding
<1>3. CountIsReferences /\ ReferencesPinMemory
  BY <1>2, FS_EmptySet DEF CountIsReferences, ReferencesPinMemory, Unreferenced
<1>4. DestroyerIsAlone /\ DestroyerProgress
  BY DEF DestroyerIsAlone, DestroyerProgress, Destroying
<1> QED
  BY <1>1, <1>3, <1>4 DEF IInv

(* Every step of every thread preserves the inductive invariant.           *)
LEMMA NextIInv == IInv /\ [Next]_vars => IInv'
<1> SUFFICES ASSUME IInv, [Next]_vars PROVE IInv'
  OBVIOUS
<1> USE DEF IInv
<1>1. ASSUME NEW t \in Threads, Create(t) PROVE IInv'
  <2>1. PICK r \in Refs : owner' = [owner EXCEPT ![r] = t]
    BY <1>1 DEF Create
  <2>2. Unreferenced(owner) /\ \A u \in Threads : ~ Destroying(u)
    BY <1>1 DEF Create, ReferencesPinMemory, DestroyerProgress
  <2>3. owner[r] = Nobody
    BY <2>2 DEF Unreferenced, Outstanding
  <2>4. /\ owner' \in [Refs -> Owners]
        /\ Cardinality(Outstanding(owner')) = Cardinality(Outstanding(owner)) + 1
    BY <2>1, <2>3, TakeToken DEF TypeOK
  <2>5. Cardinality(Outstanding(owner)) = 0
    BY <2>2, FS_EmptySet DEF Unreferenced
  <2>6. TypeOK'
    BY <1>1, <2>4 DEF Create, TypeOK, Memory, InitialCount
  <2>7. CountIsReferences'
    BY <1>1, <2>4, <2>5 DEF Create, CountIsReferences, InitialCount
  <2>8. ReferencesPinMemory'
    BY <1>1 DEF Create, ReferencesPinMemory
  <2>9. DestroyerIsAlone' /\ DestroyerProgress'
    BY <1>1, <2>2 DEF Create, DestroyerIsAlone, DestroyerProgress, Destroying
  <2> QED
    BY <2>6, <2>7, <2>8, <2>9
<1>2. ASSUME NEW t \in Threads, Retain(t) PROVE IInv'
  <2>1. PICK r \in Refs : owner[r] = Nobody /\ owner' = [owner EXCEPT ![r] = t]
    BY <1>2 DEF Retain
  <2>2. /\ owner' \in [Refs -> Owners]
        /\ Cardinality(Outstanding(owner')) = Cardinality(Outstanding(owner)) + 1
    BY <2>1, TakeToken DEF TypeOK
  <2>3. ~ Unreferenced(owner)
    BY <1>2, RefTokensAssumption DEF Retain, OwnedBy, Unreferenced, Outstanding
  <2>4. \A u \in Threads : ~ Destroying(u)
    BY <2>3 DEF DestroyerIsAlone
  <2>5. TypeOK'
    BY <1>2, <2>2 DEF Retain, TypeOK
  <2>6. CountIsReferences'
    BY <1>2, <2>2 DEF Retain, CountIsReferences
  <2>7. ReferencesPinMemory'
    BY <1>2, <2>3 DEF Retain, ReferencesPinMemory
  <2>8. DestroyerIsAlone' /\ DestroyerProgress'
    BY <1>2, <2>4 DEF Retain, DestroyerIsAlone, DestroyerProgress, Destroying
  <2> QED
    BY <2>5, <2>6, <2>7, <2>8
<1>3. ASSUME NEW t \in Threads, Decrement(t) PROVE IInv'
  <2>1. PICK r \in Refs : owner[r] # Nobody /\ owner' = [owner EXCEPT ![r] = Nobody]
    BY <1>3, RefTokensAssumption DEF Decrement, OwnedBy
  <2>2. /\ owner' \in [Refs -> Owners]
        /\ ~ Unreferenced(owner)
        /\ Cardinality(Outstanding(owner)) \in Nat \ {0}
        /\ Cardinality(Outstanding(owner')) = Cardinality(Outstanding(owner)) - 1
        /\ Cardinality(Outstanding(owner')) = 0 => Unreferenced(owner')
    BY <2>1, DropToken DEF TypeOK
  <2>3. \A u \in Threads : ~ Destroying(u)
    BY <2>2 DEF DestroyerIsAlone
  <2>4. objMem = "live" /\ countMem = "live"
    BY <2>2 DEF ReferencesPinMemory
  <2>5. count' = count - 1 /\ count' \in Nat
    BY <1>3, <2>2 DEF Decrement, CountIsReferences
  <2>6. TypeOK'
    BY <1>3, <2>2, <2>5 DEF Decrement, TypeOK
  <2>7. CountIsReferences'
    BY <2>2, <2>5 DEF CountIsReferences
  <2>8. ReferencesPinMemory'
    BY <1>3, <2>4 DEF Decrement, ReferencesPinMemory
  <2>9. \A u \in Threads : Destroying(u)' => u = t /\ count' = 0
    BY <1>3, <2>3 DEF Decrement, Destroying, TypeOK
  <2>10. DestroyerIsAlone'
    BY <2>2, <2>7, <2>9 DEF DestroyerIsAlone, CountIsReferences
  <2>11. DestroyerProgress'
    BY <1>3, <2>4 DEF Decrement, DestroyerProgress
  <2> QED
    BY <2>6, <2>7, <2>8, <2>10, <2>11
<1>4. ASSUME NEW t \in Threads, Check(t) PROVE IInv'
  <2>1. TypeOK' /\ CountIsReferences' /\ ReferencesPinMemory'
    BY <1>4 DEF Check, TypeOK, CountIsReferences, ReferencesPinMemory
  <2>2. \A u \in Threads : Destroying(u)' => Destroying(u)
    BY <1>4 DEF Check, Destroying, LastReference, TypeOK
  <2>3. DestroyerIsAlone'
    BY <1>4, <2>2 DEF Check, DestroyerIsAlone
  <2>4. DestroyerProgress'
    BY <1>4, <2>2 DEF Check, DestroyerProgress, Destroying, LastReference, TypeOK
  <2> QED
    BY <2>1, <2>3, <2>4
<1>5. ASSUME NEW t \in Threads, DestroyCount(t) PROVE IInv'
  <2>1. Destroying(t)
    BY <1>5 DEF DestroyCount, Destroying
  <2>2. Unreferenced(owner) /\ \A u \in Threads : Destroying(u) => u = t
    BY <2>1 DEF DestroyerIsAlone
  <2>3. TypeOK' /\ CountIsReferences'
    BY <1>5 DEF DestroyCount, TypeOK, CountIsReferences, Memory
  <2>4. ReferencesPinMemory'
    BY <1>5, <2>2 DEF DestroyCount, ReferencesPinMemory
  <2>5. \A u \in Threads : Destroying(u)' => u = t /\ pc'[u] = "destroy_object"
    BY <1>5, <2>2 DEF DestroyCount, Destroying, TypeOK
  <2>6. DestroyerIsAlone'
    BY <1>5, <2>2, <2>5 DEF DestroyCount, DestroyerIsAlone
  <2>7. DestroyerProgress'
    BY <1>5, <2>1, <2>5 DEF DestroyCount, DestroyerProgress
  <2> QED
    BY <2>3, <2>4, <2>6, <2>7
<1>6. ASSUME NEW t \in Threads, DestroyObject(t) PROVE IInv'
  <2>1. Destroying(t)
    BY <1>6 DEF DestroyObject, Destroying
  <2>2. Unreferenced(owner) /\ \A u \in Threads : Destroying(u) => u = t
    BY <2>1 DEF DestroyerIsAlone
  <2>3. TypeOK' /\ CountIsReferences'
    BY <1>6 DEF DestroyObject, TypeOK, CountIsReferences, Memory
  <2>4. ReferencesPinMemory'
    BY <1>6, <2>2 DEF DestroyObject, ReferencesPinMemory
  <2>5. \A u \in Threads : ~ Destroying(u)'
    BY <1>6, <2>2 DEF DestroyObject, Destroying, TypeOK
  <2>6. DestroyerIsAlone' /\ DestroyerProgress'
    BY <2>5 DEF DestroyerIsAlone, DestroyerProgress
  <2> QED
    BY <2>3, <2>4, <2>6
<1>7. ASSUME NEW t \in Threads, NEW u \in Threads, Pass(t, u) PROVE IInv'
  <2>1. PICK r \in Refs : owner[r] # Nobody /\ owner' = [owner EXCEPT ![r] = u]
    BY <1>7, RefTokensAssumption DEF Pass, OwnedBy
  <2>2. /\ owner' \in [Refs -> Owners]
        /\ Outstanding(owner') = Outstanding(owner)
    BY <2>1, HandToken DEF TypeOK
  <2>3. TypeOK' /\ CountIsReferences' /\ ReferencesPinMemory'
    BY <1>7, <2>2
    DEF Pass, TypeOK, CountIsReferences, ReferencesPinMemory, Unreferenced
  <2>4. DestroyerIsAlone' /\ DestroyerProgress'
    BY <1>7, <2>2
    DEF Pass, DestroyerIsAlone, DestroyerProgress, Destroying, Unreferenced
  <2> QED
    BY <2>3, <2>4
<1>8. CASE UNCHANGED vars
  BY <1>8 DEF vars, TypeOK, CountIsReferences, ReferencesPinMemory,
              DestroyerIsAlone, DestroyerProgress, Destroying, Unreferenced
<1> QED
  BY <1>1, <1>2, <1>3, <1>4, <1>5, <1>6, <1>7, <1>8 DEF Next, Running

(* The inductive invariant holds in every reachable state.                 *)
THEOREM Inductive == Spec => []IInv
BY InitIInv, NextIInv, PTL DEF Spec

-----------------------------------------------------------------------------
(* The variables keep their types; in particular the assertion             *)
(* decremented >= 0 of FudgeRefCount_decrementAndReturn never fires.       *)
THEOREM TypeCorrect == Spec => []TypeOK
<1>1. IInv => TypeOK
  BY DEF IInv
<1> QED
  BY <1>1, Inductive, PTL

(* The counter always equals the number of references outstanding.         *)
THEOREM CountCorrect == Spec => []CountIsReferences
<1>1. IInv => CountIsReferences
  BY DEF IInv
<1> QED
  BY <1>1, Inductive, PTL

(* No owner of a reference ever meets freed memory.                        *)
THEOREM MemoryPinned == Spec => []ReferencesPinMemory
<1>1. IInv => ReferencesPinMemory
  BY DEF IInv
<1> QED
  BY <1>1, Inductive, PTL

(* Racing releases destroy the object once.                                *)
THEOREM OneDestroyer == Spec => []DestroyedOnce
<1>1. IInv => DestroyedOnce
  BY DEF IInv, DestroyedOnce, DestroyerIsAlone, DestroyerProgress, Destroying
<1> QED
  BY <1>1, Inductive, PTL

-----------------------------------------------------------------------------
(* Every step of the code is a step of SharedObject, or one it cannot see: *)
(* the decrement is its Release, freeing the object its Reclaim.           *)
LEMMA StepRefines == IInv /\ [Next]_vars => [Object!Next]_(Object!vars)
<1> SUFFICES ASSUME IInv, [Next]_vars PROVE [Object!Next]_(Object!vars)
  OBVIOUS
<1> USE DEF Object!vars
<1>1. ASSUME NEW t \in Threads, Create(t) PROVE Object!Create(t)
  BY <1>1 DEF Create, Object!Create
<1>2. ASSUME NEW t \in Threads, Retain(t) PROVE Object!Retain(t)
  <2>1. objMem = "live"
    BY <1>2, RefTokensAssumption
    DEF IInv, ReferencesPinMemory, Retain, OwnedBy, Unreferenced, Outstanding
  <2> QED
    BY <1>2, <2>1 DEF Retain, OwnedBy, Object!Retain, Object!OwnedBy
<1>3. ASSUME NEW t \in Threads, Decrement(t) PROVE Object!Release(t)
  <2>1. objMem = "live"
    BY <1>3, RefTokensAssumption
    DEF IInv, ReferencesPinMemory, Decrement, OwnedBy, Unreferenced, Outstanding
  <2> QED
    BY <1>3, <2>1 DEF Decrement, OwnedBy, Object!Release, Object!OwnedBy
<1>4. ASSUME NEW t \in Threads, Check(t) \/ DestroyCount(t)
      PROVE  UNCHANGED <<owner, objMem>>
  BY <1>4 DEF Check, DestroyCount
<1>5. ASSUME NEW t \in Threads, DestroyObject(t) PROVE Object!Reclaim
  <2>1. Destroying(t)
    BY <1>5 DEF DestroyObject, Destroying
  <2>2. objMem = "live" /\ Unreferenced(owner)
    BY <2>1 DEF IInv, DestroyerIsAlone, DestroyerProgress
  <2> QED
    BY <1>5, <2>2 DEF DestroyObject, Unreferenced, Outstanding,
                      Object!Reclaim, Object!Unreferenced, Object!Outstanding
<1>6. ASSUME NEW t \in Threads, NEW u \in Threads, Pass(t, u) PROVE Object!Pass(t, u)
  BY <1>6 DEF Pass, OwnedBy, Object!Pass, Object!OwnedBy
<1>7. CASE UNCHANGED vars
  BY <1>7 DEF vars
<1> QED
  BY <1>1, <1>2, <1>3, <1>4, <1>5, <1>6, <1>7 DEF Next, Running, Object!Next

(* The atomic build implements SharedObject, its liveness apart.           *)
THEOREM ImplementsSharedObject == Spec => SharedObjectSafety
<1>1. Init => Object!Init
  BY DEF Init, Object!Init
<1> QED
  BY <1>1, StepRefines, Inductive, PTL DEF Spec, SharedObjectSafety, Object!Safety
=============================================================================
