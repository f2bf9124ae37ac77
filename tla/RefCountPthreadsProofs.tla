---------------------- MODULE RefCountPthreadsProofs ----------------------
(***************************************************************************)
(* For any finite number of references and any threads: RefCountPthreads   *)
(* keeps its safety invariants and implements the safety part of           *)
(* SharedObject.                                                           *)
(*                                                                         *)
(* The argument for the mutex is circular as it stands: the counter is     *)
(* right because the mutex exists, and the mutex exists because the        *)
(* counter is right.  The inductive invariant breaks the circle by saying  *)
(* who can still be on the way to the mutex: a thread before its store     *)
(* owns a reference (CallersOwn), and once a release has stored 0 there is *)
(* no reference and no other thread between lock and unlock                *)
(* (DestroyerIsAlone).                                                     *)
(***************************************************************************)
EXTENDS RefCountPthreads, Naturals, FiniteSetTheorems, TLAPS

(* There are finitely many references, so their number is a natural one.   *)
LEMMA OutstandingFinite ==
    ASSUME NEW own
    PROVE  /\ IsFiniteSet(Outstanding(own))
           /\ Cardinality(Outstanding(own)) \in Nat
<1>1. Outstanding(own) \subseteq Refs
  BY DEF Outstanding
<1>2. IsFiniteSet(Outstanding(own))
  BY <1>1, FS_Subset, RefTokensAssumption
<1> QED
  BY <1>2, FS_CardinalityType

(* Taking a token into use counts one more reference.                      *)
LEMMA TakeToken ==
    ASSUME NEW own \in [Refs -> Owners], NEW r \in Refs, NEW t \in Threads,
           own[r] = Nobody
    PROVE  LET new == [own EXCEPT ![r] = t]
           IN  /\ new \in [Refs -> Owners]
               /\ ~ Unreferenced(new)
               /\ Cardinality(Outstanding(new)) = Cardinality(Outstanding(own)) + 1
<1> DEFINE new == [own EXCEPT ![r] = t]
<1>1. new \in [Refs -> Owners]
  BY DEF Owners
<1>2. t # Nobody
  BY RefTokensAssumption
<1>3. Outstanding(new) = Outstanding(own) \cup {r} /\ r \notin Outstanding(own)
  BY <1>2 DEF Outstanding
<1>4. Cardinality(Outstanding(new)) = Cardinality(Outstanding(own)) + 1
  BY <1>3, FS_AddElement, OutstandingFinite
<1> QED
  BY <1>1, <1>3, <1>4 DEF Unreferenced

(* Giving a token back counts one less, and there was at least one.        *)
LEMMA DropToken ==
    ASSUME NEW own \in [Refs -> Owners], NEW r \in Refs, own[r] # Nobody
    PROVE  LET new == [own EXCEPT ![r] = Nobody]
           IN  /\ new \in [Refs -> Owners]
               /\ ~ Unreferenced(own)
               /\ Cardinality(Outstanding(own)) \in Nat \ {0}
               /\ Cardinality(Outstanding(new)) = Cardinality(Outstanding(own)) - 1
               /\ Cardinality(Outstanding(new)) = 0 => Unreferenced(new)
<1> DEFINE new == [own EXCEPT ![r] = Nobody]
<1>1. new \in [Refs -> Owners]
  BY DEF Owners
<1>2. Outstanding(new) = Outstanding(own) \ {r} /\ r \in Outstanding(own)
  BY DEF Outstanding
<1>3. Cardinality(Outstanding(new)) = Cardinality(Outstanding(own)) - 1
  BY <1>2, FS_RemoveElement, OutstandingFinite
<1>4. Cardinality(Outstanding(own)) # 0
  BY <1>2, FS_EmptySet, OutstandingFinite
<1>5. Cardinality(Outstanding(new)) = 0 => Unreferenced(new)
  BY FS_EmptySet, OutstandingFinite DEF Unreferenced
<1> QED
  BY <1>1, <1>2, <1>3, <1>4, <1>5, OutstandingFinite DEF Unreferenced

(* Handing a token on leaves the set of outstanding references as it is.   *)
LEMMA HandToken ==
    ASSUME NEW own \in [Refs -> Owners], NEW r \in Refs, NEW u \in Threads,
           own[r] # Nobody
    PROVE  LET new == [own EXCEPT ![r] = u]
           IN  /\ new \in [Refs -> Owners]
               /\ Outstanding(new) = Outstanding(own)
               /\ ~ Unreferenced(own)
<1> DEFINE new == [own EXCEPT ![r] = u]
<1>1. u # Nobody
  BY RefTokensAssumption
<1>2. new \in [Refs -> Owners]
  BY DEF Owners
<1>3. Outstanding(new) = Outstanding(own) /\ r \in Outstanding(own)
  BY <1>1 DEF Outstanding
<1> QED
  BY <1>2, <1>3 DEF Unreferenced

(* A call that has not yet updated the counter.                            *)
Pending(t) == pc[t] \in {"lock", "load", "store"}

(* A release that has stored 0 and has not returned.                       *)
Destroying(t) ==
    \/ pc[t] = "unlock" /\ op[t] = "release" /\ local[t] = 0
    \/ pc[t] = "check" /\ local[t] = 0
    \/ pc[t] \in {"destroy_count", "destroy_object"}

(* The mutex is held by the thread between lock and unlock.                *)
MutexExcludes == \A t \in Threads : InSection(t) <=> mutex = t

(* The value read is still the value of the counter when it is written.    *)
LoadedIsCurrent == \A t \in Threads : pc[t] = "store" => local[t] = count

(* What a pending call knows about its token, and that its caller owns a   *)
(* reference until the counter is updated.                                 *)
CallersOwn ==
    \A t \in Threads : Pending(t) =>
        /\ op[t] \in Calls
        /\ token[t] \in Refs
        /\ op[t] = "retain" => owner[token[t]] = Nobody
        /\ op[t] = "release" => owner[token[t]] = t
        /\ \E r \in Refs : owner[r] = t

(* Two pending retains bring different tokens into use.                    *)
TokensDiffer ==
    \A t, u \in Threads :
        /\ Pending(t) /\ Pending(u) /\ op[t] = "retain" /\ op[u] = "retain"
        /\ token[t] = token[u]
        => t = u

ReferencesPinMemory ==
    ~ Unreferenced(owner) => countMem = "live" /\ objMem = "live"

(* While some thread destroys, there is no reference and nobody else near  *)
(* the mutex.                                                              *)
DestroyerIsAlone ==
    \A t \in Threads : Destroying(t) =>
        /\ Unreferenced(owner)
        /\ \A u \in Threads \ {t} : ~ Destroying(u) /\ ~ InSection(u)

(* What has been freed so far.                                             *)
DestroyerProgress ==
    \A t \in Threads :
        /\ Destroying(t) => objMem = "live"
        /\ Destroying(t) /\ pc[t] # "destroy_object" => countMem = "live"
        /\ InSection(t) => countMem = "live"

IInv ==
    /\ TypeOK
    /\ MutexExcludes
    /\ LoadedIsCurrent
    /\ CallersOwn
    /\ TokensDiffer
    /\ CountIsReferences
    /\ ReferencesPinMemory
    /\ DestroyerIsAlone
    /\ DestroyerProgress

-----------------------------------------------------------------------------
(* Nothing has been created: no token is in use and the count is 0.        *)
LEMMA InitIInv == Init => IInv
<1> SUFFICES ASSUME Init PROVE IInv
  OBVIOUS
<1> USE DEF Init
<1>1. TypeOK
  BY DEF TypeOK, Owners, Memory
<1>2. Outstanding(owner) = {}
  BY DEF Outstanding
<1>3. CountIsReferences /\ ReferencesPinMemory
  BY <1>2, FS_EmptySet DEF CountIsReferences, ReferencesPinMemory, Unreferenced
<1>4. MutexExcludes /\ LoadedIsCurrent /\ CallersOwn /\ TokensDiffer
  BY RefTokensAssumption
  DEF MutexExcludes, LoadedIsCurrent, CallersOwn, TokensDiffer, InSection, Pending
<1>5. DestroyerIsAlone /\ DestroyerProgress
  BY DEF DestroyerIsAlone, DestroyerProgress, Destroying, InSection
<1> QED
  BY <1>1, <1>3, <1>4, <1>5 DEF IInv

(* A thread that still owns a reference excludes every destroyer.          *)
LEMMA OwnerExcludesDestroyer ==
    ASSUME IInv, NEW r \in Refs, owner[r] # Nobody
    PROVE  /\ ~ Unreferenced(owner)
           /\ countMem = "live" /\ objMem = "live"
           /\ \A t \in Threads : ~ Destroying(t)
<1>1. ~ Unreferenced(owner)
  BY DEF Unreferenced, Outstanding
<1> QED
  BY <1>1 DEF IInv, ReferencesPinMemory, DestroyerIsAlone

(* A pending call therefore excludes every destroyer too.                  *)
LEMMA PendingExcludesDestroyer ==
    ASSUME IInv, NEW t \in Threads, Pending(t)
    PROVE  /\ ~ Unreferenced(owner)
           /\ countMem = "live" /\ objMem = "live"
           /\ \A u \in Threads : ~ Destroying(u)
<1>1. PICK r \in Refs : owner[r] = t
  BY DEF IInv, CallersOwn
<1>2. owner[r] # Nobody
  BY <1>1, RefTokensAssumption
<1> QED
  BY <1>2, OwnerExcludesDestroyer

(* FudgeRefCount_create.                                                   *)
LEMMA CreateStep ==
    ASSUME IInv, NEW t \in Threads, Create(t)
    PROVE  IInv'
<1> USE DEF IInv
<1>1. PICK r \in Refs : owner' = [owner EXCEPT ![r] = t]
  BY DEF Create
<1>2. Unreferenced(owner) /\ \A u \in Threads : ~ Destroying(u)
  BY DEF Create, ReferencesPinMemory, DestroyerProgress
<1>3. owner[r] = Nobody
  BY <1>2 DEF Unreferenced, Outstanding
<1>4. /\ owner' \in [Refs -> Owners]
      /\ Cardinality(Outstanding(owner')) = Cardinality(Outstanding(owner)) + 1
  BY <1>1, <1>3, TakeToken DEF TypeOK
<1>5. Cardinality(Outstanding(owner)) = 0
  BY <1>2, FS_EmptySet DEF Unreferenced
<1>6. \A u \in Threads : ~ Pending(u)
  BY <1>2, PendingExcludesDestroyer
<1>7. TypeOK'
  BY <1>4 DEF Create, TypeOK, Memory
<1>8. CountIsReferences' /\ ReferencesPinMemory'
  BY <1>4, <1>5 DEF Create, CountIsReferences, ReferencesPinMemory
<1>9. MutexExcludes' /\ LoadedIsCurrent'
  BY <1>6 DEF Create, MutexExcludes, LoadedIsCurrent, InSection, Pending
<1>10. CallersOwn' /\ TokensDiffer'
  BY <1>6 DEF Create, CallersOwn, TokensDiffer, Pending
<1>11. DestroyerIsAlone' /\ DestroyerProgress'
  BY <1>2 DEF Create, DestroyerIsAlone, DestroyerProgress, Destroying, InSection
<1> QED
  BY <1>7, <1>8, <1>9, <1>10, <1>11

(* Entering retain or release: the token chosen is the caller's to release *)
(* or unused and nobody else's choice.                                     *)
LEMMA CallStep ==
    ASSUME IInv, NEW t \in Threads, NEW o \in Calls, Call(t, o)
    PROVE  IInv'
<1> USE DEF IInv
<1>1. PICK r \in Refs :
         /\ o = "retain" => owner[r] = Nobody /\ r \notin Reserved
         /\ o = "release" => owner[r] = t
         /\ token' = [token EXCEPT ![t] = r]
  BY DEF Call
<1>2. PICK q \in Refs : owner[q] = t
  BY DEF Call, OwnedBy
<1>3. /\ pc[t] = "idle"
      /\ op' = [op EXCEPT ![t] = o]
      /\ pc' = [pc EXCEPT ![t] = "lock"]
      /\ UNCHANGED <<owner, local, count, mutex, countMem, objMem>>
  BY DEF Call
<1>4. TypeOK'
  BY <1>1, <1>3 DEF TypeOK
<1>5. CountIsReferences' /\ ReferencesPinMemory'
  BY <1>3 DEF CountIsReferences, ReferencesPinMemory
<1>6. MutexExcludes' /\ LoadedIsCurrent'
  BY <1>3 DEF MutexExcludes, LoadedIsCurrent, InSection, TypeOK
<1>7. CallersOwn'
  BY <1>1, <1>2, <1>3 DEF CallersOwn, Pending, TypeOK
<1>8. TokensDiffer'
  <2>1. \A u \in Threads \ {t} :
           o = "retain" /\ Pending(u) /\ op[u] = "retain" => token[u] # r
    BY <1>1 DEF Reserved
  <2> QED
    BY <1>1, <1>3, <2>1 DEF TokensDiffer, Pending, TypeOK
<1>9. \A u \in Threads : (Destroying(u)' <=> Destroying(u)) /\ (InSection(u)' <=> InSection(u))
  BY <1>3 DEF Destroying, InSection, TypeOK
<1>10. \A u \in Threads : Destroying(u) => u # t
  BY <1>3 DEF Destroying
<1>11. DestroyerIsAlone' /\ DestroyerProgress'
  BY <1>3, <1>9, <1>10 DEF DestroyerIsAlone, DestroyerProgress
<1> QED
  BY <1>4, <1>5, <1>6, <1>7, <1>8, <1>11

(* pthread_mutex_lock: the caller owns a reference, so nobody destroys.    *)
LEMMA LockStep ==
    ASSUME IInv, NEW t \in Threads, Lock(t)
    PROVE  IInv'
<1> USE DEF IInv
<1>1. Pending(t)
  BY DEF Lock, Pending
<1>2. countMem = "live" /\ \A u \in Threads : ~ Destroying(u)
  BY <1>1, PendingExcludesDestroyer
<1>3. TypeOK'
  BY DEF Lock, TypeOK, Owners
<1>4. CountIsReferences' /\ ReferencesPinMemory'
  BY DEF Lock, CountIsReferences, ReferencesPinMemory
<1>5. MutexExcludes' /\ LoadedIsCurrent'
  BY RefTokensAssumption DEF Lock, MutexExcludes, LoadedIsCurrent, InSection, TypeOK
<1>6. CallersOwn' /\ TokensDiffer'
  BY DEF Lock, CallersOwn, TokensDiffer, Pending, TypeOK
<1>7. DestroyerIsAlone' /\ DestroyerProgress'
  BY <1>2 DEF Lock, DestroyerIsAlone, DestroyerProgress, Destroying, InSection, TypeOK
<1> QED
  BY <1>3, <1>4, <1>5, <1>6, <1>7

(* Reading the counter under the mutex.                                    *)
LEMMA LoadStep ==
    ASSUME IInv, NEW t \in Threads, Load(t)
    PROVE  IInv'
<1> USE DEF IInv
<1>1. Pending(t)
  BY DEF Load, Pending
<1>2. countMem = "live" /\ \A u \in Threads : ~ Destroying(u)
  BY <1>1, PendingExcludesDestroyer
<1>3. TypeOK'
  BY DEF Load, TypeOK
<1>4. CountIsReferences' /\ ReferencesPinMemory'
  BY DEF Load, CountIsReferences, ReferencesPinMemory
<1>5. MutexExcludes' /\ LoadedIsCurrent'
  BY DEF Load, MutexExcludes, LoadedIsCurrent, InSection, TypeOK
<1>6. CallersOwn' /\ TokensDiffer'
  BY DEF Load, CallersOwn, TokensDiffer, Pending, TypeOK
<1>7. DestroyerIsAlone' /\ DestroyerProgress'
  BY <1>2 DEF Load, DestroyerIsAlone, DestroyerProgress, Destroying, InSection, TypeOK
<1> QED
  BY <1>3, <1>4, <1>5, <1>6, <1>7

(* The store of a retain.                                                  *)
LEMMA StoreRetainStep ==
    ASSUME IInv, NEW t \in Threads, Store(t), op[t] = "retain"
    PROVE  IInv'
<1> USE DEF IInv
<1>1. /\ pc[t] = "store" /\ Pending(t) /\ InSection(t)
      /\ count' = local[t] + 1
      /\ local' = [local EXCEPT ![t] = local[t] + 1]
      /\ owner' = [owner EXCEPT ![token[t]] = t]
      /\ token' = [token EXCEPT ![t] = Nobody]
      /\ pc' = [pc EXCEPT ![t] = "unlock"]
      /\ UNCHANGED <<op, mutex, countMem, objMem>>
  BY DEF Store, Updated, NextHolder, Pending, InSection
<1>2. ~ Unreferenced(owner) /\ countMem = "live" /\ objMem = "live"
      /\ \A u \in Threads : ~ Destroying(u)
  BY <1>1, PendingExcludesDestroyer
<1>3. local[t] = count /\ token[t] \in Refs /\ owner[token[t]] = Nobody
  BY <1>1 DEF LoadedIsCurrent, CallersOwn
<1>4. \A u \in Threads \ {t} : ~ InSection(u)
  BY <1>1 DEF MutexExcludes
<1>5. /\ owner' \in [Refs -> Owners]
      /\ Cardinality(Outstanding(owner')) = Cardinality(Outstanding(owner)) + 1
  BY <1>1, <1>3, TakeToken DEF TypeOK
<1>6. TypeOK'
  BY <1>1, <1>5 DEF TypeOK
<1>7. CountIsReferences' /\ ReferencesPinMemory'
  BY <1>1, <1>2, <1>3, <1>5 DEF CountIsReferences, ReferencesPinMemory
<1>8. MutexExcludes' /\ LoadedIsCurrent'
  BY <1>1, <1>4 DEF MutexExcludes, LoadedIsCurrent, InSection, TypeOK
<1>9. \A u \in Threads : Pending(u)' => u # t /\ Pending(u) /\ token'[u] = token[u]
  BY <1>1 DEF Pending, TypeOK
<1>10. TokensDiffer'
  BY <1>1, <1>9 DEF TokensDiffer
<1>11. CallersOwn'
  <2>1. SUFFICES ASSUME NEW u \in Threads, Pending(u)'
                 PROVE  /\ op[u] \in Calls
                        /\ token[u] \in Refs
                        /\ op[u] = "retain" => owner'[token[u]] = Nobody
                        /\ op[u] = "release" => owner'[token[u]] = u
                        /\ \E r \in Refs : owner'[r] = u
    BY <1>1, <1>9 DEF CallersOwn
  <2>2. u # t /\ Pending(u) /\ u # Nobody
    BY <1>9, <2>1, RefTokensAssumption
  <2>3. token[u] # token[t]
    BY <1>1, <1>3, <2>2 DEF TokensDiffer, CallersOwn, Calls
  <2>4. PICK r \in Refs : owner[r] = u
    BY <2>2 DEF CallersOwn
  <2>5. owner'[r] = u
    BY <1>1, <1>3, <2>2, <2>4 DEF TypeOK
  <2> QED
    BY <1>1, <1>3, <2>2, <2>3, <2>5 DEF CallersOwn, TypeOK
<1>12. DestroyerIsAlone' /\ DestroyerProgress'
  BY <1>1, <1>2, <1>4
  DEF DestroyerIsAlone, DestroyerProgress, Destroying, InSection, TypeOK
<1> QED
  BY <1>6, <1>7, <1>8, <1>10, <1>11, <1>12

(* The store of a release: if it writes 0, its thread becomes the only     *)
(* destroyer.                                                              *)
LEMMA StoreReleaseStep ==
    ASSUME IInv, NEW t \in Threads, Store(t), op[t] = "release"
    PROVE  IInv'
<1> USE DEF IInv
<1>1. /\ pc[t] = "store" /\ Pending(t) /\ InSection(t)
      /\ count' = local[t] - 1
      /\ local' = [local EXCEPT ![t] = local[t] - 1]
      /\ owner' = [owner EXCEPT ![token[t]] = Nobody]
      /\ token' = [token EXCEPT ![t] = Nobody]
      /\ pc' = [pc EXCEPT ![t] = "unlock"]
      /\ UNCHANGED <<op, mutex, countMem, objMem>>
  BY DEF Store, Updated, NextHolder, Pending, InSection
<1>2. ~ Unreferenced(owner) /\ countMem = "live" /\ objMem = "live"
      /\ \A u \in Threads : ~ Destroying(u)
  BY <1>1, PendingExcludesDestroyer
<1>3. /\ local[t] = count /\ token[t] \in Refs
      /\ owner[token[t]] = t /\ owner[token[t]] # Nobody
  BY <1>1, RefTokensAssumption DEF LoadedIsCurrent, CallersOwn
<1>4. \A u \in Threads \ {t} : ~ InSection(u)
  BY <1>1 DEF MutexExcludes
<1>5. /\ owner' \in [Refs -> Owners]
      /\ Cardinality(Outstanding(owner)) \in Nat \ {0}
      /\ Cardinality(Outstanding(owner')) = Cardinality(Outstanding(owner)) - 1
      /\ Cardinality(Outstanding(owner')) = 0 => Unreferenced(owner')
  BY <1>1, <1>3, DropToken DEF TypeOK
<1>6. count' = count - 1 /\ count' \in Nat
  BY <1>1, <1>3, <1>5 DEF CountIsReferences
<1>7. TypeOK'
  BY <1>1, <1>3, <1>5, <1>6 DEF TypeOK
<1>8. CountIsReferences' /\ ReferencesPinMemory'
  BY <1>1, <1>2, <1>5, <1>6 DEF CountIsReferences, ReferencesPinMemory
<1>9. MutexExcludes' /\ LoadedIsCurrent'
  BY <1>1, <1>4 DEF MutexExcludes, LoadedIsCurrent, InSection, TypeOK
<1>10. \A u \in Threads : Pending(u)' => u # t /\ Pending(u) /\ token'[u] = token[u]
  BY <1>1 DEF Pending, TypeOK
<1>11. TokensDiffer'
  BY <1>1, <1>10 DEF TokensDiffer
<1>12. CallersOwn'
  <2>1. SUFFICES ASSUME NEW u \in Threads, Pending(u)'
                 PROVE  /\ op[u] \in Calls
                        /\ token[u] \in Refs
                        /\ op[u] = "retain" => owner'[token[u]] = Nobody
                        /\ op[u] = "release" => owner'[token[u]] = u
                        /\ \E r \in Refs : owner'[r] = u
    BY <1>1, <1>10 DEF CallersOwn
  <2>2. u # t /\ Pending(u)
    BY <1>10, <2>1
  <2>3. token[u] # token[t]
    BY <1>3, <2>2 DEF CallersOwn, Calls
  <2>4. PICK r \in Refs : owner[r] = u
    BY <2>2 DEF CallersOwn
  <2>5. owner'[r] = u
    BY <1>1, <1>3, <2>2, <2>4 DEF TypeOK
  <2> QED
    BY <1>1, <1>3, <2>2, <2>3, <2>5 DEF CallersOwn, TypeOK
<1>13. \A u \in Threads : Destroying(u)' => u = t /\ count' = 0
  BY <1>1, <1>2, <1>3, <1>6 DEF Destroying, TypeOK
<1>14. \A u \in Threads \ {t} : ~ InSection(u)'
  BY <1>1, <1>4 DEF InSection, TypeOK
<1>15. DestroyerIsAlone'
  BY <1>5, <1>8, <1>13, <1>14 DEF DestroyerIsAlone, CountIsReferences
<1>16. DestroyerProgress'
  BY <1>1, <1>2 DEF DestroyerProgress
<1> QED
  BY <1>7, <1>8, <1>9, <1>11, <1>12, <1>15, <1>16

(* pthread_mutex_unlock and the return from the call.                      *)
LEMMA UnlockStep ==
    ASSUME IInv, NEW t \in Threads, Unlock(t)
    PROVE  IInv'
<1> USE DEF IInv
<1>1. /\ pc[t] = "unlock" /\ mutex' = Nobody
      /\ pc' = [pc EXCEPT ![t] = IF op[t] = "release" THEN "check" ELSE "idle"]
      /\ op' \in [Threads -> Calls \cup {"none"}]
      /\ local' \in [Threads -> Nat]
      /\ \A u \in Threads : u # t \/ op[t] = "release"
                            => op'[u] = op[u] /\ local'[u] = local[u]
      /\ UNCHANGED <<owner, token, count, countMem, objMem>>
  BY DEF Unlock, Return, TypeOK
<1>2. InSection(t) /\ mutex = t
  BY <1>1 DEF InSection, MutexExcludes
<1>3. \A u \in Threads \ {t} : ~ InSection(u)
  BY <1>2 DEF MutexExcludes
<1>4. TypeOK'
  BY <1>1 DEF TypeOK, Owners
<1>5. CountIsReferences' /\ ReferencesPinMemory'
  BY <1>1 DEF CountIsReferences, ReferencesPinMemory
<1>6. \A u \in Threads : ~ InSection(u)'
  BY <1>1, <1>3 DEF InSection, TypeOK
<1>7. MutexExcludes' /\ LoadedIsCurrent'
  BY <1>1, <1>6, RefTokensAssumption DEF MutexExcludes, LoadedIsCurrent, InSection
<1>8. \A u \in Threads : Pending(u)' => u # t /\ Pending(u)
  BY <1>1 DEF Pending, TypeOK
<1>9. CallersOwn' /\ TokensDiffer'
  BY <1>1, <1>8 DEF CallersOwn, TokensDiffer
<1>10. \A u \in Threads : Destroying(u)' => Destroying(u)
  BY <1>1 DEF Destroying, TypeOK
<1>11. DestroyerIsAlone'
  BY <1>1, <1>6, <1>10 DEF DestroyerIsAlone
<1>12. DestroyerProgress'
  BY <1>1, <1>6, <1>10 DEF DestroyerProgress, Destroying, TypeOK
<1> QED
  BY <1>4, <1>5, <1>7, <1>9, <1>11, <1>12

(* Testing the value the decrement returned.                               *)
LEMMA CheckStep ==
    ASSUME IInv, NEW t \in Threads, Check(t)
    PROVE  IInv'
<1> USE DEF IInv
<1>1. TypeOK'
  BY DEF Check, TypeOK
<1>2. CountIsReferences' /\ ReferencesPinMemory'
  BY DEF Check, CountIsReferences, ReferencesPinMemory
<1>3. \A u \in Threads : /\ InSection(u)' <=> InSection(u)
                         /\ Pending(u)' => u # t /\ Pending(u)
                         /\ Destroying(u)' => Destroying(u)
  BY DEF Check, InSection, Pending, Destroying, LastReference, TypeOK
<1>4. MutexExcludes' /\ LoadedIsCurrent'
  BY <1>3 DEF Check, MutexExcludes, LoadedIsCurrent, TypeOK
<1>5. CallersOwn' /\ TokensDiffer'
  BY <1>3 DEF Check, CallersOwn, TokensDiffer, TypeOK
<1>6. DestroyerIsAlone'
  BY <1>3 DEF Check, DestroyerIsAlone
<1>7. DestroyerProgress'
  BY <1>3 DEF Check, DestroyerProgress, Destroying, TypeOK
<1> QED
  BY <1>1, <1>2, <1>4, <1>5, <1>6, <1>7

(* FudgeRefCount_destroy: the thread is alone, so nobody misses the mutex. *)
LEMMA DestroyCountStep ==
    ASSUME IInv, NEW t \in Threads, DestroyCount(t)
    PROVE  IInv'
<1> USE DEF IInv
<1>1. Destroying(t) /\ ~ InSection(t)
  BY DEF DestroyCount, Destroying, InSection
<1>2. /\ Unreferenced(owner)
      /\ \A u \in Threads : u # t => ~ Destroying(u)
      /\ \A u \in Threads : ~ InSection(u) /\ ~ Pending(u)
  BY <1>1, PendingExcludesDestroyer DEF DestroyerIsAlone
<1>3. TypeOK'
  BY DEF DestroyCount, TypeOK, Memory
<1>4. CountIsReferences' /\ ReferencesPinMemory'
  BY <1>2 DEF DestroyCount, CountIsReferences, ReferencesPinMemory
<1>5. \A u \in Threads : /\ ~ InSection(u)' /\ ~ Pending(u)'
                         /\ Destroying(u)' => u = t /\ pc'[u] = "destroy_object"
  BY <1>2 DEF DestroyCount, InSection, Pending, Destroying, TypeOK
<1>6. MutexExcludes' /\ LoadedIsCurrent'
  BY <1>2, <1>5 DEF DestroyCount, MutexExcludes, LoadedIsCurrent, InSection
<1>7. CallersOwn' /\ TokensDiffer'
  BY <1>5 DEF CallersOwn, TokensDiffer
<1>8. DestroyerIsAlone'
  BY <1>2, <1>5 DEF DestroyCount, DestroyerIsAlone
<1>9. DestroyerProgress'
  BY <1>1, <1>5 DEF DestroyCount, DestroyerProgress
<1> QED
  BY <1>3, <1>4, <1>6, <1>7, <1>8, <1>9

(* Destroying the object.                                                  *)
LEMMA DestroyObjectStep ==
    ASSUME IInv, NEW t \in Threads, DestroyObject(t)
    PROVE  IInv'
<1> USE DEF IInv
<1>1. Destroying(t) /\ ~ InSection(t)
  BY DEF DestroyObject, Destroying, InSection
<1>2. /\ Unreferenced(owner)
      /\ \A u \in Threads : u # t => ~ Destroying(u)
      /\ \A u \in Threads : ~ InSection(u) /\ ~ Pending(u)
  BY <1>1, PendingExcludesDestroyer DEF DestroyerIsAlone
<1>3. TypeOK'
  BY DEF DestroyObject, TypeOK, Memory
<1>4. CountIsReferences' /\ ReferencesPinMemory'
  BY <1>2 DEF DestroyObject, CountIsReferences, ReferencesPinMemory
<1>5. \A u \in Threads : ~ InSection(u)' /\ ~ Pending(u)' /\ ~ Destroying(u)'
  BY <1>2 DEF DestroyObject, InSection, Pending, Destroying, TypeOK
<1>6. MutexExcludes' /\ LoadedIsCurrent'
  BY <1>2, <1>5 DEF DestroyObject, MutexExcludes, LoadedIsCurrent, InSection
<1>7. CallersOwn' /\ TokensDiffer'
  BY <1>5 DEF CallersOwn, TokensDiffer
<1>8. DestroyerIsAlone' /\ DestroyerProgress'
  BY <1>5 DEF DestroyerIsAlone, DestroyerProgress
<1> QED
  BY <1>3, <1>4, <1>6, <1>7, <1>8

(* Handing a reference on: the thread is in no call, so no call depends on *)
(* the reference.                                                          *)
LEMMA PassStep ==
    ASSUME IInv, NEW t \in Threads, NEW u \in Threads, Pass(t, u)
    PROVE  IInv'
<1> USE DEF IInv
<1>1. PICK r \in Refs : /\ owner[r] = t /\ owner[r] # Nobody
                        /\ owner' = [owner EXCEPT ![r] = u]
  BY RefTokensAssumption DEF Pass, OwnedBy
<1>2. /\ owner' \in [Refs -> Owners]
      /\ Outstanding(owner') = Outstanding(owner)
  BY <1>1, HandToken DEF TypeOK
<1>3. pc[t] = "idle" /\ UNCHANGED <<op, pc, token, local, count, mutex, countMem, objMem>>
  BY DEF Pass
<1>4. TypeOK' /\ CountIsReferences' /\ ReferencesPinMemory'
  BY <1>2, <1>3 DEF TypeOK, CountIsReferences, ReferencesPinMemory, Unreferenced
<1>5. MutexExcludes' /\ LoadedIsCurrent' /\ TokensDiffer'
  BY <1>3 DEF MutexExcludes, LoadedIsCurrent, TokensDiffer, InSection, Pending
<1>6. CallersOwn'
  <2>1. SUFFICES ASSUME NEW v \in Threads, Pending(v)
                 PROVE  /\ op[v] = "retain" => owner'[token[v]] = Nobody
                        /\ op[v] = "release" => owner'[token[v]] = v
                        /\ \E q \in Refs : owner'[q] = v
    BY <1>3 DEF CallersOwn, Pending
  <2>2. v # t /\ token[v] \in Refs
    BY <1>3, <2>1 DEF Pending, CallersOwn
  <2>3. \A q \in Refs : owner[q] \in {v, Nobody} => owner'[q] = owner[q]
    BY <1>1, <2>2 DEF TypeOK
  <2> QED
    BY <2>1, <2>2, <2>3 DEF CallersOwn
<1>7. DestroyerIsAlone' /\ DestroyerProgress'
  BY <1>2, <1>3
  DEF DestroyerIsAlone, DestroyerProgress, Destroying, InSection, Unreferenced
<1> QED
  BY <1>4, <1>5, <1>6, <1>7

(* Every step of every thread preserves the inductive invariant.           *)
LEMMA NextIInv == IInv /\ [Next]_vars => IInv'
<1> SUFFICES ASSUME IInv, [Next]_vars PROVE IInv'
  OBVIOUS
<1>1. ASSUME NEW t \in Threads, Store(t) PROVE IInv'
  <2>1. op[t] \in Calls
    BY <1>1 DEF Store, IInv, CallersOwn, Pending
  <2> QED
    BY <1>1, <2>1, StoreRetainStep, StoreReleaseStep DEF Calls
<1>2. CASE UNCHANGED vars
  BY <1>2 DEF vars, IInv, TypeOK, CountIsReferences, ReferencesPinMemory,
              MutexExcludes, LoadedIsCurrent, CallersOwn, TokensDiffer,
              DestroyerIsAlone, DestroyerProgress, Destroying, InSection,
              Pending, Unreferenced
<1> QED
  BY <1>1, <1>2, CreateStep, CallStep, LockStep, LoadStep, UnlockStep, CheckStep,
     DestroyCountStep, DestroyObjectStep, PassStep DEF Next, Running

(* The inductive invariant holds in every reachable state.                 *)
THEOREM Inductive == Spec => []IInv
BY InitIInv, NextIInv, PTL DEF Spec

-----------------------------------------------------------------------------
(* The variables keep their types; in particular the assertion             *)
(* refcount->count >= 1 of FudgeRefCount_decrementAndReturn never fires.   *)
THEOREM TypeCorrect == Spec => []TypeOK
<1>1. IInv => TypeOK
  BY DEF IInv
<1> QED
  BY <1>1, Inductive, PTL

(* No update of the counter is lost.                                       *)
THEOREM CountCorrect == Spec => []CountIsReferences
<1>1. IInv => CountIsReferences
  BY DEF IInv
<1> QED
  BY <1>1, Inductive, PTL

(* The mutex is destroyed after its last use, and not while it is held.    *)
THEOREM MutexLifetime == Spec => []MutexOutlivesUsers
<1>1. IInv => MutexOutlivesUsers
  <2> SUFFICES ASSUME IInv, NEW t \in Threads
               PROVE  /\ pc[t] = "lock" \/ InSection(t) => countMem = "live"
                      /\ pc[t] = "destroy_count" => countMem = "live" /\ mutex = Nobody
    BY DEF MutexOutlivesUsers
  <2>1. pc[t] = "lock" => countMem = "live"
    BY PendingExcludesDestroyer DEF Pending
  <2>2. InSection(t) => countMem = "live"
    BY DEF IInv, DestroyerProgress
  <2>3. ASSUME pc[t] = "destroy_count" PROVE countMem = "live" /\ mutex = Nobody
    <3>1. Destroying(t) /\ ~ InSection(t)
      BY <2>3 DEF Destroying, InSection
    <3>2. \A u \in Threads : ~ InSection(u)
      BY <3>1 DEF IInv, DestroyerIsAlone
    <3> QED
      BY <2>3, <3>1, <3>2 DEF IInv, DestroyerProgress, MutexExcludes, TypeOK, Owners
  <2> QED
    BY <2>1, <2>2, <2>3
<1> QED
  BY <1>1, Inductive, PTL

-----------------------------------------------------------------------------
(* Every step of the code is a step of SharedObject, or one it cannot see: *)
(* the reference changes hands at the store.                               *)
LEMMA StepRefines == IInv /\ [Next]_vars => [Object!Next]_(Object!vars)
<1> SUFFICES ASSUME IInv, [Next]_vars PROVE [Object!Next]_(Object!vars)
  OBVIOUS
<1> USE DEF Object!vars
<1>1. ASSUME NEW t \in Threads, Create(t) PROVE Object!Create(t)
  BY <1>1 DEF Create, Object!Create
<1>2. ASSUME NEW t \in Threads, Store(t) PROVE Object!Retain(t) \/ Object!Release(t)
  <2>1. Pending(t)
    BY <1>2 DEF Store, Pending
  <2>2. objMem = "live"
    BY <2>1, PendingExcludesDestroyer
  <2>3. PICK r \in Refs : owner[r] = t
    BY <2>1 DEF IInv, CallersOwn
  <2>4. /\ op[t] \in Calls /\ token[t] \in Refs
        /\ op[t] = "retain" => owner[token[t]] = Nobody
        /\ op[t] = "release" => owner[token[t]] = t
    BY <2>1 DEF IInv, CallersOwn
  <2>5. CASE op[t] = "retain"
    BY <1>2, <2>2, <2>3, <2>4, <2>5 DEF Store, NextHolder, Object!Retain, Object!OwnedBy
  <2>6. CASE op[t] = "release"
    BY <1>2, <2>2, <2>4, <2>6 DEF Store, NextHolder, Object!Release, Object!OwnedBy
  <2> QED
    BY <2>4, <2>5, <2>6 DEF Calls
<1>3. ASSUME NEW t \in Threads,
             \/ Lock(t) \/ Load(t) \/ Unlock(t) \/ Check(t) \/ DestroyCount(t)
             \/ \E o \in Calls : Call(t, o)
      PROVE  UNCHANGED <<owner, objMem>>
  BY <1>3 DEF Lock, Load, Unlock, Check, DestroyCount, Call
<1>4. ASSUME NEW t \in Threads, DestroyObject(t) PROVE Object!Reclaim
  <2>1. Destroying(t)
    BY <1>4 DEF DestroyObject, Destroying
  <2>2. objMem = "live" /\ Unreferenced(owner)
    BY <2>1 DEF IInv, DestroyerIsAlone, DestroyerProgress
  <2> QED
    BY <1>4, <2>2 DEF DestroyObject, Unreferenced, Outstanding,
                      Object!Reclaim, Object!Unreferenced, Object!Outstanding
<1>5. ASSUME NEW t \in Threads, NEW u \in Threads, Pass(t, u) PROVE Object!Pass(t, u)
  BY <1>5 DEF Pass, OwnedBy, Object!Pass, Object!OwnedBy
<1>6. CASE UNCHANGED vars
  BY <1>6 DEF vars
<1> QED
  BY <1>1, <1>2, <1>3, <1>4, <1>5, <1>6 DEF Next, Running, Object!Next

(* The mutex build implements SharedObject, its liveness apart.            *)
THEOREM ImplementsSharedObject == Spec => SharedObjectSafety
<1>1. Init => Object!Init
  BY DEF Init, Object!Init
<1> QED
  BY <1>1, StepRefines, Inductive, PTL DEF Spec, SharedObjectSafety, Object!Safety
=============================================================================
