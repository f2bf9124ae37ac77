-------------------------- MODULE ObjectHeapProofs --------------------------
(***************************************************************************)
(* What ObjectHeap's operations keep true of the heap, whatever the number *)
(* of objects and places.                                                  *)
(*                                                                         *)
(* A count is right because each operation changes it by as much as it     *)
(* changes the number of places that hold the object. HeapOK says so for   *)
(* every object that exists, and what else it takes to know which branch   *)
(* of a destructor runs.                                                   *)
(***************************************************************************)
EXTENDS ObjectHeap, FiniteSetTheorems, WellFoundedInduction, TLAPS

(* What a place can hold.                                                  *)
Addresses == Objects \cup {Null}

(* The places that hold a pointer to an object, and how many they are.     *)
PointingAt(places, o) == {p \in Places : places[p] = o}
Held(places, o)       == Cardinality(PointingAt(places, o))

(* A place given another pointer, and a pointer moved from one place to    *)
(* another: opaque to the provers until a step asks for them.              *)
Changed(places, x, v, new) == new = [places EXCEPT ![x] = v]
Moved(places, x, y, new)   == new = [places EXCEPT ![y] = places[x], ![x] = Null]

(* The number of pointers that ought to exist: as many as the count says   *)
(* to a counted object, one to a block of bytes, none to freed memory.     *)
Owed(o) == IF mem[o] # "live" THEN 0 ELSE IF o \in Counted THEN count[o] ELSE 1

Counts == \A o \in Objects : Held(ptr, o) = Owed(o)

(* FudgeField_destroy hands to free what is a block of bytes, and nothing  *)
(* else; clients hold no blocks.                                           *)
RawOK ==
    /\ \A p \in Places : p \in raw <=> ptr[p] \in Blobs
    /\ raw \cap ClientVars = {}

(* Only an object that exists owns pointers.                               *)
OwnersLive == \A p \in ObjectPlaces : ptr[p] # Null => mem[p[1]] = "live"

(* An object without references is being destroyed.                        *)
UnheldDying ==
    \A o \in Counted : mem[o] = "live" /\ count[o] = 0 => \E i \in DOMAIN stack : stack[i] = o

(* The inductive part that is about the heap.                              *)
HeapOK == HeapTypeOK /\ Counts /\ RawOK /\ OwnersLive /\ DestroyedOnce /\ UnheldDying

(* Messages are put into messages numbered higher, envelopes into nothing. *)
Ordered ==
    /\ \A p \in ObjectPlaces : ptr[p] \notin Envs
    /\ \A p \in FieldPlaces : ptr[p] \in Msgs => ptr[p] < p[1]

-----------------------------------------------------------------------------
(* What holds an object is a finite set.                                   *)
LEMMA HeldFinite ==
    ASSUME NEW places, NEW o
    PROVE  /\ IsFiniteSet(PointingAt(places, o)) /\ Held(places, o) \in Nat
           /\ Held(places, o) = 0 <=> PointingAt(places, o) = {}
<1>1. PointingAt(places, o) \subseteq Places
  BY DEF PointingAt
<1>2. IsFiniteSet(Places)
  BY ObjectHeapAssumption
<1>3. IsFiniteSet(PointingAt(places, o))
  BY <1>1, <1>2, FS_Subset
<1> QED
  BY <1>3, FS_CardinalityType, FS_EmptySet DEF Held

(* An empty place made to hold o is one more that does, ...                *)
LEMMA HeldOneMore ==
    ASSUME NEW places \in [Places -> Addresses],
           NEW x \in Places, places[x] = Null, NEW o \in Objects,
           NEW new, Changed(places, x, o, new)
    PROVE  /\ new \in [Places -> Addresses]
           /\ Held(new, o) = Held(places, o) + 1
           /\ \A r \in Objects : r # o => Held(new, r) = Held(places, r)
<1>1. new \in [Places -> Addresses]
  BY DEF Addresses, Changed
<1>2. Null \notin Objects
  BY ObjectHeapAssumption
<1>3. PointingAt(new, o) = PointingAt(places, o) \cup {x} /\ x \notin PointingAt(places, o)
  BY <1>2 DEF PointingAt, Changed
<1>4. Held(new, o) = Held(places, o) + 1
  BY <1>3, FS_AddElement, HeldFinite DEF Held
<1>5. ASSUME NEW r \in Objects, r # o PROVE Held(new, r) = Held(places, r)
  <2>1. PointingAt(new, r) = PointingAt(places, r)
    BY <1>2, <1>5 DEF PointingAt, Changed
  <2> QED
    BY <2>1 DEF Held
<1> QED
  BY <1>1, <1>4, <1>5

(* ... a place emptied is one less, ...                                    *)
LEMMA HeldOneLess ==
    ASSUME NEW places \in [Places -> Addresses],
           NEW x \in Places, places[x] # Null,
           NEW new, Changed(places, x, Null, new)
    PROVE  /\ new \in [Places -> Addresses]
           /\ Held(places, places[x]) > 0
           /\ Held(new, places[x]) = Held(places, places[x]) - 1
           /\ \A r \in Objects : r # places[x] => Held(new, r) = Held(places, r)
<1>0. PICK o \in Objects : o = places[x]
  BY DEF Addresses
<1>1. new \in [Places -> Addresses]
  BY DEF Addresses, Changed
<1>2. Null \notin Objects
  BY ObjectHeapAssumption
<1>3. PointingAt(new, o) = PointingAt(places, o) \ {x} /\ x \in PointingAt(places, o)
  BY <1>0, <1>1, <1>2 DEF PointingAt, Changed
<1>4. Held(new, o) = Held(places, o) - 1
  <2>1. IsFiniteSet(PointingAt(places, o))
    BY HeldFinite
  <2> QED
    BY <1>3, <2>1, FS_RemoveElement DEF Held
<1>5. Held(places, o) # 0
  BY <1>3, HeldFinite
<1>6. ASSUME NEW r \in Objects, r # o PROVE Held(new, r) = Held(places, r)
  <2>1. PointingAt(new, r) = PointingAt(places, r)
    BY <1>0, <1>2, <1>6 DEF PointingAt, Changed
  <2> QED
    BY <2>1 DEF Held
<1>7. Held(places, o) > 0
  BY <1>5, HeldFinite
<1> QED
  BY <1>0, <1>1, <1>4, <1>6, <1>7

(* ... and a pointer that moves changes no number.                         *)
LEMMA HeldElsewhere ==
    ASSUME NEW places \in [Places -> Addresses],
           NEW x \in Places, NEW y \in Places, x # y, places[y] = Null,
           NEW new, Moved(places, x, y, new)
    PROVE  /\ new \in [Places -> Addresses]
           /\ \A r \in Objects : Held(new, r) = Held(places, r)
<1>1. CASE places[x] = Null
  <2>1. new = places
    BY <1>1 DEF Moved
  <2> QED
    BY <2>1
<1>2. CASE places[x] # Null
  <2>1. PICK o \in Objects : o = places[x]
    BY <1>2 DEF Addresses
  <2>2. PICK both : Changed(places, y, o, both)
    BY DEF Changed
  <2>3. /\ both \in [Places -> Addresses]
        /\ Held(both, o) = Held(places, o) + 1
        /\ \A r \in Objects : r # o => Held(both, r) = Held(places, r)
    BY <2>2, HeldOneMore
  <2>4. both[x] = o /\ o # Null /\ Changed(both, x, Null, new)
    BY <2>1, <2>2, ObjectHeapAssumption DEF Changed, Moved
  <2>5. /\ new \in [Places -> Addresses]
        /\ Held(new, o) = Held(both, o) - 1
        /\ \A r \in Objects : r # o => Held(new, r) = Held(both, r)
    BY <2>3, <2>4, HeldOneLess
  <2>6. Held(places, o) \in Nat
    BY HeldFinite
  <2>7. Held(new, o) = Held(places, o)
    BY <2>3, <2>5, <2>6
  <2> QED
    BY <2>3, <2>5, <2>7
<1> QED
  BY <1>1, <1>2

-----------------------------------------------------------------------------
(* Nothing points at freed memory, and what is pointed at has a count.     *)
LEMMA PointedAtIsLive ==
    ASSUME HeapOK, NEW p \in Places, ptr[p] # Null
    PROVE  /\ ptr[p] \in Objects /\ mem[ptr[p]] = "live" /\ Held(ptr, ptr[p]) > 0
           /\ ptr[p] \in Counted => count[ptr[p]] > 0
<1>1. PICK o \in Objects : o = ptr[p]
  BY DEF HeapOK, HeapTypeOK
<1>2. p \in PointingAt(ptr, o)
  BY <1>1 DEF PointingAt
<1>3. Held(ptr, o) > 0
  BY <1>2, HeldFinite
<1>4. Owed(o) > 0
  BY <1>3 DEF HeapOK, Counts
<1>5. mem[o] = "live" /\ (o \in Counted => count[o] > 0)
  BY <1>4 DEF Owed
<1> QED
  BY <1>1, <1>3, <1>5

(* Messages, strings, envelopes and blocks have addresses of their own.    *)
LEMMA KindsApart ==
    /\ Counted \cap Blobs = {} /\ Counted \subseteq Objects /\ Blobs \subseteq Objects
    /\ Msgs \subseteq Counted /\ Strs \subseteq Counted /\ Envs \subseteq Counted
    /\ Msgs \cap Strs = {} /\ Msgs \cap Envs = {} /\ Strs \cap Envs = {}
    /\ Null \notin Objects /\ Null \notin Counted /\ Null \notin Blobs
    /\ Objects = Counted \cup Blobs
BY ObjectHeapAssumption DEF Counted, Objects

(* And so have the client's variables, locals, and the slots of objects.   *)
LEMMA PlacesApart ==
    /\ ClientVars \subseteq Places /\ ObjectPlaces \subseteq Places
    /\ LocalPlaces \subseteq Places
    /\ ClientVars \cap ObjectPlaces = {} /\ ClientVars \cap LocalPlaces = {}
    /\ LocalPlaces \cap ObjectPlaces = {}
    /\ \A p \in ObjectPlaces : p[1] \in Msgs \cup Envs
<1>1. LocalPlaces \cap ObjectPlaces = {}
  BY ObjectHeapAssumption DEF LocalPlaces, ObjectPlaces, FieldPlaces, EnvPlaces
<1>2. \A p \in ObjectPlaces : p[1] \in Msgs \cup Envs
  BY DEF ObjectPlaces, FieldPlaces, EnvPlaces
<1> QED
  BY <1>1, <1>2, ObjectHeapAssumption DEF Places

-----------------------------------------------------------------------------
(* An object created with its only reference in a place that was empty.    *)
LEMMA NewKeeps ==
    ASSUME HeapOK, NEW o \in Objects, mem[o] = "unused",
           NEW c \in ClientVars \cup LocalPlaces, ptr[c] = Null,
           o \in Blobs => c \in LocalPlaces,
           mem' = [mem EXCEPT ![o] = "live"],
           count' = IF o \in Counted THEN [count EXCEPT ![o] = 1] ELSE count,
           Changed(ptr, c, o, ptr'),
           raw' = IF o \in Blobs THEN raw \cup {c} ELSE raw, UNCHANGED stack
    PROVE  HeapOK'
<1> USE PlacesApart, KindsApart DEF HeapOK
<1>1. ptr \in [Places -> Addresses] /\ c \in Places /\ c \notin ObjectPlaces
  BY DEF HeapTypeOK, Addresses
<1>x. ptr' = [ptr EXCEPT ![c] = o]
  BY DEF Changed
<1>2. /\ ptr' \in [Places -> Addresses]
      /\ Held(ptr', o) = Held(ptr, o) + 1
      /\ \A r \in Objects : r # o => Held(ptr', r) = Held(ptr, r)
  BY <1>1, HeldOneMore
<1>3. HeapTypeOK'
  BY <1>1, <1>2 DEF HeapTypeOK, Addresses
<1>4. Counts'
  <2>1. Held(ptr, o) = 0
    BY DEF Counts, Owed
  <2>2. Owed(o)' = 1
    BY DEF Owed, HeapTypeOK
  <2>3. \A r \in Objects : r # o => Owed(r)' = Owed(r)
    BY DEF Owed, HeapTypeOK
  <2> QED
    <3> SUFFICES ASSUME NEW r \in Objects PROVE Held(ptr', r) = Owed(r)'
      BY DEF Counts
    <3> QED
      BY <1>2, <2>1, <2>2, <2>3 DEF Counts
<1>5. RawOK'
  BY <1>1, <1>x DEF RawOK, HeapTypeOK
<1>6. OwnersLive'
  BY <1>1, <1>x DEF OwnersLive, HeapTypeOK
<1>7. DestroyedOnce'
  BY DEF DestroyedOnce, HeapTypeOK
<1>8. UnheldDying'
  BY DEF UnheldDying, HeapTypeOK
<1> QED
  BY <1>3, <1>4, <1>5, <1>6, <1>7, <1>8

(* FudgeMsg_retain and its likes: another place made to hold an object.    *)
LEMMA TakeKeeps ==
    ASSUME HeapOK, NEW o \in Counted, NEW q \in Places, ptr[q] = o,
           NEW p \in Places, ptr[p] = Null,
           p \in ObjectPlaces => mem[p[1]] = "live",
           Changed(ptr, p, o, ptr'), count' = [count EXCEPT ![o] = count[o] + 1],
           UNCHANGED <<mem, raw, stack>>
    PROVE  HeapOK'
<1> USE PlacesApart, KindsApart DEF HeapOK
<1>1. ptr \in [Places -> Addresses] /\ o \in Objects
  BY DEF HeapTypeOK, Addresses
<1>x. ptr' = [ptr EXCEPT ![p] = o]
  BY DEF Changed
<1>2. /\ ptr' \in [Places -> Addresses]
      /\ Held(ptr', o) = Held(ptr, o) + 1
      /\ \A r \in Objects : r # o => Held(ptr', r) = Held(ptr, r)
  BY <1>1, HeldOneMore
<1>3. mem[o] = "live" /\ count[o] > 0
  BY PointedAtIsLive
<1>4. HeapTypeOK'
  BY <1>2 DEF HeapTypeOK, Addresses
<1>5. Counts'
  <2>1. Owed(o)' = Owed(o) + 1
    BY <1>3 DEF Owed, HeapTypeOK
  <2>2. \A r \in Objects : r # o => Owed(r)' = Owed(r)
    BY DEF Owed, HeapTypeOK
  <2> QED
    <3> SUFFICES ASSUME NEW r \in Objects PROVE Held(ptr', r) = Owed(r)'
      BY DEF Counts
    <3> QED
      BY <1>2, <2>1, <2>2 DEF Counts
<1>6. RawOK'
  BY <1>1, <1>x DEF RawOK, HeapTypeOK
<1>7. OwnersLive'
  BY <1>1, <1>x DEF OwnersLive, HeapTypeOK
<1>8. DestroyedOnce'
  BY <1>3 DEF DestroyedOnce, HeapTypeOK
<1>9. UnheldDying'
  BY <1>3 DEF UnheldDying, HeapTypeOK
<1> QED
  BY <1>4, <1>5, <1>6, <1>7, <1>8, <1>9

(* FudgeMsg_release and its likes: the count goes down with the number of  *)
(* pointers, and at 0 the object joins those being destroyed.              *)
LEMMA ReleaseKeeps ==
    ASSUME HeapOK, NEW p \in Places, ptr[p] \in Counted, ReleaseObject(ptr[p]),
           Changed(ptr, p, Null, ptr'), UNCHANGED <<mem, raw>>
    PROVE  HeapOK'
<1> USE PlacesApart, KindsApart DEF HeapOK
<1>0. PICK o \in Counted : o = ptr[p]
  OBVIOUS
<1>1. ptr \in [Places -> Addresses] /\ ptr[p] # Null
  BY DEF HeapTypeOK, Addresses
<1>x. ptr' = [ptr EXCEPT ![p] = Null]
  BY DEF Changed
<1>2. /\ ptr' \in [Places -> Addresses]
      /\ Held(ptr', o) = Held(ptr, o) - 1
      /\ \A r \in Objects : r # o => Held(ptr', r) = Held(ptr, r)
  BY <1>0, <1>1, HeldOneLess
<1>3. mem[o] = "live" /\ count[o] > 0
  BY <1>0, PointedAtIsLive
<1>4. /\ count' = [count EXCEPT ![o] = count[o] - 1]
      /\ stack' = IF count[o] = 1 THEN <<o>> \o stack ELSE stack
  BY <1>0 DEF ReleaseObject
<1>5. count \in [Counted -> Nat] /\ count' \in [Counted -> Nat] /\ stack \in Seq(Counted)
  BY <1>3, <1>4 DEF HeapTypeOK
<1>6. HeapTypeOK'
  BY <1>2, <1>4, <1>5 DEF HeapTypeOK, Addresses
<1>7. Counts'
  <2>1. Owed(o)' = Owed(o) - 1
    BY <1>3, <1>4, <1>5 DEF Owed
  <2>2. \A r \in Objects : r # o => Owed(r)' = Owed(r)
    BY <1>4, <1>5 DEF Owed
  <2> QED
    <3> SUFFICES ASSUME NEW r \in Objects PROVE Held(ptr', r) = Owed(r)'
      BY DEF Counts
    <3> QED
      BY <1>2, <2>1, <2>2 DEF Counts
<1>8. RawOK'
  BY <1>0, <1>1, <1>x DEF RawOK, HeapTypeOK
<1>9. OwnersLive'
  BY <1>1, <1>x DEF OwnersLive, HeapTypeOK
<1>10. DestroyedOnce'
  <2>1. \A i \in DOMAIN stack : stack[i] # o
    BY <1>3 DEF DestroyedOnce
  <2>2. CASE count[o] = 1
    <3>1. /\ DOMAIN stack' = 1..(Len(stack) + 1) /\ stack'[1] = o
          /\ \A i \in 2..(Len(stack) + 1) : stack'[i] = stack[i - 1] /\ i - 1 \in DOMAIN stack
      BY <1>4, <1>5, <2>2
    <3>2. count'[o] = 0 /\ \A r \in Counted : r # o => count'[r] = count[r]
      BY <1>4, <1>5, <2>2
    <3>3. \A i \in DOMAIN stack : stack[i] \in Counted
      BY <1>5
    <3>4. \A i \in DOMAIN stack' : mem'[stack'[i]] = "live" /\ count'[stack'[i]] = 0
      BY <1>3, <1>5, <2>1, <3>1, <3>2, <3>3 DEF DestroyedOnce
    <3>5. \A i, j \in DOMAIN stack' : stack'[i] = stack'[j] => i = j
      <4> SUFFICES ASSUME NEW i \in DOMAIN stack', NEW j \in DOMAIN stack', stack'[i] = stack'[j]
                   PROVE  i = j
        OBVIOUS
      <4>0. /\ i \in Nat /\ j \in Nat /\ (i = 1 \/ i \in 2..(Len(stack) + 1))
            /\ (j = 1 \/ j \in 2..(Len(stack) + 1))
        BY <1>5, <3>1
      <4>1. CASE i = 1 \/ j = 1
        BY <2>1, <3>1, <4>0, <4>1
      <4>2. CASE i # 1 /\ j # 1
        <5>1. i - 1 = j - 1
          BY <3>1, <4>0, <4>2 DEF DestroyedOnce
        <5> QED
          BY <4>0, <5>1
      <4> QED
        BY <4>1, <4>2
    <3> QED
      BY <3>4, <3>5 DEF DestroyedOnce
  <2>3. CASE count[o] # 1
    <3>1. \A r \in Counted : r # o => count'[r] = count[r]
      BY <1>4, <1>5
    <3> QED
      BY <1>4, <1>5, <2>1, <2>3, <3>1 DEF DestroyedOnce
  <2> QED
    BY <2>2, <2>3
<1>11. UnheldDying'
  <2> SUFFICES ASSUME NEW r \in Counted, mem'[r] = "live", count'[r] = 0
               PROVE  \E i \in DOMAIN stack' : stack'[i] = r
    BY DEF UnheldDying
  <2>1. CASE r = o
    <3>1. count[o] = 1
      BY <1>3, <1>4, <1>5, <2>1
    <3>2. 1 \in DOMAIN stack' /\ stack'[1] = o
      BY <1>4, <1>5, <3>1
    <3> QED
      BY <2>1, <3>2
  <2>2. CASE r # o
    <3>1. count[r] = 0
      BY <1>4, <1>5, <2>2
    <3>2. PICK i \in DOMAIN stack : stack[i] = r
      BY <3>1 DEF UnheldDying
    <3>3. CASE count[o] = 1
      <4>1. i + 1 \in DOMAIN stack' /\ stack'[i + 1] = r
        BY <1>4, <1>5, <3>2, <3>3
      <4> QED
        BY <4>1
    <3>4. CASE count[o] # 1
      BY <1>4, <3>2, <3>4
    <3> QED
      BY <3>3, <3>4
  <2> QED
    BY <2>1, <2>2
<1> QED
  BY <1>6, <1>7, <1>8, <1>9, <1>10, <1>11

(* The block of an opaque field is freed with the only pointer to it.      *)
LEMMA FreeBlobKeeps ==
    ASSUME HeapOK, NEW p \in Places, ptr[p] \in Blobs,
           mem' = [mem EXCEPT ![ptr[p]] = "freed"], Changed(ptr, p, Null, ptr'),
           raw' = raw \ {p}, UNCHANGED <<count, stack>>
    PROVE  HeapOK'
<1> USE PlacesApart, KindsApart DEF HeapOK
<1>0. PICK o \in Blobs : o = ptr[p]
  OBVIOUS
<1>1. ptr \in [Places -> Addresses] /\ ptr[p] # Null
  BY DEF HeapTypeOK, Addresses
<1>x. ptr' = [ptr EXCEPT ![p] = Null]
  BY DEF Changed
<1>2. /\ ptr' \in [Places -> Addresses]
      /\ Held(ptr', o) = Held(ptr, o) - 1
      /\ \A r \in Objects : r # o => Held(ptr', r) = Held(ptr, r)
  BY <1>0, <1>1, HeldOneLess
<1>3. mem[o] = "live" /\ mem' = [mem EXCEPT ![o] = "freed"]
  BY <1>0, PointedAtIsLive
<1>4. HeapTypeOK'
  BY <1>2, <1>3 DEF HeapTypeOK, Addresses
<1>5. Counts'
  <2>1. Owed(o)' = 0 /\ Owed(o) = 1
    BY <1>3 DEF Owed, HeapTypeOK
  <2>2. \A r \in Objects : r # o => Owed(r)' = Owed(r)
    BY <1>3 DEF Owed, HeapTypeOK
  <2> QED
    <3> SUFFICES ASSUME NEW r \in Objects PROVE Held(ptr', r) = Owed(r)'
      BY DEF Counts
    <3> QED
      BY <1>2, <2>1, <2>2 DEF Counts
<1>6. RawOK'
  BY <1>0, <1>1, <1>x DEF RawOK, HeapTypeOK
<1>7. OwnersLive'
  <2>1. \A q \in ObjectPlaces : q[1] \in Counted
    BY DEF ObjectPlaces, FieldPlaces, EnvPlaces
  <2> QED
    BY <1>1, <1>x, <1>3, <2>1 DEF OwnersLive, HeapTypeOK
<1>8. DestroyedOnce'
  BY <1>3 DEF DestroyedOnce, HeapTypeOK
<1>9. UnheldDying'
  BY <1>3 DEF UnheldDying, HeapTypeOK
<1> QED
  BY <1>4, <1>5, <1>6, <1>7, <1>8, <1>9

(* The memory of an object is freed when it owns no pointers any more: no  *)
(* place holds it, because its count is 0.                                 *)
LEMMA FreeKeeps ==
    ASSUME HeapOK, FreeObject
    PROVE  HeapOK'
<1> USE PlacesApart, KindsApart DEF HeapOK, FreeObject
<1>0. PICK o \in Counted : o = Head(stack) /\ o = stack[1] /\ 1 \in DOMAIN stack
  BY DEF HeapTypeOK
<1>1. mem[o] = "live" /\ count[o] = 0 /\ mem' = [mem EXCEPT ![o] = "freed"]
  BY <1>0 DEF DestroyedOnce
<1>2. /\ stack \in Seq(Counted) /\ stack' \in Seq(Counted)
      /\ \A i \in DOMAIN stack' : stack'[i] = stack[i + 1] /\ i + 1 \in DOMAIN stack
  BY DEF HeapTypeOK
<1>3. HeapTypeOK'
  BY <1>1, <1>2 DEF HeapTypeOK
<1>4. Counts'
  <2>1. Owed(o)' = 0 /\ Owed(o) = 0
    BY <1>1 DEF Owed, HeapTypeOK
  <2>2. \A r \in Objects : r # o => Owed(r)' = Owed(r)
    BY <1>1 DEF Owed, HeapTypeOK
  <2> QED
    BY <2>1, <2>2 DEF Counts
<1>5. RawOK'
  BY DEF RawOK
<1>6. OwnersLive'
  <2> SUFFICES ASSUME NEW p \in ObjectPlaces, ptr[p] # Null PROVE mem'[p[1]] = "live"
    BY DEF OwnersLive
  <2>1. p[1] # o
    BY <1>0 DEF OwnedPlaces
  <2>2. mem[p[1]] = "live" /\ p[1] \in Counted
    BY DEF OwnersLive, ObjectPlaces, FieldPlaces, EnvPlaces
  <2> QED
    BY <1>1, <2>1, <2>2 DEF HeapTypeOK
<1>7. DestroyedOnce'
  <2>1. \A i \in DOMAIN stack' : stack'[i] # o /\ stack'[i] \in Counted
    <3> SUFFICES ASSUME NEW i \in DOMAIN stack' PROVE stack'[i] # o /\ stack'[i] \in Counted
      OBVIOUS
    <3>1. i + 1 # 1
      BY <1>2
    <3> QED
      BY <1>0, <1>2, <3>1 DEF DestroyedOnce
  <2>2. \A i, j \in DOMAIN stack' : stack'[i] = stack'[j] => i = j
    <3> SUFFICES ASSUME NEW i \in DOMAIN stack', NEW j \in DOMAIN stack', stack'[i] = stack'[j]
                 PROVE  i = j
      OBVIOUS
    <3>1. i + 1 = j + 1
      BY <1>2 DEF DestroyedOnce
    <3>2. i \in Nat /\ j \in Nat
      BY <1>2
    <3> QED
      BY <3>1, <3>2
  <2>3. \A i \in DOMAIN stack' : mem'[stack'[i]] = "live" /\ count'[stack'[i]] = 0
    BY <1>1, <1>2, <2>1 DEF DestroyedOnce, HeapTypeOK
  <2> QED
    BY <2>2, <2>3 DEF DestroyedOnce
<1>8. UnheldDying'
  <2> SUFFICES ASSUME NEW r \in Counted, mem'[r] = "live", count'[r] = 0
               PROVE  \E i \in DOMAIN stack' : stack'[i] = r
    BY DEF UnheldDying
  <2>1. r # o /\ mem[r] = "live" /\ count[r] = 0
    BY <1>1 DEF HeapTypeOK
  <2>2. PICK i \in DOMAIN stack : stack[i] = r
    BY <2>1 DEF UnheldDying
  <2>3. i # 1
    BY <1>0, <2>1, <2>2
  <2>4. i - 1 \in DOMAIN stack' /\ stack'[i - 1] = r
    BY <1>2, <2>2, <2>3
  <2> QED
    BY <2>4
<1> QED
  BY <1>3, <1>4, <1>5, <1>6, <1>7, <1>8

(* A pointer given away, from a local to a field or from the client to a   *)
(* local.                                                                  *)
LEMMA MoveKeeps ==
    ASSUME HeapOK, NEW x \in Places, NEW y \in Places, x # y, ptr[y] = Null,
           y \in ObjectPlaces => mem[y[1]] = "live", x \in raw => y \notin ClientVars,
           NEW places, Moved(ptr, x, y, places), ptr' = places,
           raw' = IF x \in raw THEN (raw \ {x}) \cup {y} ELSE raw,
           UNCHANGED <<mem, count, stack>>
    PROVE  HeapOK'
<1> USE PlacesApart, KindsApart DEF HeapOK
<1>1. ptr \in [Places -> Addresses]
  BY DEF HeapTypeOK, Addresses
<1>2. ptr' \in [Places -> Addresses] /\ \A r \in Objects : Held(ptr', r) = Held(ptr, r)
  BY <1>1, HeldElsewhere
<1>3. ptr' = [ptr EXCEPT ![y] = ptr[x], ![x] = Null]
  BY DEF Moved
<1>4. HeapTypeOK'
  BY <1>2 DEF HeapTypeOK, Addresses
<1>5. Counts'
  BY <1>2 DEF Counts, Owed
<1>6. RawOK'
  BY <1>1, <1>3 DEF RawOK
<1>7. OwnersLive'
  BY <1>1, <1>3 DEF OwnersLive
<1>8. DestroyedOnce'
  BY DEF DestroyedOnce
<1>9. UnheldDying'
  BY DEF UnheldDying
<1> QED
  BY <1>4, <1>5, <1>6, <1>7, <1>8, <1>9

(* A step that is not about the heap.                                      *)
LEMMA HeapAsBefore ==
    ASSUME HeapOK, UNCHANGED heapVars
    PROVE  HeapOK'
BY DEF HeapOK, heapVars, HeapTypeOK, Counts, Owed, RawOK, OwnersLive, DestroyedOnce, UnheldDying

(* In the beginning there are no objects.                                  *)
LEMMA InitKeeps == HeapInit => HeapOK
<1> SUFFICES ASSUME HeapInit PROVE HeapOK
  OBVIOUS
<1> USE PlacesApart, KindsApart DEF HeapInit
<1>1. HeapTypeOK
  BY DEF HeapTypeOK
<1>2. Counts
  <2> SUFFICES ASSUME NEW o \in Objects PROVE Held(ptr, o) = Owed(o)
    BY DEF Counts
  <2>1. PointingAt(ptr, o) = {}
    BY DEF PointingAt
  <2>2. Held(ptr, o) = 0
    BY <2>1, HeldFinite
  <2> QED
    BY <2>2 DEF Owed
<1>3. RawOK /\ OwnersLive /\ DestroyedOnce /\ UnheldDying
  BY DEF RawOK, OwnersLive, DestroyedOnce, UnheldDying
<1> QED
  BY <1>1, <1>2, <1>3 DEF HeapOK

(* An envelope or message created with a message in one of its places.     *)
LEMMA WrapKeeps ==
    ASSUME HeapOK, NEW e \in Envs, mem[e] = "unused",
           NEW m \in Msgs, NEW q \in Places, ptr[q] = m,
           NEW c \in ClientVars, ptr[c] = Null,
           NEW one, Changed(ptr, c, e, one), Changed(one, <<e, 1, "data">>, m, ptr'),
           mem' = [mem EXCEPT ![e] = "live"],
           count' = [count EXCEPT ![e] = 1, ![m] = @ + 1],
           UNCHANGED <<raw, stack>>
    PROVE  HeapOK'
<1> USE PlacesApart, KindsApart DEF HeapOK
<1> DEFINE x == <<e, 1, "data">>
<1>1. /\ ptr \in [Places -> Addresses] /\ c \in Places /\ e \in Objects /\ m \in Objects
      /\ x \in ObjectPlaces /\ x \in Places /\ x # c /\ e # m /\ x[1] = e
  BY DEF HeapTypeOK, Addresses, ObjectPlaces, EnvPlaces
<1>2. mem[m] = "live" /\ count[m] > 0
  BY PointedAtIsLive
<1>3. ptr[x] = Null
  BY <1>1 DEF OwnersLive
<1> HIDE DEF x
<1>4. /\ one \in [Places -> Addresses]
      /\ Held(one, e) = Held(ptr, e) + 1
      /\ \A r \in Objects : r # e => Held(one, r) = Held(ptr, r)
  BY <1>1, HeldOneMore
<1>5. one[x] = Null
  BY <1>1, <1>3 DEF Changed
<1>y. Changed(one, x, m, ptr')
  BY DEF x
<1>6. /\ ptr' \in [Places -> Addresses]
      /\ Held(ptr', m) = Held(one, m) + 1
      /\ \A r \in Objects : r # m => Held(ptr', r) = Held(one, r)
  BY <1>1, <1>4, <1>5, <1>y, HeldOneMore
<1>x. ptr' = [ptr EXCEPT ![c] = e, ![x] = m]
  BY <1>1, <1>y DEF Changed
<1>7. HeapTypeOK'
  BY <1>1, <1>2, <1>6 DEF HeapTypeOK, Addresses
<1>8. Counts'
  <2>1. Held(ptr, e) = 0
    BY DEF Counts, Owed
  <2>2. Owed(e)' = 1 /\ Owed(m)' = Owed(m) + 1
    BY <1>1, <1>2 DEF Owed, HeapTypeOK
  <2>3. \A r \in Objects : r # e /\ r # m => Owed(r)' = Owed(r)
    BY DEF Owed, HeapTypeOK
  <2> SUFFICES ASSUME NEW r \in Objects PROVE Held(ptr', r) = Owed(r)'
    BY DEF Counts
  <2> QED
    BY <1>1, <1>4, <1>6, <2>1, <2>2, <2>3 DEF Counts
<1>9. RawOK'
  BY <1>1, <1>3, <1>x DEF RawOK, HeapTypeOK
<1>10. OwnersLive'
  BY <1>1, <1>x DEF OwnersLive, HeapTypeOK
<1>11. DestroyedOnce' /\ UnheldDying'
  BY <1>1, <1>2 DEF DestroyedOnce, UnheldDying, HeapTypeOK
<1> QED
  BY <1>7, <1>8, <1>9, <1>10, <1>11

(* FudgeField_destroy for one pointer, whichever branch it takes.          *)
LEMMA DestroyKeeps ==
    ASSUME HeapOK, NEW p \in Places, ptr[p] # Null, DestroyPointer(p)
    PROVE  /\ HeapOK'
           /\ ptr' = [ptr EXCEPT ![p] = Null]
           /\ \A o \in Counted : mem'[o] = mem[o]
<1>1. ptr' = [ptr EXCEPT ![p] = Null]
  BY DEF DestroyPointer
<1>2. Changed(ptr, p, Null, ptr')
  BY <1>1 DEF Changed
<1>3. ptr[p] \in Objects
  BY DEF HeapOK, HeapTypeOK
<1>4. CASE p \in raw
  <2>1. ptr[p] \in Blobs
    BY <1>4 DEF HeapOK, RawOK
  <2>2. /\ mem' = [mem EXCEPT ![ptr[p]] = "freed"]
        /\ raw' = raw \ {p} /\ UNCHANGED <<count, stack>>
    BY <1>4 DEF DestroyPointer
  <2>3. HeapOK'
    BY <1>2, <2>1, <2>2, FreeBlobKeeps
  <2>4. \A o \in Counted : mem'[o] = mem[o]
    BY <2>1, <2>2, KindsApart DEF HeapOK, HeapTypeOK
  <2> QED
    BY <1>1, <2>3, <2>4
<1>5. CASE p \notin raw
  <2>1. ptr[p] \in Counted
    BY <1>3, <1>5, KindsApart DEF HeapOK, RawOK
  <2>2. ReleaseObject(ptr[p]) /\ UNCHANGED <<mem, raw>>
    BY <1>5 DEF DestroyPointer
  <2>3. HeapOK'
    BY <1>2, <2>1, <2>2, ReleaseKeeps
  <2> QED
    BY <1>1, <2>2, <2>3
<1> QED
  BY <1>4, <1>5

-----------------------------------------------------------------------------
(* In such a heap every count is the number of pointers, and no pointer    *)
(* dangles.                                                                *)
LEMMA HeapIsRight == HeapOK => CountsExact /\ NoDangling
<1> SUFFICES ASSUME HeapOK PROVE CountsExact /\ NoDangling
  OBVIOUS
<1>1. CountsExact
  <2> SUFFICES ASSUME NEW o \in Counted, mem[o] = "live"
               PROVE  count[o] = Cardinality(Pointers(o))
    BY DEF CountsExact
  <2>1. o \in Objects /\ o # Null
    BY KindsApart
  <2>2. Pointers(o) = PointingAt(ptr, o)
    BY <2>1 DEF Pointers, LivePlaces, PointingAt, HeapOK, OwnersLive
  <2>3. Held(ptr, o) = Owed(o)
    BY <2>1 DEF HeapOK, Counts
  <2> QED
    BY <2>2, <2>3 DEF Held, Owed
<1>2. NoDangling
  <2> SUFFICES ASSUME NEW p \in LivePlaces, ptr[p] # Null PROVE mem[ptr[p]] = "live"
    BY DEF NoDangling
  <2>1. p \in Places
    BY DEF LivePlaces
  <2> QED
    BY <2>1, PointedAtIsLive
<1> QED
  BY <1>1, <1>2

(* A finite set of numbers has a greatest one.                             *)
LEMMA Greatest ==
    ASSUME NEW S, S \subseteq Nat, IsFiniteSet(S), S # {}
    PROVE  \E n \in S : \A k \in S : k <= n
<1> DEFINE Above(n) == {k \in S : k > n}
           T == {Above(n) : n \in S}
<1>1. T \subseteq FiniteSubsetsOf(S)
  <2> SUFFICES ASSUME NEW n \in S PROVE Above(n) \in FiniteSubsetsOf(S)
    OBVIOUS
  <2>1. Above(n) \subseteq S
    OBVIOUS
  <2> QED
    BY <2>1, FS_Subset DEF FiniteSubsetsOf
<1>2. T # {}
  OBVIOUS
<1>3. PICK X \in T : \A Y \in T : ~ (<<Y, X>> \in StrictSubsetOrdering(S))
  <2>1. IsWellFoundedOn(StrictSubsetOrdering(S), FiniteSubsetsOf(S))
    BY FS_StrictSubsetOrderingWellFounded
  <2> HIDE DEF T
  <2> QED
    BY <1>1, <1>2, <2>1, WFMin
<1>4. PICK n \in S : X = Above(n)
  OBVIOUS
<1>5. ASSUME NEW k \in S, ~ (k <= n) PROVE FALSE
  <2>1. k \in Above(n) /\ k \notin Above(k)
    BY <1>5
  <2>2. Above(k) \subseteq Above(n)
    <3> SUFFICES ASSUME NEW j \in S, j > k PROVE j > n
      OBVIOUS
    <3>1. j \in Nat /\ k \in Nat /\ n \in Nat
      OBVIOUS
    <3> QED
      BY <1>5, <3>1
  <2>3. <<Above(k), X>> \in StrictSubsetOrdering(S)
    BY <1>4, <2>1, <2>2 DEF StrictSubsetOrdering
  <2> QED
    BY <1>3, <2>3
<1> QED
  BY <1>5

(* In such a heap what is live is held by a place outside the heap: of the *)
(* live objects that only others hold, the greatest message would be held  *)
(* by one greater still.                                                   *)
LEMMA Reclaimed == HeapOK /\ Ordered => AllReclaimed
<1> SUFFICES ASSUME HeapOK, Ordered, stack = <<>>,
                    \A p \in ClientVars \cup LocalPlaces : ptr[p] = Null,
                    NEW o \in Objects, mem[o] = "live"
             PROVE  FALSE
  BY DEF AllReclaimed
<1>1. ASSUME NEW r \in Objects, mem[r] = "live"
      PROVE  \E p \in ObjectPlaces : ptr[p] = r
  <2>1. r \in Counted => count[r] # 0
    BY <1>1 DEF HeapOK, UnheldDying
  <2>2. Owed(r) # 0
    BY <1>1, <2>1 DEF Owed
  <2>3. PointingAt(ptr, r) # {}
    BY <1>1, <2>2, HeldFinite DEF HeapOK, Counts
  <2>4. PICK p \in Places : ptr[p] = r
    BY <2>3 DEF PointingAt
  <2> QED
    BY <1>1, <2>4, KindsApart DEF Places
<1> DEFINE S == {m \in Msgs : mem[m] = "live"}
<1>2. ASSUME NEW r \in Objects, mem[r] = "live"
      PROVE  \E m \in S : r \in Msgs => r < m
  <2>1. PICK p \in ObjectPlaces : ptr[p] = r
    BY <1>1, <1>2
  <2>2. mem[p[1]] = "live"
    BY <1>2, <2>1, KindsApart DEF HeapOK, OwnersLive
  <2>3. p \notin EnvPlaces
    <3> SUFFICES ASSUME p \in EnvPlaces PROVE FALSE
      OBVIOUS
    <3>1. p[1] \in Envs /\ p[1] \in Objects
      BY KindsApart DEF EnvPlaces
    <3>2. PICK q \in ObjectPlaces : ptr[q] = p[1]
      BY <1>1, <2>2, <3>1
    <3> QED
      BY <3>1, <3>2 DEF Ordered
  <2>4. p \in FieldPlaces /\ p[1] \in Msgs
    BY <2>3 DEF ObjectPlaces, FieldPlaces
  <2> QED
    BY <2>1, <2>2, <2>4 DEF Ordered
<1>3. S # {}
  BY <1>2
<1>4. IsFiniteSet(S)
  <2>1. S \subseteq Msgs /\ IsFiniteSet(Msgs)
    BY ObjectHeapAssumption
  <2> QED
    BY <2>1, FS_Subset
<1>5. S \subseteq Nat
  BY ObjectHeapAssumption
<1>6. PICK n \in S : \A k \in S : k <= n
  <2> HIDE DEF S
  <2> QED
    BY <1>3, <1>4, <1>5, Greatest
<1>7. PICK m \in S : n < m
  BY <1>2, <1>6, KindsApart
<1> QED
  BY <1>5, <1>6, <1>7
=============================================================================
