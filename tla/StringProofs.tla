--------------------------- MODULE StringProofs ----------------------------
(***************************************************************************)
(* Strings: who holds them, and what is in them.                           *)
(*                                                                         *)
(* For any number of threads, static strings, pools and strings: every     *)
(* reference of StringUse is counted, and what FudgeString_fromStatic      *)
(* returns stays (string.c, stringpool.c), also in a program that          *)
(* initialises the library and registers types as it goes; and what that   *)
(* has set up is kept (fudge.c, memory.c, registry.c).                     *)
(*                                                                         *)
(* ReferencesOwned says nothing of how long a static keeps its string, and *)
(* BorrowedLive nothing of who does.  The inductive invariant names what   *)
(* keeps a borrowed string alive: in the atomic build the static, which no *)
(* thread is about to put another into; in the pthreads build the static,  *)
(* or the reference that was lost when another was stored over it.         *)
(*                                                                         *)
(* Then, for any text and any bytes: what the converters make of them is   *)
(* read back, and the comparison and the loops that count and copy         *)
(* characters agree with what a string stands for (FudgeStrings, Unicode). *)
(***************************************************************************)
EXTENDS Library, FudgeStrings, SequenceTheorems, FiniteSetTheorems, WellFoundedInduction, TLAPS

Pointers == Strings \cup {None}

HoldersIn(places, s) == {p \in Places : places[p] = s}
HeldBy(places, s)    == Cardinality(HoldersIn(places, s))

Changed(places, x, v, new) == new = [places EXCEPT ![x] = v]
Moved(places, x, y, new)   == new = [places EXCEPT ![y] = places[x], ![x] = None]

(* References counted that nothing holds any more.                         *)
Spare(s) == count[s] - HeldBy(ptr, s)

TypeOK ==
    /\ build \in {"atomic", "pthreads"}
    /\ ptr \in [Places -> Pointers]
    /\ count \in [Strings -> Nat]
    /\ mem \in [Strings -> {"new", "live", "freed"}]
    /\ poolOf \in [Nodes -> Pools \cup {None}]
    /\ poolRefs \in [Pools -> Nat]
    /\ pc \in [Threads -> Steps]
    /\ use \in [Threads -> Statics \cup Pools \cup {None}]
    /\ borrowed \in [Threads -> Pointers]
    /\ early \in [Threads -> BOOLEAN]

(* A thread inside a call works on a static or on a pool, and its local    *)
(* variable holds a string in three of the steps.  A node of a pool has a  *)
(* string.                                                                 *)
CallsOK ==
    /\ \A t \in Threads :
          /\ pc[t] \in {"create", "exchange", "release", "return"} => use[t] \in Statics
          /\ pc[t] \in {"acquire", "clear"} => use[t] \in Pools
          /\ pc[t] \in {"exchange", "release", "acquire"} <=> ptr[t] # None
          /\ pc[t] \in {"release", "return"} => ptr[use[t]] # None
    /\ \A n \in Nodes : poolOf[n] # None => ptr[n] # None

Counts ==
    \A s \in Strings :
        /\ (mem[s] = "live") = (count[s] > 0)
        /\ Spare(s) \in Nat
        /\ build = "atomic" => Spare(s) = 0

KeptByStatic(s) ==
    \E static \in Statics : ptr[static] = s /\ \A u \in Threads : ~FirstUse(u, static)

InStatic(s) == \E static \in Statics : ptr[static] = s

BorrowedKept ==
    \A t \in Threads : borrowed[t] # None =>
        IF build = "atomic" THEN early[t] \/ KeptByStatic(borrowed[t])
        ELSE InStatic(borrowed[t]) \/ Spare(borrowed[t]) > 0

IInv == TypeOK /\ CallsOK /\ Counts /\ BorrowedKept

-----------------------------------------------------------------------------
(* How storing, dropping and moving a pointer change the number of places  *)
(* that hold a string; that is a number, as there are finitely many places.*)
LEMMA HeldFinite ==
    ASSUME NEW places, NEW s
    PROVE  IsFiniteSet(HoldersIn(places, s)) /\ HeldBy(places, s) \in Nat
<1>1. HoldersIn(places, s) \subseteq Places
  BY DEF HoldersIn
<1>2. IsFiniteSet(Places)
  BY StringUseAssumption
<1>3. IsFiniteSet(HoldersIn(places, s))
  BY <1>1, <1>2, FS_Subset
<1> QED
  BY <1>3, FS_CardinalityType DEF HeldBy

(* A string stored in an empty place has one holder more, ...              *)
LEMMA HeldByOneMore ==
    ASSUME NEW places \in [Places -> Pointers],
           NEW x \in Places, places[x] = None, NEW s \in Strings,
           NEW new, Changed(places, x, s, new)
    PROVE  /\ new \in [Places -> Pointers]
           /\ HeldBy(new, s) = HeldBy(places, s) + 1
           /\ \A r \in Strings : r # s => HeldBy(new, r) = HeldBy(places, r)
<1>1. new \in [Places -> Pointers]
  BY DEF Pointers, Changed
<1>2. None \notin Strings
  BY StringUseAssumption
<1>3. HoldersIn(new, s) = HoldersIn(places, s) \cup {x} /\ x \notin HoldersIn(places, s)
  BY <1>2 DEF HoldersIn, Changed
<1>4. HeldBy(new, s) = HeldBy(places, s) + 1
  BY <1>3, FS_AddElement, HeldFinite DEF HeldBy
<1>5. ASSUME NEW r \in Strings, r # s PROVE HeldBy(new, r) = HeldBy(places, r)
  <2>1. HoldersIn(new, r) = HoldersIn(places, r)
    BY <1>2, <1>5 DEF HoldersIn, Changed
  <2> QED
    BY <2>1 DEF HeldBy
<1> QED
  BY <1>1, <1>4, <1>5

(* ... one dropped from a place has one less, ...                          *)
LEMMA HeldByOneLess ==
    ASSUME NEW places \in [Places -> Pointers],
           NEW x \in Places, places[x] # None,
           NEW new, Changed(places, x, None, new)
    PROVE  /\ new \in [Places -> Pointers]
           /\ HeldBy(places, places[x]) > 0
           /\ HeldBy(new, places[x]) = HeldBy(places, places[x]) - 1
           /\ \A r \in Strings : r # places[x] => HeldBy(new, r) = HeldBy(places, r)
<1>0. PICK s \in Strings : s = places[x]
  BY DEF Pointers
<1>1. new \in [Places -> Pointers]
  BY DEF Pointers, Changed
<1>2. None \notin Strings
  BY StringUseAssumption
<1>3. HoldersIn(new, s) = HoldersIn(places, s) \ {x} /\ x \in HoldersIn(places, s)
  BY <1>0, <1>1, <1>2 DEF HoldersIn, Changed
<1>4. HeldBy(new, s) = HeldBy(places, s) - 1
  BY <1>3, FS_RemoveElement, HeldFinite DEF HeldBy
<1>5. HeldBy(places, s) # 0
  BY <1>3, FS_EmptySet, HeldFinite DEF HeldBy
<1>6. ASSUME NEW r \in Strings, r # s PROVE HeldBy(new, r) = HeldBy(places, r)
  <2>1. HoldersIn(new, r) = HoldersIn(places, r)
    BY <1>0, <1>2, <1>6 DEF HoldersIn, Changed
  <2> QED
    BY <2>1 DEF HeldBy
<1>7. HeldBy(places, s) > 0
  BY <1>5, HeldFinite
<1> QED
  BY <1>0, <1>1, <1>4, <1>6, <1>7

(* ... and one that moves has as many as before.                           *)
LEMMA HeldByAnother ==
    ASSUME NEW places \in [Places -> Pointers],
           NEW x \in Places, NEW y \in Places, places[x] # None, places[y] = None,
           NEW new, Moved(places, x, y, new)
    PROVE  /\ new \in [Places -> Pointers]
           /\ \A r \in Strings : HeldBy(new, r) = HeldBy(places, r)
<1>1. PICK s \in Strings : s = places[x]
  BY DEF Pointers
<1>2. PICK both : Changed(places, y, s, both)
  BY DEF Changed
<1>3. /\ both \in [Places -> Pointers]
      /\ HeldBy(both, s) = HeldBy(places, s) + 1
      /\ \A r \in Strings : r # s => HeldBy(both, r) = HeldBy(places, r)
  BY <1>2, HeldByOneMore
<1>4. both[x] = s /\ s # None /\ Changed(both, x, None, new)
  BY <1>1, <1>2, StringUseAssumption DEF Changed, Moved
<1>5. /\ new \in [Places -> Pointers]
      /\ HeldBy(new, s) = HeldBy(both, s) - 1
      /\ \A r \in Strings : r # s => HeldBy(new, r) = HeldBy(both, r)
  BY <1>3, <1>4, HeldByOneLess
<1>6. HeldBy(places, s) \in Nat
  BY HeldFinite
<1>7. HeldBy(new, s) = HeldBy(places, s)
  BY <1>3, <1>4, <1>5, <1>6
<1> QED
  BY <1>3, <1>4, <1>5, <1>7

-----------------------------------------------------------------------------
(* What a step does that only makes, drops or moves references: the types  *)
(* stay, what is spare stays, and exactly the strings with a count live.   *)
Balanced ==
    /\ ptr' \in [Places -> Pointers]
    /\ count' \in [Strings -> Nat]
    /\ mem' \in [Strings -> {"new", "live", "freed"}]
    /\ \A s \in Strings : (mem'[s] = "live") = (count'[s] > 0)
    /\ \A s \in Strings : count'[s] - HeldBy(ptr', s) = Spare(s)

(* A new string has a count of 1 and one holder.                           *)
LEMMA MakeBalanced ==
    ASSUME TypeOK, Counts, NEW place \in Places, ptr[place] = None, Make(place)
    PROVE  /\ Balanced
           /\ ptr'[place] # None
           /\ \A p \in Places : p # place => ptr'[p] = ptr[p]
<1>1. PICK s \in Strings :
        /\ mem[s] = "new"
        /\ ptr' = [ptr EXCEPT ![place] = s]
        /\ count' = [count EXCEPT ![s] = 1]
        /\ mem' = [mem EXCEPT ![s] = "live"]
  BY DEF Make
<1>2. ptr \in [Places -> Pointers] /\ Changed(ptr, place, s, ptr')
  BY <1>1 DEF TypeOK, Changed
<1>3. /\ ptr' \in [Places -> Pointers]
      /\ HeldBy(ptr', s) = HeldBy(ptr, s) + 1
      /\ \A r \in Strings : r # s => HeldBy(ptr', r) = HeldBy(ptr, r)
  BY <1>2, HeldByOneMore
<1>4. count \in [Strings -> Nat] /\ HeldBy(ptr, s) \in Nat
  BY HeldFinite DEF TypeOK
<1>5. count[s] = 0 /\ HeldBy(ptr, s) = 0
  <2>1. ~(count[s] > 0) /\ count[s] - HeldBy(ptr, s) \in Nat
    BY <1>1 DEF Counts, Spare
  <2> QED
    BY <1>4, <2>1
<1>6. \A r \in Strings : count'[r] - HeldBy(ptr', r) = Spare(r)
  <2>1. count'[s] = 1 /\ \A r \in Strings : r # s => count'[r] = count[r]
    BY <1>1, <1>4
  <2>2. count'[s] - HeldBy(ptr', s) = count[s] - HeldBy(ptr, s)
    BY <1>3, <1>5, <2>1
  <2> QED
    BY <1>3, <2>1, <2>2 DEF Spare
<1>7. \A r \in Strings : (mem'[r] = "live") = (count'[r] > 0)
  BY <1>1, <1>4 DEF Counts, TypeOK
<1>8. count' \in [Strings -> Nat] /\ mem' \in [Strings -> {"new", "live", "freed"}]
  BY <1>1 DEF TypeOK
<1>9. ptr'[place] # None /\ \A p \in Places : p # place => ptr'[p] = ptr[p]
  BY <1>1, <1>2, StringUseAssumption
<1> QED
  BY <1>3, <1>6, <1>7, <1>8, <1>9 DEF Balanced

(* The holder that drops its reference was counted, and is no more.        *)
LEMMA DropBalanced ==
    ASSUME TypeOK, Counts, NEW place \in Places, ptr[place] # None, Drop(place)
    PROVE  /\ Balanced
           /\ ptr'[place] = None
           /\ \A p \in Places : p # place => ptr'[p] = ptr[p]
<1>1. PICK s : s = ptr[place]
  OBVIOUS
<1>2. /\ s \in Strings
      /\ ptr' = [ptr EXCEPT ![place] = None]
      /\ count' = [count EXCEPT ![s] = count[s] - 1]
      /\ mem' = [mem EXCEPT ![s] = IF count[s] = 1 THEN "freed" ELSE mem[s]]
  BY <1>1 DEF TypeOK, Pointers, Drop
<1>3. ptr \in [Places -> Pointers] /\ Changed(ptr, place, None, ptr')
  BY <1>2 DEF TypeOK, Changed
<1>4. /\ ptr' \in [Places -> Pointers]
      /\ HeldBy(ptr, s) > 0
      /\ HeldBy(ptr', s) = HeldBy(ptr, s) - 1
      /\ \A r \in Strings : r # s => HeldBy(ptr', r) = HeldBy(ptr, r)
  BY <1>1, <1>3, HeldByOneLess
<1>5. count \in [Strings -> Nat] /\ HeldBy(ptr, s) \in Nat
  BY HeldFinite DEF TypeOK
<1>6. count[s] > 0 /\ mem[s] = "live"
  <2>1. count[s] - HeldBy(ptr, s) \in Nat
    BY <1>2 DEF Counts, Spare
  <2>2. count[s] > 0
    BY <1>2, <1>4, <1>5, <2>1
  <2> QED
    BY <1>2, <2>2 DEF Counts
<1>7. \A r \in Strings : count'[r] - HeldBy(ptr', r) = Spare(r)
  <2>1. count'[s] = count[s] - 1 /\ \A r \in Strings : r # s => count'[r] = count[r]
    BY <1>2, <1>5
  <2>2. count'[s] - HeldBy(ptr', s) = count[s] - HeldBy(ptr, s)
    BY <1>2, <1>4, <1>5, <2>1
  <2> QED
    BY <1>4, <2>1, <2>2 DEF Spare
<1>8. \A r \in Strings : (mem'[r] = "live") = (count'[r] > 0)
  BY <1>2, <1>5, <1>6 DEF Counts, TypeOK
<1>9. count' \in [Strings -> Nat] /\ mem' \in [Strings -> {"new", "live", "freed"}]
  BY <1>2, <1>5, <1>6 DEF TypeOK
<1>10. ptr'[place] = None /\ \A p \in Places : p # place => ptr'[p] = ptr[p]
  BY <1>2, <1>3
<1> QED
  BY <1>4, <1>7, <1>8, <1>9, <1>10 DEF Balanced

(* A reference that moves is counted as it was.                            *)
LEMMA MoveBalanced ==
    ASSUME TypeOK, Counts, NEW from \in Places, NEW to \in Places,
           ptr[from] # None, ptr[to] = None, Move(from, to), UNCHANGED <<count, mem>>
    PROVE  /\ Balanced
           /\ ptr'[from] = None /\ ptr'[to] # None
           /\ \A p \in Places : p \notin {from, to} => ptr'[p] = ptr[p]
<1>1. ptr \in [Places -> Pointers] /\ Moved(ptr, from, to, ptr')
  BY DEF TypeOK, Moved, Move
<1>2. ptr' \in [Places -> Pointers] /\ \A r \in Strings : HeldBy(ptr', r) = HeldBy(ptr, r)
  BY <1>1, HeldByAnother
<1>3. \A r \in Strings : count'[r] - HeldBy(ptr', r) = Spare(r)
  BY <1>2 DEF Spare
<1>4. /\ ptr'[from] = None /\ ptr'[to] # None
      /\ \A p \in Places : p \notin {from, to} => ptr'[p] = ptr[p]
  BY <1>1 DEF Moved
<1> QED
  BY <1>2, <1>3, <1>4 DEF Balanced, Counts, TypeOK

-----------------------------------------------------------------------------
(* What keeps a borrowed string alive is not disturbed by a step that      *)
(* leaves the statics and what is spare alone, and starts no first use of  *)
(* a static that has its string.                                           *)
LEMMA BorrowedStays ==
    ASSUME TypeOK, BorrowedKept, UNCHANGED <<build, borrowed, early>>,
           \A static \in Statics : ptr'[static] = ptr[static],
           \A s \in Strings : count'[s] - HeldBy(ptr', s) = Spare(s),
           \A u \in Threads, static \in Statics :
              ptr[static] # None /\ FirstUse(u, static)' => FirstUse(u, static)
    PROVE  BorrowedKept'
<1> SUFFICES ASSUME NEW t \in Threads, borrowed[t] # None
             PROVE  IF build = "atomic" THEN early[t] \/ KeptByStatic(borrowed[t])'
                    ELSE InStatic(borrowed[t])' \/ Spare(borrowed[t])' > 0
  BY DEF BorrowedKept
<1> DEFINE s == borrowed[t]
<1>1. s \in Strings /\ s # None
  BY DEF TypeOK, Pointers
<1>2. CASE build = "atomic"
  <2>1. CASE early[t]
    BY <1>2, <2>1
  <2>2. CASE KeptByStatic(s)
    <3>1. PICK static \in Statics : ptr[static] = s /\ \A u \in Threads : ~FirstUse(u, static)
      BY <2>2 DEF KeptByStatic
    <3>2. ptr'[static] = s /\ \A u \in Threads : ~FirstUse(u, static)'
      BY <1>1, <3>1
    <3>3. KeptByStatic(s)'
      BY <3>2 DEF KeptByStatic
    <3> QED
      BY <1>2, <3>3
  <2> QED
    BY <1>2, <2>1, <2>2 DEF BorrowedKept
<1>3. CASE build # "atomic"
  <2>1. CASE InStatic(s)
    BY <1>3, <2>1 DEF InStatic
  <2>2. CASE Spare(s) > 0
    <3>1. Spare(s)' = Spare(s)
      BY <1>1 DEF Spare
    <3> QED
      BY <1>3, <2>2, <3>1
  <2> QED
    BY <1>3, <2>1, <2>2 DEF BorrowedKept
<1> QED
  BY <1>2, <1>3

(* So the counts and the borrowed strings are in order after such a step.  *)
LEMMA BalancedKeeps ==
    ASSUME TypeOK, Counts, BorrowedKept, Balanced, UNCHANGED <<build, borrowed, early>>,
           \A static \in Statics : ptr'[static] = ptr[static],
           \A u \in Threads, static \in Statics :
              ptr[static] # None /\ FirstUse(u, static)' => FirstUse(u, static)
    PROVE  Counts' /\ BorrowedKept'
<1>1. BorrowedKept'
  BY BorrowedStays DEF Balanced
<1>2. \A s \in Strings : Spare(s)' = Spare(s)
  BY DEF Balanced, Spare
<1>3. Counts'
  BY <1>2 DEF Balanced, Counts
<1> QED
  BY <1>1, <1>3

(* No pointer is anybody's.                                                *)
LEMMA InitIInv == Init => IInv
<1> SUFFICES ASSUME Init PROVE IInv
  OBVIOUS
<1> USE DEF Init
<1>1. TypeOK
  BY DEF TypeOK, Pointers, Steps
<1>2. CallsOK
  BY StringUseAssumption DEF CallsOK, Places
<1>3. ASSUME NEW s \in Strings PROVE HeldBy(ptr, s) = 0
  <2>1. HoldersIn(ptr, s) = {}
    BY StringUseAssumption DEF HoldersIn
  <2> QED
    BY <2>1, FS_EmptySet DEF HeldBy
<1>4. Counts
  BY <1>3 DEF Counts, Spare
<1>5. BorrowedKept
  BY DEF BorrowedKept
<1> QED
  BY <1>1, <1>2, <1>4, <1>5 DEF IInv

(* What has been borrowed is live, by whatever keeps it.                   *)
LEMMA BorrowedIsLive == IInv => BorrowedLive
<1> SUFFICES ASSUME IInv, NEW t \in Threads, borrowed[t] # None,
                    build = "atomic" => ~early[t]
             PROVE  mem[borrowed[t]] = "live"
  BY DEF BorrowedLive
<1> USE DEF IInv
<1>1. PICK s \in Strings : s = borrowed[t]
  BY DEF TypeOK, Pointers
<1>2. /\ Spare(s) \in Nat
      /\ (mem[s] = "live") = (count[s] > 0)
      /\ HeldBy(ptr, s) \in Nat
      /\ count[s] \in Nat
  BY HeldFinite DEF Counts, TypeOK
<1>3. InStatic(s) \/ Spare(s) > 0
  BY <1>1 DEF BorrowedKept, KeptByStatic, InStatic
<1>4. ASSUME InStatic(s) PROVE HeldBy(ptr, s) # 0
  <2>1. PICK static \in Statics : ptr[static] = s
    BY <1>4 DEF InStatic
  <2>2. static \in HoldersIn(ptr, s)
    BY <2>1 DEF HoldersIn, Places
  <2> QED
    BY <2>2, HeldFinite, FS_EmptySet DEF HeldBy
<1>5. count[s] > 0
  BY <1>2, <1>3, <1>4 DEF Spare
<1> QED
  BY <1>1, <1>2, <1>5

(* A string that some place points at is live.                             *)
LEMMA HeldIsLive ==
    ASSUME TypeOK, Counts, NEW p \in Places, ptr[p] # None
    PROVE  ptr[p] \in Strings /\ mem[ptr[p]] = "live" /\ count[ptr[p]] > 0
<1>1. PICK s \in Strings : s = ptr[p]
  BY DEF TypeOK, Pointers
<1>2. p \in HoldersIn(ptr, s)
  BY <1>1 DEF HoldersIn
<1>3. HeldBy(ptr, s) # 0
  BY <1>2, HeldFinite, FS_EmptySet DEF HeldBy
<1>4. count[s] - HeldBy(ptr, s) \in Nat /\ HeldBy(ptr, s) \in Nat /\ count[s] \in Nat
  BY HeldFinite DEF Counts, Spare, TypeOK
<1>5. count[s] > 0
  BY <1>3, <1>4
<1> QED
  BY <1>1, <1>5 DEF Counts

-----------------------------------------------------------------------------
(* The places of one kind are not those of another.                        *)
LEMMA PlacesApart ==
    /\ Threads \subseteq Places /\ Statics \subseteq Places
    /\ Slots \subseteq Places /\ Nodes \subseteq Places
    /\ Threads \cap Statics = {} /\ Threads \cap Slots = {} /\ Threads \cap Nodes = {}
    /\ Statics \cap Slots = {} /\ Statics \cap Nodes = {} /\ Slots \cap Nodes = {}
    /\ Statics \cap Pools = {}
    /\ None \notin Strings /\ None \notin Pools /\ None \notin Statics
BY StringUseAssumption DEF Places

(* Clients, outside the calls that take several steps.                     *)
LEMMA ClientIInv == IInv /\ ClientStep => IInv'
<1> SUFFICES ASSUME IInv, ClientStep PROVE IInv'
  OBVIOUS
<1> USE PlacesApart DEF IInv, PoolVars, StaticVars
<1>1. ASSUME NEW slot \in Slots, CreateString(slot) PROVE IInv'
  <2>1. /\ Balanced /\ ptr'[slot] # None
        /\ \A p \in Places : p # slot => ptr'[p] = ptr[p]
    BY <1>1, MakeBalanced DEF CreateString
  <2>2. TypeOK'
    BY <1>1, <2>1 DEF CreateString, TypeOK, Balanced
  <2>3. CallsOK'
    BY <1>1, <2>1 DEF CreateString, CallsOK, TypeOK
  <2>4. Counts' /\ BorrowedKept'
    BY <1>1, <2>1, BalancedKeeps DEF CreateString, FirstUse
  <2> QED
    BY <2>2, <2>3, <2>4
<1>2. ASSUME NEW slot \in Slots, Release(slot) PROVE IInv'
  <2>1. /\ Balanced
        /\ \A p \in Places : p # slot => ptr'[p] = ptr[p]
    BY <1>2, DropBalanced DEF Release
  <2>2. TypeOK'
    BY <1>2, <2>1 DEF Release, TypeOK, Balanced
  <2>3. CallsOK'
    BY <1>2, <2>1 DEF Release, CallsOK, TypeOK
  <2>4. Counts' /\ BorrowedKept'
    BY <1>2, <2>1, BalancedKeeps DEF Release, FirstUse
  <2> QED
    BY <2>2, <2>3, <2>4
<1>3. ASSUME NEW s \in Strings, NEW slot \in Slots, Retain(s, slot) PROVE IInv'
  <2>1. mem[s] = "live" /\ count[s] > 0
    <3>1. s \in Known /\ s # None
      BY <1>3 DEF Retain
    <3>2. CASE \E p \in Places : ptr[p] = s
      BY <3>1, <3>2, HeldIsLive
    <3>3. CASE \E t \in Threads : borrowed[t] = s /\ ~early[t]
      BY <3>1, <3>3, BorrowedIsLive DEF BorrowedLive, Counts
    <3> QED
      BY <3>1, <3>2, <3>3 DEF Known
  <2>2. ptr \in [Places -> Pointers] /\ ptr[slot] = None /\ Changed(ptr, slot, s, ptr')
    BY <1>3 DEF Retain, TypeOK, Changed
  <2>3. /\ ptr' \in [Places -> Pointers]
        /\ HeldBy(ptr', s) = HeldBy(ptr, s) + 1
        /\ \A r \in Strings : r # s => HeldBy(ptr', r) = HeldBy(ptr, r)
    BY <2>2, HeldByOneMore
  <2>4. /\ count \in [Strings -> Nat] /\ count' = [count EXCEPT ![s] = count[s] + 1]
        /\ HeldBy(ptr, s) \in Nat
    BY <1>3, HeldFinite DEF Retain, TypeOK
  <2>5. \A r \in Strings : count'[r] - HeldBy(ptr', r) = Spare(r)
    <3>1. count'[s] = count[s] + 1 /\ \A r \in Strings : r # s => count'[r] = count[r]
      BY <2>4
    <3>2. count'[s] - HeldBy(ptr', s) = count[s] - HeldBy(ptr, s)
      BY <2>3, <2>4, <3>1
    <3> QED
      BY <2>3, <3>1, <3>2 DEF Spare
  <2>6. \A r \in Strings : (mem'[r] = "live") = (count'[r] > 0)
    BY <1>3, <2>1, <2>4 DEF Retain, Counts, TypeOK
  <2>7. Balanced
    <3>1. count' \in [Strings -> Nat]
      BY <2>4
    <3>2. mem' \in [Strings -> {"new", "live", "freed"}]
      BY <1>3 DEF Retain, TypeOK
    <3> QED
      BY <2>3, <2>5, <2>6, <3>1, <3>2 DEF Balanced
  <2>8. \A p \in Places : p # slot => ptr'[p] = ptr[p]
    BY <2>2 DEF Changed
  <2>9. TypeOK' /\ CallsOK'
    BY <1>3, <2>7, <2>8 DEF Retain, TypeOK, Balanced, CallsOK
  <2>10. Counts' /\ BorrowedKept'
    BY <1>3, <2>7, <2>8, BalancedKeeps DEF Retain, FirstUse
  <2> QED
    BY <2>9, <2>10
<1>4. ASSUME NEW slot \in Slots, NEW pool \in Pools, Acquire(slot, pool) PROVE IInv'
  <2>1. PICK n \in Nodes : /\ ptr[n] = None /\ Move(slot, n)
                           /\ poolOf' = [poolOf EXCEPT ![n] = pool]
    BY <1>4 DEF Acquire, AddNode
  <2>2. /\ Balanced /\ ptr'[n] # None
        /\ \A p \in Places : p \notin {slot, n} => ptr'[p] = ptr[p]
    BY <1>4, <2>1, MoveBalanced DEF Acquire
  <2>3. TypeOK'
    BY <1>4, <2>1, <2>2 DEF Acquire, TypeOK, Balanced
  <2>4. CallsOK'
    BY <1>4, <2>1, <2>2 DEF Acquire, CallsOK, TypeOK
  <2>5. Counts' /\ BorrowedKept'
    BY <1>4, <2>2, BalancedKeeps DEF Acquire, FirstUse
  <2> QED
    BY <2>3, <2>4, <2>5
<1>5. ASSUME NEW pool \in Pools, CreatePool(pool) \/ RetainPool(pool) PROVE IInv'
  <2>1. UNCHANGED <<build, ptr, count, mem, poolOf, pc, use, borrowed, early>>
    BY <1>5 DEF CreatePool, RetainPool
  <2>2. TypeOK'
    BY <1>5, <2>1 DEF CreatePool, RetainPool, TypeOK
  <2>3. CallsOK' /\ Counts'
    BY <2>1 DEF CallsOK, Counts, Spare
  <2>4. BorrowedKept'
    BY <2>1 DEF BorrowedKept, KeptByStatic, InStatic, FirstUse, Spare
  <2> QED
    BY <2>2, <2>3, <2>4
<1> QED
  BY <1>1, <1>2, <1>3, <1>4, <1>5 DEF ClientStep

(* Calls that only look, or start, or end.                                 *)
LEMMA QuietIInv ==
    ASSUME IInv, NEW t \in Threads,
           \/ \E static \in Statics : FromStatic(t, static)
           \/ \E pool \in Pools : Clear(t, pool) \/ ReleasePool(t, pool)
           \/ Cleared(t)
    PROVE  IInv'
<1> USE PlacesApart DEF IInv, PoolVars, StaticVars, At, GoTo, Start
<1>1. UNCHANGED <<build, ptr, count, mem, poolOf, borrowed, early>>
  BY DEF FromStatic, Clear, ReleasePool, Cleared
<1>2. Counts'
  BY <1>1 DEF Counts, Spare
<1>3. \A s \in Strings : count'[s] - HeldBy(ptr', s) = Spare(s)
  BY <1>1 DEF Spare
<1>4. ASSUME NEW static \in Statics, FromStatic(t, static) PROVE IInv'
  <2>1. TypeOK' /\ CallsOK'
    BY <1>4 DEF FromStatic, TypeOK, CallsOK, Steps
  <2>2. \A u \in Threads, other \in Statics :
           ptr[other] # None /\ FirstUse(u, other)' => FirstUse(u, other)
    BY <1>4 DEF FromStatic, FirstUse, TypeOK
  <2> QED
    BY <1>1, <1>2, <1>3, <2>1, <2>2, BorrowedStays
<1>5. ASSUME NEW pool \in Pools, Clear(t, pool) \/ ReleasePool(t, pool) PROVE IInv'
  <2>1. TypeOK' /\ CallsOK'
    BY <1>5 DEF Clear, ReleasePool, TypeOK, CallsOK, Steps
  <2>2. \A u \in Threads, other \in Statics :
           ptr[other] # None /\ FirstUse(u, other)' => FirstUse(u, other)
    BY <1>5 DEF Clear, ReleasePool, FirstUse, TypeOK
  <2> QED
    BY <1>1, <1>2, <1>3, <2>1, <2>2, BorrowedStays
<1>6. ASSUME Cleared(t) PROVE IInv'
  <2>1. TypeOK' /\ CallsOK'
    BY <1>6 DEF Cleared, TypeOK, CallsOK, Steps
  <2>2. \A u \in Threads, other \in Statics :
           ptr[other] # None /\ FirstUse(u, other)' => FirstUse(u, other)
    BY <1>6 DEF Cleared, FirstUse, TypeOK
  <2> QED
    BY <1>1, <1>2, <1>3, <2>1, <2>2, BorrowedStays
<1> QED
  BY <1>4, <1>5, <1>6

(* String pools: a string goes from the caller to the pool, or is dropped. *)
LEMMA PoolIInv ==
    ASSUME IInv, NEW t \in Threads,
           \/ \E pool \in Pools : CreatePooled(t, pool)
           \/ AcquireInternal(t) \/ AcquireFails(t) \/ ClearNode(t)
    PROVE  IInv'
<1> USE PlacesApart DEF IInv, PoolVars, StaticVars, At, GoTo, Start
<1>1. ASSUME NEW pool \in Pools, CreatePooled(t, pool) PROVE IInv'
  <2>1. ptr[t] = None
    BY <1>1 DEF CreatePooled, CallsOK
  <2>2. /\ Balanced /\ ptr'[t] # None
        /\ \A p \in Places : p # t => ptr'[p] = ptr[p]
    BY <1>1, <2>1, MakeBalanced DEF CreatePooled
  <2>3. TypeOK'
    BY <1>1, <2>2 DEF CreatePooled, TypeOK, Balanced, Steps
  <2>4. CallsOK'
    BY <1>1, <2>2 DEF CreatePooled, CallsOK, TypeOK
  <2>5. \A u \in Threads, other \in Statics : FirstUse(u, other)' => FirstUse(u, other)
    BY <1>1 DEF CreatePooled, FirstUse, TypeOK
  <2>6. Counts' /\ BorrowedKept'
    BY <1>1, <2>2, <2>5, BalancedKeeps DEF CreatePooled
  <2> QED
    BY <2>3, <2>4, <2>6
<1>2. ASSUME AcquireInternal(t) PROVE IInv'
  <2>1. PICK n \in Nodes : /\ ptr[n] = None /\ Move(t, n)
                           /\ poolOf' = [poolOf EXCEPT ![n] = use[t]]
    BY <1>2 DEF AcquireInternal, AddNode
  <2>2. ptr[t] # None /\ use[t] \in Pools
    BY <1>2 DEF AcquireInternal, CallsOK
  <2>3. /\ Balanced /\ ptr'[n] # None /\ ptr'[t] = None
        /\ \A p \in Places : p \notin {t, n} => ptr'[p] = ptr[p]
    BY <1>2, <2>1, <2>2, MoveBalanced DEF AcquireInternal
  <2>4. TypeOK'
    BY <1>2, <2>1, <2>2, <2>3 DEF AcquireInternal, TypeOK, Balanced, Steps
  <2>5. CallsOK'
    BY <1>2, <2>1, <2>3 DEF AcquireInternal, CallsOK, TypeOK
  <2>6. \A u \in Threads, other \in Statics : FirstUse(u, other)' => FirstUse(u, other)
    BY <1>2 DEF AcquireInternal, FirstUse, TypeOK
  <2>7. Counts' /\ BorrowedKept'
    BY <1>2, <2>3, <2>6, BalancedKeeps DEF AcquireInternal
  <2> QED
    BY <2>4, <2>5, <2>7
<1>3. ASSUME AcquireFails(t) PROVE IInv'
  <2>1. ptr[t] # None
    BY <1>3 DEF AcquireFails, CallsOK
  <2>2. /\ Balanced /\ ptr'[t] = None
        /\ \A p \in Places : p # t => ptr'[p] = ptr[p]
    BY <1>3, <2>1, DropBalanced DEF AcquireFails
  <2>3. TypeOK'
    BY <1>3, <2>2 DEF AcquireFails, TypeOK, Balanced, Steps
  <2>4. CallsOK'
    BY <1>3, <2>2 DEF AcquireFails, CallsOK, TypeOK
  <2>5. \A u \in Threads, other \in Statics : FirstUse(u, other)' => FirstUse(u, other)
    BY <1>3 DEF AcquireFails, FirstUse, TypeOK
  <2>6. Counts' /\ BorrowedKept'
    BY <1>3, <2>2, <2>5, BalancedKeeps DEF AcquireFails
  <2> QED
    BY <2>3, <2>4, <2>6
<1>4. ASSUME ClearNode(t) PROVE IInv'
  <2>1. PICK n \in Contents(use[t]) : Drop(n) /\ poolOf' = [poolOf EXCEPT ![n] = None]
    BY <1>4 DEF ClearNode
  <2>2. n \in Nodes /\ ptr[n] # None
    BY <1>4, <2>1 DEF ClearNode, CallsOK, Contents
  <2>3. /\ Balanced
        /\ \A p \in Places : p # n => ptr'[p] = ptr[p]
    BY <2>1, <2>2, DropBalanced
  <2>4. TypeOK'
    BY <1>4, <2>1, <2>2, <2>3 DEF ClearNode, TypeOK, Balanced
  <2>5. CallsOK'
    BY <1>4, <2>1, <2>2, <2>3 DEF ClearNode, CallsOK, TypeOK
  <2>6. Counts' /\ BorrowedKept'
    BY <1>4, <2>2, <2>3, BalancedKeeps DEF ClearNode, FirstUse
  <2> QED
    BY <2>4, <2>5, <2>6
<1> QED
  BY <1>1, <1>2, <1>3, <1>4

(* FudgeString_fromStatic, but for the exchange.                           *)
LEMMA StaticIInv ==
    ASSUME IInv, NEW t \in Threads, CreateStatic(t) \/ ReleaseOld(t) \/ Return(t)
    PROVE  IInv'
<1> USE PlacesApart DEF IInv, PoolVars, StaticVars, At, GoTo
<1>1. ASSUME CreateStatic(t) PROVE IInv'
  <2>1. ptr[t] = None /\ use[t] \in Statics
    BY <1>1 DEF CreateStatic, CallsOK
  <2>2. /\ Balanced /\ ptr'[t] # None
        /\ \A p \in Places : p # t => ptr'[p] = ptr[p]
    BY <1>1, <2>1, MakeBalanced DEF CreateStatic
  <2>3. TypeOK'
    BY <1>1, <2>2 DEF CreateStatic, TypeOK, Balanced, Steps
  <2>4. CallsOK'
    BY <1>1, <2>2 DEF CreateStatic, CallsOK, TypeOK
  <2>5. \A u \in Threads, other \in Statics : FirstUse(u, other)' => FirstUse(u, other)
    BY <1>1 DEF CreateStatic, FirstUse, TypeOK
  <2>6. Counts' /\ BorrowedKept'
    BY <1>1, <2>2, <2>5, BalancedKeeps DEF CreateStatic
  <2> QED
    BY <2>3, <2>4, <2>6
<1>2. ASSUME ReleaseOld(t) PROVE IInv'
  <2>1. ptr[t] # None /\ use[t] \in Statics /\ ptr[use[t]] # None
    BY <1>2 DEF ReleaseOld, CallsOK
  <2>2. /\ Balanced /\ ptr'[t] = None
        /\ \A p \in Places : p # t => ptr'[p] = ptr[p]
    BY <1>2, <2>1, DropBalanced DEF ReleaseOld
  <2>3. TypeOK'
    BY <1>2, <2>2 DEF ReleaseOld, TypeOK, Balanced, Steps
  <2>4. CallsOK'
    BY <1>2, <2>1, <2>2 DEF ReleaseOld, CallsOK, TypeOK
  <2>5. \A u \in Threads, other \in Statics : FirstUse(u, other)' => FirstUse(u, other)
    BY <1>2 DEF ReleaseOld, FirstUse, TypeOK
  <2>6. Counts' /\ BorrowedKept'
    BY <1>2, <2>2, <2>5, BalancedKeeps DEF ReleaseOld
  <2> QED
    BY <2>3, <2>4, <2>6
<1>3. ASSUME Return(t) PROVE IInv'
  <2>1. PICK static \in Statics : static = use[t] /\ ptr[static] # None
    BY <1>3 DEF Return, CallsOK
  <2>2. /\ UNCHANGED <<build, ptr, count, mem, poolOf, poolRefs>>
        /\ pc' = [pc EXCEPT ![t] = "idle"] /\ use' = [use EXCEPT ![t] = None]
        /\ borrowed' = [borrowed EXCEPT ![t] = ptr[static]]
        /\ early' = [early EXCEPT ![t] = \E u \in Threads : FirstUse(u, static)]
    BY <1>3, <2>1 DEF Return
  <2>3. TypeOK'
    BY <2>2 DEF TypeOK, Steps
  <2>4. CallsOK' /\ Counts'
    <3>1. CallsOK'
      BY <1>3, <2>2 DEF CallsOK, TypeOK, Return
    <3> QED
      BY <2>2, <3>1 DEF Counts, Spare
  <2>5. \A u \in Threads, other \in Statics : FirstUse(u, other)' => FirstUse(u, other)
    BY <2>2 DEF FirstUse, TypeOK
  <2>6. BorrowedKept'
    <3>1. SUFFICES ASSUME NEW u \in Threads, borrowed'[u] # None
                   PROVE  IF build = "atomic" THEN early'[u] \/ KeptByStatic(borrowed[u])'
                          ELSE InStatic(borrowed[u])' \/ Spare(borrowed[u])' > 0
      BY <2>2 DEF BorrowedKept
    <3>2. CASE u = t
      <4>1. borrowed'[u] = ptr[static] /\ early'[u] = \E v \in Threads : FirstUse(v, static)
        BY <2>2, <3>2 DEF TypeOK
      <4>2. InStatic(borrowed[u])'
        BY <2>2, <4>1 DEF InStatic
      <4>3. CASE ~early'[u]
        <5>1. \A v \in Threads : ~FirstUse(v, static)'
          BY <2>5, <4>1, <4>3
        <5> QED
          BY <2>2, <4>1, <4>2, <5>1 DEF KeptByStatic
      <4> QED
        BY <4>2, <4>3
    <3>3. CASE u # t
      <4>1. borrowed'[u] = borrowed[u] /\ early'[u] = early[u]
        BY <2>2, <3>3 DEF TypeOK
      <4>2. IF build = "atomic" THEN early[u] \/ KeptByStatic(borrowed[u])
            ELSE InStatic(borrowed[u]) \/ Spare(borrowed[u]) > 0
        BY <3>1, <4>1 DEF BorrowedKept
      <4> QED
        BY <2>2, <2>5, <4>1, <4>2 DEF KeptByStatic, InStatic, Spare
    <3> QED
      BY <3>2, <3>3
  <2> QED
    BY <2>3, <2>4, <2>6
<1> QED
  BY <1>1, <1>2, <1>3

(* What AtomicExchangePointer does to the number of holders.  A thread     *)
(* that gets the old pointer back holds it now, so that nothing is lost;   *)
(* one that does not loses what the static had, if it had anything.        *)
LEMMA ExchangeHolders ==
    ASSUME IInv, NEW t \in Threads, Exchange(t), NEW static \in Statics, static = use[t]
    PROVE  /\ ptr' \in [Places -> Pointers]
           /\ \A r \in Strings : HeldBy(ptr', r) =
                 HeldBy(ptr, r) - (IF build = "pthreads" /\ ptr[static] = r THEN 1 ELSE 0)
<1> USE PlacesApart
<1>1. /\ ptr \in [Places -> Pointers] /\ ptr[t] # None
      /\ build \in {"atomic", "pthreads"}
  BY DEF IInv, TypeOK, CallsOK, Exchange, At
<1>2. PICK old : old = IF build = "atomic" THEN ptr[static] ELSE None
  OBVIOUS
<1>3. ptr' = [ptr EXCEPT ![static] = ptr[t], ![t] = old]
  BY <1>2 DEF Exchange
<1>4. CASE ptr[static] = None
  <2>1. Moved(ptr, t, static, ptr')
    BY <1>1, <1>2, <1>3, <1>4 DEF Moved
  <2>2. ptr' \in [Places -> Pointers] /\ \A r \in Strings : HeldBy(ptr', r) = HeldBy(ptr, r)
    BY <1>1, <1>4, <2>1, HeldByAnother
  <2> QED
    BY <1>4, <2>2, HeldFinite
<1>5. CASE ptr[static] # None
  <2>1. PICK s \in Strings : s = ptr[static]
    BY <1>1, <1>5 DEF Pointers
  <2>2. PICK dropped : Changed(ptr, static, None, dropped)
    BY DEF Changed
  <2>3. /\ dropped \in [Places -> Pointers]
        /\ HeldBy(dropped, s) = HeldBy(ptr, s) - 1
        /\ \A r \in Strings : r # s => HeldBy(dropped, r) = HeldBy(ptr, r)
    BY <1>1, <1>5, <2>1, <2>2, HeldByOneLess
  <2>4. PICK moved : Moved(dropped, t, static, moved)
    BY DEF Moved
  <2>5. dropped[t] # None /\ dropped[static] = None
    BY <1>1, <2>2 DEF Changed
  <2>6. moved \in [Places -> Pointers] /\ \A r \in Strings : HeldBy(moved, r) = HeldBy(dropped, r)
    BY <2>3, <2>4, <2>5, HeldByAnother
  <2>7. HeldBy(ptr, s) \in Nat /\ \A r \in Strings : HeldBy(ptr, r) \in Nat
    BY HeldFinite
  <2>8. CASE build = "pthreads"
    <3>1. ptr' = moved
      BY <1>1, <1>2, <1>3, <2>2, <2>4, <2>8 DEF Changed, Moved
    <3> QED
      BY <2>1, <2>3, <2>6, <2>7, <2>8, <3>1
  <2>9. CASE build = "atomic"
    <3>1. moved[t] = None /\ Changed(moved, t, s, ptr')
      BY <1>1, <1>2, <1>3, <2>1, <2>2, <2>4, <2>9 DEF Changed, Moved
    <3>2. /\ ptr' \in [Places -> Pointers]
          /\ HeldBy(ptr', s) = HeldBy(moved, s) + 1
          /\ \A r \in Strings : r # s => HeldBy(ptr', r) = HeldBy(moved, r)
      BY <2>6, <3>1, HeldByOneMore
    <3>3. \A r \in Strings : HeldBy(ptr', r) = HeldBy(ptr, r)
      BY <2>3, <2>6, <2>7, <3>2
    <3> QED
      BY <2>7, <2>9, <3>2, <3>3
  <2> QED
    BY <1>1, <2>8, <2>9
<1> QED
  BY <1>4, <1>5

(* What the other threads have borrowed stays, whichever string the static *)
(* has in the end: in the atomic build it had none, unless they were early *)
(* themselves; in the pthreads build what is lost is never released.       *)
LEMMA ExchangeIInv ==
    ASSUME IInv, NEW t \in Threads, Exchange(t)
    PROVE  IInv'
<1> USE PlacesApart DEF IInv, PoolVars, StaticVars, At, GoTo
<1>1. PICK static \in Statics : static = use[t] /\ ptr[t] # None /\ pc[t] = "exchange"
  BY DEF Exchange, CallsOK
<1>2. PICK old : old = IF build = "atomic" THEN ptr[static] ELSE None
  OBVIOUS
<1>3. /\ ptr' = [ptr EXCEPT ![static] = ptr[t], ![t] = old]
      /\ pc' = [pc EXCEPT ![t] = IF old = None THEN "return" ELSE "release"]
      /\ UNCHANGED <<build, count, mem, poolOf, poolRefs, use, borrowed, early>>
  BY <1>1, <1>2 DEF Exchange
<1>4. /\ ptr' \in [Places -> Pointers]
      /\ \A r \in Strings : HeldBy(ptr', r) =
            HeldBy(ptr, r) - (IF build = "pthreads" /\ ptr[static] = r THEN 1 ELSE 0)
  BY <1>1, ExchangeHolders
<1>5. /\ ptr'[static] # None /\ ptr'[t] = old
      /\ \A p \in Places : p \notin {static, t} => ptr'[p] = ptr[p]
  BY <1>1, <1>3 DEF TypeOK
<1>6. TypeOK'
  BY <1>3, <1>4 DEF TypeOK, Steps
<1>7. CallsOK'
  BY <1>1, <1>3, <1>5 DEF CallsOK, TypeOK
<1>8. \A s \in Strings :
        /\ Spare(s) \in Nat
        /\ Spare(s)' = Spare(s) + (IF build = "pthreads" /\ ptr[static] = s THEN 1 ELSE 0)
  <2> SUFFICES ASSUME NEW s \in Strings
               PROVE  /\ Spare(s) \in Nat
                      /\ Spare(s)' = Spare(s)
                           + (IF build = "pthreads" /\ ptr[static] = s THEN 1 ELSE 0)
    OBVIOUS
  <2>1. Spare(s) \in Nat /\ HeldBy(ptr, s) \in Nat /\ count[s] \in Nat
    BY HeldFinite DEF Counts, TypeOK
  <2>2. Spare(s)' = count[s] - HeldBy(ptr', s) /\ Spare(s) = count[s] - HeldBy(ptr, s)
    BY <1>3 DEF Spare
  <2>3. HeldBy(ptr', s) =
           HeldBy(ptr, s) - (IF build = "pthreads" /\ ptr[static] = s THEN 1 ELSE 0)
    BY <1>4
  <2> QED
    BY <2>1, <2>2, <2>3
<1>9. Counts'
  BY <1>3, <1>8 DEF Counts
<1>10. \A u \in Threads, other \in Statics : FirstUse(u, other)' => FirstUse(u, other)
  BY <1>3 DEF FirstUse, TypeOK
<1>11. BorrowedKept'
  <2>1. SUFFICES ASSUME NEW u \in Threads, borrowed[u] # None
                 PROVE  IF build = "atomic" THEN early[u] \/ KeptByStatic(borrowed[u])'
                        ELSE InStatic(borrowed[u])' \/ Spare(borrowed[u])' > 0
    BY <1>3 DEF BorrowedKept
  <2>2. PICK s \in Strings : s = borrowed[u] /\ s = borrowed'[u]
    BY <1>3, <2>1 DEF TypeOK, Pointers
  <2>3. CASE build = "atomic"
    <3>1. SUFFICES ASSUME KeptByStatic(s) PROVE KeptByStatic(s)'
      BY <1>3, <2>1, <2>2, <2>3 DEF BorrowedKept
    <3>2. PICK other \in Statics : ptr[other] = s /\ \A v \in Threads : ~FirstUse(v, other)
      BY <3>1 DEF KeptByStatic
    <3>3. other # static
      BY <1>1, <3>2 DEF FirstUse
    <3>4. ptr'[other] = s /\ \A v \in Threads : ~FirstUse(v, other)'
      BY <1>5, <1>10, <3>2, <3>3
    <3> QED
      BY <3>4 DEF KeptByStatic
  <2>4. CASE build # "atomic"
    <3>1. build = "pthreads"
      BY <2>4 DEF TypeOK
    <3>2. CASE ptr[static] = s \/ Spare(s) > 0
      <4>1. Spare(s)' > 0
        BY <1>8, <3>1, <3>2
      <4> QED
        BY <2>2, <2>4, <4>1
    <3>3. CASE ptr[static] # s /\ InStatic(s)
      <4>1. InStatic(s)'
        BY <1>5, <3>3 DEF InStatic
      <4> QED
        BY <2>2, <2>4, <4>1
    <3> QED
      BY <2>1, <2>2, <2>4, <3>2, <3>3 DEF BorrowedKept
  <2> QED
    BY <2>3, <2>4
<1> QED
  BY <1>6, <1>7, <1>9, <1>11

(* Every step preserves the inductive invariant.                           *)
LEMMA NextIInv == IInv /\ [Next]_vars => IInv'
<1> SUFFICES ASSUME IInv, [Next]_vars PROVE IInv'
  OBVIOUS
<1>1. CASE ClientStep
  BY <1>1, ClientIInv
<1>2. ASSUME NEW t \in Threads, CallStep(t) PROVE IInv'
  BY <1>2, QuietIInv, PoolIInv, StaticIInv, ExchangeIInv DEF CallStep
<1>3. CASE UNCHANGED vars
  BY <1>3 DEF vars, IInv, TypeOK, CallsOK, Counts, Spare, BorrowedKept, KeptByStatic,
              InStatic, FirstUse
<1> QED
  BY <1>1, <1>2, <1>3 DEF Next

(* So it holds in every state that can be reached, whether or not the      *)
(* program has more to do than to use its strings.                         *)
THEOREM Inductive == Spec \/ LibrarySpec => []IInv
<1>1. Spec => []IInv
  BY InitIInv, NextIInv, PTL DEF Spec
<1>2. LibraryInit => IInv
  BY InitIInv DEF LibraryInit
<1>3. IInv /\ [LibraryNext]_<<vars, setUp>> => IInv'
  BY NextIInv DEF LibraryNext, InitEx, Register
<1>4. LibrarySpec => []IInv
  BY <1>2, <1>3, PTL DEF LibrarySpec
<1> QED
  BY <1>1, <1>4, PTL

-----------------------------------------------------------------------------
(* The variables keep their types.                                         *)
THEOREM TypeCorrect == Spec \/ LibrarySpec => []TypeOK
<1>1. IInv => TypeOK
  BY DEF IInv
<1> QED
  BY <1>1, Inductive, PTL

(* Whatever clients, pools and first uses of static strings do together,   *)
(* a string is live exactly while it is counted, and counted by what holds *)
(* it (FudgeString_retain, FudgeString_release, FudgeStringPool_acquire,   *)
(* FudgeString_fromStatic).                                                *)
THEOREM CountsCorrect == Spec \/ LibrarySpec => []ReferencesOwned
<1>1. IInv => ReferencesOwned
  <2> SUFFICES ASSUME IInv, NEW s \in Strings
               PROVE  /\ (mem[s] = "live") = (count[s] > 0)
                      /\ IF build = "atomic" THEN count[s] = Cardinality(Holders(s))
                         ELSE count[s] >= Cardinality(Holders(s))
    BY DEF ReferencesOwned
  <2>1. Cardinality(Holders(s)) = HeldBy(ptr, s)
    BY DEF Holders, HeldBy, HoldersIn
  <2>2. /\ (mem[s] = "live") = (count[s] > 0)
        /\ count[s] - HeldBy(ptr, s) \in Nat
        /\ build = "atomic" => count[s] - HeldBy(ptr, s) = 0
        /\ HeldBy(ptr, s) \in Nat /\ count[s] \in Nat
    BY HeldFinite DEF IInv, Counts, Spare, TypeOK
  <2> QED
    BY <2>1, <2>2
<1> QED
  BY <1>1, Inductive, PTL

(* What FudgeString_fromStatic has returned stays live: in the atomic      *)
(* build if no other thread was using the static for the first time, and   *)
(* always where the exchange only stores.                                  *)
THEOREM BorrowedStayLive == Spec \/ LibrarySpec => []BorrowedLive
BY BorrowedIsLive, Inductive, PTL

-----------------------------------------------------------------------------
(* A library that is initialised has a memory manager, which is how        *)
(* FudgeMemory_init tells that it is not the first call.                   *)
ManagerSet == initialised => manager # NoManager

SetUpOK ==
    /\ initialised \in BOOLEAN
    /\ registry = [type \in TypeIds |-> registry[type]]
    /\ ManagerSet

(* This is so at first, and after each step.                               *)
LEMMA LibraryInitSetUpOK == LibraryInit => SetUpOK
BY DEF LibraryInit, SetUpOK, ManagerSet

(* To register a type needs functions for it, and touches no other type.   *)
LEMMA RegisterOne ==
    ASSUME SetUpOK, NEW type \in TypeIds, NEW payload,
           NEW codec \in Functions \cup {Null}, NEW coercer \in Functions \cup {Null},
           Register(type, payload, codec, coercer)
    PROVE  /\ SetUpOK'
           /\ \A other \in TypeIds :
                 registry'[other] # registry[other] => registry'[other].codec \in Functions
<1>1. \/ registry' = registry
      \/ /\ codec # Null
         /\ registry' = [registry EXCEPT ![type] =
               [fixedwidth |-> Variable, payload |-> payload,
                codec |-> codec, coercer |-> coercer]]
  BY DEF Register, RegisterType
<1>2. SetUpOK'
  BY <1>1 DEF Register, SetUpOK, ManagerSet
<1> QED
  BY <1>1, <1>2 DEF SetUpOK

(* A step that changes what is set up is one of the program's.             *)
LEMMA LibraryNextSetUpOK ==
    SetUpOK /\ [LibraryNext]_<<vars, setUp>> =>
        /\ SetUpOK'
        /\ initialised =>
              /\ initialised' /\ manager' = manager
              /\ \A type \in TypeIds : registry'[type] # registry[type] =>
                    registry'[type].codec \in Functions
<1> SUFFICES ASSUME SetUpOK, [LibraryNext]_<<vars, setUp>>
             PROVE  /\ SetUpOK'
                    /\ initialised =>
                          /\ initialised' /\ manager' = manager
                          /\ \A type \in TypeIds : registry'[type] # registry[type] =>
                                registry'[type].codec \in Functions
  OBVIOUS
<1>1. ASSUME NEW mm, InitEx(mm)
      PROVE  SetUpOK' /\ (initialised => initialised' /\ manager' = manager /\ registry' = registry)
  BY <1>1 DEF InitEx, RegistryInit, SetUpOK, ManagerSet
<1>2. CASE \E type \in TypeIds, payload \in {"LOCAL", "BYTES", "SUBMSG", "STRING"},
             codec, coercer \in Functions \cup {Null} : Register(type, payload, codec, coercer)
  <2>1. initialised' = initialised /\ manager' = manager
    BY <1>2 DEF Register
  <2> QED
    BY <1>2, <2>1, RegisterOne
<1>3. CASE UNCHANGED setUp
  BY <1>3 DEF setUp, SetUpOK, ManagerSet
<1> QED
  BY <1>1, <1>2, <1>3 DEF LibraryNext

(* Initialising again has no effect: the memory manager stays the one that *)
(* has allocated whatever there is, and a registered type stays as it is   *)
(* until it is registered again (Fudge_initEx, FudgeMemory_init,           *)
(* FudgeRegistry_init, FudgeRegistry_registerType).                        *)
THEOREM SetUpStays == LibrarySpec => SetUpKept
BY LibraryInitSetUpOK, LibraryNextSetUpOK, PTL DEF LibrarySpec, SetUpKept

-----------------------------------------------------------------------------
(* Characters in UTF-8 and UTF-16.                                         *)

(* A number in digits of six bits.                                         *)
LEMMA SixBits ==
    ASSUME NEW x \in Nat
    PROVE  /\ x \div 64 \in Nat /\ x % 64 \in 0..63
           /\ x = (x \div 64) * 64 + (x % 64)
           /\ x \div 4096 = (x \div 64) \div 64
           /\ x \div 262144 = (x \div 4096) \div 64
BY SMT

(* UTF-8, by the number of bytes a character takes: one, ...               *)
LEMMA OneByte ==
    ASSUME NEW c \in Nat, c < 128
    PROVE  /\ Len(ToUTF8(c)) = 1
           /\ isLegalUTF8(ToUTF8(c)) /\ FromUTF8(ToUTF8(c)) = c
           /\ trailingBytesForUTF8(ToUTF8(c)[1]) = 0
<1>1. ToUTF8(c) = <<c>>
  BY SMT DEF ToUTF8, BytesToWrite
<1>2. Len(<<c>>) = 1 /\ <<c>>[1] = c
  OBVIOUS
<1> QED
  BY <1>1, <1>2, SMT DEF isLegalUTF8, FromUTF8, trailingBytesForUTF8

(* ... two, ...                                                            *)
LEMMA TwoBytes ==
    ASSUME NEW c \in Nat, 128 <= c, c < 2048
    PROVE  /\ Len(ToUTF8(c)) = 2
           /\ isLegalUTF8(ToUTF8(c)) /\ FromUTF8(ToUTF8(c)) = c
           /\ trailingBytesForUTF8(ToUTF8(c)[1]) = 1
<1> DEFINE a == 192 + c \div 64
           b == 128 + (c % 64)
<1>1. ToUTF8(c) = <<a, b>>
  BY SMT DEF ToUTF8, BytesToWrite, UNI_MAX_BMP
<1>2. a \in 194..223 /\ b \in 128..191 /\ c = a * 64 + b - 12416
  BY SixBits, SMT
<1> HIDE DEF a, b
<1>3. Len(<<a, b>>) = 2 /\ <<a, b>>[1] = a /\ <<a, b>>[2] = b
  OBVIOUS
<1> QED
  BY <1>1, <1>2, <1>3, SMT DEF isLegalUTF8, FromUTF8, trailingBytesForUTF8, offsetsFromUTF8

(* ... three, which is where a half pair is found out, ...                 *)
LEMMA ThreeBytes ==
    ASSUME NEW c \in Nat, 2048 <= c, c <= 65535
    PROVE  /\ Len(ToUTF8(c)) = 3
           /\ isLegalUTF8(ToUTF8(c)) <=> (c < 55296 \/ 57343 < c)
           /\ FromUTF8(ToUTF8(c)) = c
           /\ trailingBytesForUTF8(ToUTF8(c)[1]) = 2
<1> DEFINE a == 224 + c \div 4096
           b == 128 + ((c \div 64) % 64)
           d == 128 + (c % 64)
<1>1. ToUTF8(c) = <<a, b, d>>
  BY SMT DEF ToUTF8, BytesToWrite, UNI_MAX_BMP
<1>2. /\ a \in 224..239 /\ b \in 128..191 /\ d \in 128..191
      /\ c = a * 4096 + b * 64 + d - 925824
  BY SixBits, SMT
<1> HIDE DEF a, b, d
<1>3. /\ Len(<<a, b, d>>) = 3
      /\ <<a, b, d>>[1] = a /\ <<a, b, d>>[2] = b /\ <<a, b, d>>[3] = d
  OBVIOUS
<1>4. FromUTF8(ToUTF8(c)) = c /\ trailingBytesForUTF8(ToUTF8(c)[1]) = 2
  BY <1>1, <1>2, <1>3, SMT DEF FromUTF8, trailingBytesForUTF8, offsetsFromUTF8
<1>5. isLegalUTF8(<<a, b, d>>) <=> (a = 224 => b >= 160) /\ (a = 237 => b <= 159)
  BY <1>2, <1>3, SMT DEF isLegalUTF8
<1>6. (a = 224 => b >= 160) /\ ((a = 237 => b <= 159) <=> (c < 55296 \/ 57343 < c))
  BY <1>2, SMT
<1> QED
  BY <1>1, <1>3, <1>4, <1>5, <1>6

(* ... or four.                                                            *)
LEMMA FourBytes ==
    ASSUME NEW c \in Nat, 65536 <= c, c <= 1114111
    PROVE  /\ Len(ToUTF8(c)) = 4
           /\ isLegalUTF8(ToUTF8(c)) /\ FromUTF8(ToUTF8(c)) = c
           /\ trailingBytesForUTF8(ToUTF8(c)[1]) = 3
<1> DEFINE a == 240 + c \div 262144
           b == 128 + ((c \div 4096) % 64)
           d == 128 + ((c \div 64) % 64)
           e == 128 + (c % 64)
<1>1. ToUTF8(c) = <<a, b, d, e>>
  BY SMT DEF ToUTF8, BytesToWrite, UNI_MAX_BMP
<1>2. /\ a \in 240..244 /\ b \in 128..191 /\ d \in 128..191 /\ e \in 128..191
      /\ c = a * 262144 + b * 4096 + d * 64 + e - 63447168
  BY SixBits, SMT
<1> HIDE DEF a, b, d, e
<1>3. /\ Len(<<a, b, d, e>>) = 4
      /\ <<a, b, d, e>>[1] = a /\ <<a, b, d, e>>[2] = b
      /\ <<a, b, d, e>>[3] = d /\ <<a, b, d, e>>[4] = e
  OBVIOUS
<1>4. FromUTF8(ToUTF8(c)) = c /\ trailingBytesForUTF8(ToUTF8(c)[1]) = 3
  BY <1>1, <1>2, <1>3, SMT DEF FromUTF8, trailingBytesForUTF8, offsetsFromUTF8
<1>5. (a = 240 => b >= 144) /\ (a = 244 => b <= 143)
  BY <1>2, SMT
<1>6. isLegalUTF8(<<a, b, d, e>>)
  BY <1>2, <1>3, <1>5, SMT DEF isLegalUTF8
<1> QED
  BY <1>1, <1>3, <1>4, <1>6

(* Every character is written in as many bytes as its first one announces, *)
(* is found legal and is read back (ConvertUTF32toUTF8 and the             *)
(* conversions from UTF-8).                                                *)
THEOREM UTF8RoundTrip ==
    ASSUME NEW c \in Nat, IsCharacter(c)
    PROVE  /\ isLegalUTF8(ToUTF8(c))
           /\ FromUTF8(ToUTF8(c)) = c
           /\ Len(ToUTF8(c)) = trailingBytesForUTF8(ToUTF8(c)[1]) + 1
<1>1. c \in Nat /\ c <= 1114111 /\ (c < 55296 \/ 57343 < c)
  BY SMT DEF IsCharacter, UNI_MAX_LEGAL_UTF32, Surrogates, HighSurrogates, LowSurrogates
<1>2. CASE c < 128
  <2>1. /\ isLegalUTF8(ToUTF8(c)) /\ FromUTF8(ToUTF8(c)) = c
        /\ Len(ToUTF8(c)) = 1 /\ trailingBytesForUTF8(ToUTF8(c)[1]) = 0
    BY <1>1, <1>2, OneByte, SMT
  <2> QED
    BY <2>1
<1>3. CASE 128 <= c /\ c < 2048
  <2>1. /\ isLegalUTF8(ToUTF8(c)) /\ FromUTF8(ToUTF8(c)) = c
        /\ Len(ToUTF8(c)) = 2 /\ trailingBytesForUTF8(ToUTF8(c)[1]) = 1
    BY <1>1, <1>3, TwoBytes, SMT
  <2> QED
    BY <2>1
<1>4. CASE 2048 <= c /\ c <= 65535
  <2>1. /\ isLegalUTF8(ToUTF8(c)) /\ FromUTF8(ToUTF8(c)) = c
        /\ Len(ToUTF8(c)) = 3 /\ trailingBytesForUTF8(ToUTF8(c)[1]) = 2
    BY <1>1, <1>4, ThreeBytes, SMT
  <2> QED
    BY <2>1
<1>5. CASE 65536 <= c
  <2>1. /\ isLegalUTF8(ToUTF8(c)) /\ FromUTF8(ToUTF8(c)) = c
        /\ Len(ToUTF8(c)) = 4 /\ trailingBytesForUTF8(ToUTF8(c)[1]) = 3
    BY <1>1, <1>5, FourBytes, SMT
  <2> QED
    BY <2>1
<1> QED
  BY <1>1, <1>2, <1>3, <1>4, <1>5, SMT

(* Half of a surrogate pair is written as three bytes, as lenient          *)
(* conversion has it, which isLegalUTF8 refuses: such a string is made and *)
(* cannot be read again.                                                   *)
THEOREM HalfPairRefused ==
    ASSUME NEW c \in Nat, 55296 <= c, c <= 57343
    PROVE  /\ Len(ToUTF8(c)) = 3
           /\ ~isLegalUTF8(ToUTF8(c))
<1>1. 2048 <= c /\ c <= 65535 /\ ~(c < 55296 \/ 57343 < c)
  BY SMT
<1> QED
  BY <1>1, ThreeBytes

(* Every character above the basic plane is a high and a low surrogate in  *)
(* UTF-16, and is read back from them; every other is itself, and is not   *)
(* taken for the first half of a pair.                                     *)
THEOREM UTF16RoundTrip ==
    ASSUME NEW c \in Nat, IsCharacter(c)
    PROVE  IF c <= UNI_MAX_BMP
           THEN ToUTF16(c) = <<c>> /\ c \notin HighSurrogates
           ELSE \E high \in HighSurrogates, low \in LowSurrogates :
                   ToUTF16(c) = <<high, low>> /\ FromPair(high, low) = c
<1>1. c \in Nat /\ c <= 1114111 /\ (c < 55296 \/ 57343 < c)
  BY SMT DEF IsCharacter, UNI_MAX_LEGAL_UTF32, Surrogates, HighSurrogates, LowSurrogates
<1>2. CASE c <= UNI_MAX_BMP
  BY <1>1, <1>2, SMT DEF ToUTF16, HighSurrogates
<1>3. CASE ~(c <= UNI_MAX_BMP)
  <2> DEFINE high == 55296 + (c - halfBase) \div 1024
             low  == 56320 + ((c - halfBase) % 1024)
  <2>1. c - 65536 \in Nat /\ c - 65536 < 1048576
    BY <1>1, <1>3, SMT DEF UNI_MAX_BMP
  <2>2. high \in HighSurrogates /\ low \in LowSurrogates /\ FromPair(high, low) = c
    BY <1>1, <2>1, SMT DEF halfBase, HighSurrogates, LowSurrogates, FromPair
  <2>3. ToUTF16(c) = <<high, low>>
    BY <1>3 DEF ToUTF16
  <2> QED
    BY <1>3, <2>2, <2>3
<1> QED
  BY <1>2, <1>3

-----------------------------------------------------------------------------
(* Recursion over what has a size in natural numbers.                      *)

(* A set of natural numbers that is not empty has a least element.         *)
LEMMA Least ==
    ASSUME NEW T \in SUBSET Nat, T # {}
    PROVE  \E n \in T : \A k \in T : n <= k
<1>1. PICK n \in T : \A k \in T : ~(<<k, n>> \in OpToRel(<, Nat))
  BY NatLessThanWellFounded, WFMin
<1>2. \A k \in T : ~(k < n)
  BY <1>1 DEF OpToRel
<1>3. n \in Nat /\ \A k \in T : k \in Nat /\ n <= k
  BY <1>2
<1> QED
  BY <1>3

(* F makes the right-hand side of a recursive definition from its left.    *)
(* The value at n depends on values at smaller ones, by mu.                *)
DependsBelow(S, mu, V, F) ==
    /\ mu \in [S -> Nat]
    /\ V # {}
    /\ F \in [[S -> V] -> [S -> V]]
    /\ \A n \in S : \A g, h \in [S -> V] :
           (\A k \in S : mu[k] < mu[n] => g[k] = h[k]) => F[g][n] = F[h][n]

(* There is a function that such a definition defines.                     *)
LEMMA Recursion ==
    ASSUME NEW S, NEW mu, NEW V, NEW F, DependsBelow(S, mu, V, F)
    PROVE  \E f \in [S -> V] : F[f] = f
<1> USE DEF DependsBelow
<1> DEFINE GoodTo(g, n) == \A k \in S : mu[k] < n => F[g][k] = g[k]
           Bad == {n \in Nat : ~ \E g \in [S -> V] : GoodTo(g, n)}
           Differ(g, h, n) == {k \in S : mu[k] < n /\ g[k] # h[k]}
<1>1. ASSUME NEW g \in [S -> V], NEW h \in [S -> V], NEW n \in Nat,
             GoodTo(g, n), GoodTo(h, n)
      PROVE  \A k \in S : mu[k] < n => g[k] = h[k]
  <2> SUFFICES ASSUME Differ(g, h, n) # {} PROVE FALSE
    OBVIOUS
  <2>1. Differ(g, h, n) \subseteq S
    OBVIOUS
  <2>2. PICK k \in Differ(g, h, n) : \A j \in Differ(g, h, n) : mu[k] <= mu[j]
    <3> DEFINE T == {mu[j] : j \in Differ(g, h, n)}
    <3>1. T \in SUBSET Nat /\ T # {}
      <4>1. \A j \in S : mu[j] \in Nat
        OBVIOUS
      <4> HIDE DEF GoodTo, Differ
      <4> QED BY <4>1, <2>1
    <3>2. PICK t \in T : \A u \in T : t <= u
      <4> HIDE DEF T
      <4> QED BY <3>1, Least
    <3> QED BY <3>2
  <2>3. k \in S /\ mu[k] \in Nat /\ mu[k] < n /\ g[k] # h[k]
    OBVIOUS
  <2>4. \A j \in S : mu[j] < mu[k] => g[j] = h[j]
    BY <2>2, <2>3
  <2>5. F[g][k] = F[h][k]
    BY <2>3, <2>4
  <2> QED
    BY <1>1, <2>3, <2>5
<1>2. ASSUME NEW n \in Nat PROVE \E g \in [S -> V] : GoodTo(g, n)
  <2> SUFFICES ASSUME Bad # {} PROVE FALSE
    OBVIOUS
  <2>1. PICK b \in Bad : \A k \in Bad : b <= k
    <3>1. Bad \in SUBSET Nat
      OBVIOUS
    <3> HIDE DEF Bad
    <3> QED BY <3>1, Least
  <2>2. PICK v \in V : TRUE
    OBVIOUS
  <2>3. b # 0
    <3>1. [s \in S |-> v] \in [S -> V] /\ GoodTo([s \in S |-> v], 0)
      OBVIOUS
    <3> QED BY <3>1
  <2>4. PICK g \in [S -> V] : GoodTo(g, b - 1)
    <3>1. b \in Nat /\ b - 1 \in Nat /\ ~(b <= b - 1)
      BY <2>3
    <3>2. b - 1 \notin Bad
      <4> HIDE DEF Bad
      <4> QED BY <2>1, <3>1
    <3> QED BY <3>1, <3>2
  <2> DEFINE h == [k \in S |-> F[g][k]]
  <2>5. F[g] \in [S -> V]
    OBVIOUS
  <2>6. h \in [S -> V] /\ \A k \in S : h[k] = F[g][k]
    BY <2>5
  <2>7. \A k \in S : mu[k] < b - 1 => h[k] = g[k]
    BY <2>4, <2>6
  <2>8. GoodTo(h, b)
    <3> SUFFICES ASSUME NEW k \in S, mu[k] < b PROVE F[h][k] = h[k]
      OBVIOUS
    <3> HIDE DEF h
    <3>1. \A j \in S : mu[j] < mu[k] => h[j] = g[j]
      <4>1. b \in Nat /\ \A j \in S : mu[j] \in Nat
        OBVIOUS
      <4> QED BY <2>7, <4>1
    <3> QED BY <3>1, <2>6
  <2> QED
    BY <2>6, <2>8
<1> DEFINE Upto(n) == CHOOSE g \in [S -> V] : GoodTo(g, mu[n] + 1)
           f == [n \in S |-> Upto(n)[n]]
<1>3. \A n \in S : Upto(n) \in [S -> V] /\ GoodTo(Upto(n), mu[n] + 1)
  <2> TAKE n \in S
  <2> HIDE DEF GoodTo
  <2>1. mu[n] + 1 \in Nat
    OBVIOUS
  <2>2. \E g \in [S -> V] : GoodTo(g, mu[n] + 1)
    BY <1>2, <2>1
  <2> QED BY <2>2
<1>4. f \in [S -> V] /\ \A n \in S : f[n] = Upto(n)[n]
  <2> HIDE DEF GoodTo, Upto
  <2> QED BY <1>3
<1>5. ASSUME NEW n \in S PROVE F[f][n] = f[n]
  <2> DEFINE g == Upto(n)
  <2>1. g \in [S -> V] /\ GoodTo(g, mu[n] + 1)
    BY <1>3
  <2>2. ASSUME NEW k \in S, mu[k] < mu[n] PROVE f[k] = g[k]
    <3>1. Upto(k) \in [S -> V] /\ GoodTo(Upto(k), mu[k] + 1) /\ f[k] = Upto(k)[k]
      BY <1>3, <1>4
    <3> HIDE DEF Upto, f, g
    <3>2. GoodTo(g, mu[k] + 1)
      <4>1. mu[k] \in Nat /\ mu[n] \in Nat /\ \A j \in S : mu[j] \in Nat
        OBVIOUS
      <4> QED BY <2>1, <2>2, <4>1
    <3> HIDE DEF GoodTo
    <3>3. \A j \in S : mu[j] < mu[k] + 1 => Upto(k)[j] = g[j]
      BY <3>1, <3>2, <2>1, <1>1
    <3>4. k \in S /\ mu[k] < mu[k] + 1
      OBVIOUS
    <3>5. Upto(k)[k] = g[k]
      BY <3>3, <3>4
    <3> QED BY <3>1, <3>5
  <2>3. f[n] = g[n]
    BY <1>4
  <2> HIDE DEF Upto, f, g
  <2>4. F[g][n] = g[n]
    <3>1. mu[n] < mu[n] + 1
      OBVIOUS
    <3> QED BY <2>1, <3>1
  <2> QED
    BY <1>4, <2>1, <2>2, <2>3, <2>4
<1>6. f \in [S -> V] /\ \A n \in S : F[f][n] = f[n]
  BY <1>4, <1>5
<1> HIDE DEF GoodTo, Bad, Differ, Upto, f
<1>7. F[f] \in [S -> V]
  BY <1>6
<1>8. F[f] = [n \in S |-> F[f][n]] /\ f = [n \in S |-> f[n]]
  BY <1>6, <1>7
<1>9. [n \in S |-> F[f][n]] = [n \in S |-> f[n]]
  BY <1>6
<1>10. F[f] = f
  BY <1>8, <1>9
<1> QED
  BY <1>6, <1>10

-----------------------------------------------------------------------------
(* Sequences.                                                              *)

(* What holds of 0, and of every number if of the one before it.           *)
LEMMA Upwards ==
    ASSUME NEW n \in Nat, NEW T, 0 \in T, \A i \in 1..n : i - 1 \in T => i \in T
    PROVE  0..n \subseteq T
<1> DEFINE Bad == (0..n) \ T
<1> SUFFICES ASSUME Bad # {} PROVE FALSE
  OBVIOUS
<1>1. PICK b \in Bad : \A k \in Bad : b <= k
  <2>1. Bad \in SUBSET Nat
    OBVIOUS
  <2> HIDE DEF Bad
  <2> QED BY <2>1, Least
<1>2. b \in 1..n /\ b - 1 \in 0..n /\ ~(b <= b - 1)
  OBVIOUS
<1>3. b - 1 \in T
  BY <1>1, <1>2
<1> QED
  BY <1>2, <1>3

(* The same from the other end.                                            *)
LEMMA Downwards ==
    ASSUME NEW n \in Nat, NEW T, n \in T, \A i \in 1..n : i \in T => i - 1 \in T
    PROVE  0..n \subseteq T
<1> DEFINE U == {i \in 0..n : n - i \in T}
<1>1. 0 \in U
  OBVIOUS
<1>2. ASSUME NEW i \in 1..n, i - 1 \in U PROVE i \in U
  <2>1. n - (i - 1) = (n - i) + 1 /\ (n - i) + 1 \in 1..n /\ ((n - i) + 1) - 1 = n - i
    OBVIOUS
  <2>2. (n - i) + 1 \in T
    BY <1>2, <2>1
  <2>3. n - i \in T
    BY <2>1, <2>2
  <2> QED BY <2>3
<1>3. 0..n \subseteq U
  <2> HIDE DEF U
  <2> QED BY <1>1, <1>2, Upwards
<1>4. ASSUME NEW i \in 0..n PROVE i \in T
  <2>1. n - i \in 0..n /\ n - (n - i) = i
    OBVIOUS
  <2>2. n - i \in U
    BY <1>3, <2>1
  <2> QED BY <2>1, <2>2
<1> QED
  BY <1>4

(* Parentheses do not matter.                                              *)
LEMMA Associative ==
    ASSUME NEW S
    PROVE  \A a, b, c \in Seq(S) : (a \o b) \o c = a \o (b \o c)
<1> TAKE a, b, c \in Seq(S)
<1> QED BY ConcatAssociative, SMT

(* The same, said of three sequences by name.                             *)
Regroups(a, b, c) == (a \o b) \o c = a \o (b \o c)

(* How three sequences are put together does not matter.                   *)
LEMMA Regrouped ==
    ASSUME NEW S, NEW a \in Seq(S), NEW b \in Seq(S), NEW c \in Seq(S)
    PROVE  Regroups(a, b, c)
BY ConcatAssociative DEF Regroups

(* Two sequences put together.                                             *)
LEMMA Joined ==
    ASSUME NEW S, NEW s \in Seq(S), NEW t \in Seq(S)
    PROVE  s \o t \in Seq(S) /\ Len(s \o t) = Len(s) + Len(t)
BY ConcatProperties

(* The first elements are the first ones still, whatever follows.          *)
LEMMA FirstOnes ==
    ASSUME NEW S, NEW s \in Seq(S), NEW t \in Seq(S)
    PROVE  \A i \in 1..Len(s) : (s \o t)[i] = s[i]
<1>1. /\ Len(s) \in Nat /\ Len(t) \in Nat
      /\ \A i \in 1..(Len(s) + Len(t)) :
            (s \o t)[i] = IF i <= Len(s) THEN s[i] ELSE t[i - Len(s)]
  BY ConcatProperties
<1> QED
  BY <1>1

(* Taking apart what was put together.                                     *)
LEMMA TakenApart ==
    ASSUME NEW S, NEW s \in Seq(S), NEW t \in Seq(S)
    PROVE  /\ SubSeq(s \o t, 1, Len(s)) = s
           /\ From(s \o t, Len(s)) = t
<1> DEFINE c == s \o t
<1>1. /\ c \in Seq(S) /\ Len(c) = Len(s) + Len(t) /\ Len(s) \in Nat /\ Len(t) \in Nat
      /\ \A i \in 1..(Len(s) + Len(t)) : c[i] = IF i <= Len(s) THEN s[i] ELSE t[i - Len(s)]
  BY ConcatProperties
<1>2. \A i \in 1..Len(c) : c[i] \in S
  BY <1>1, ElementOfSeq
<1> HIDE DEF c
<1>3. /\ SubSeq(c, 1, Len(s)) \in Seq(S) /\ Len(SubSeq(c, 1, Len(s))) = Len(s)
      /\ \A i \in 1..Len(s) : SubSeq(c, 1, Len(s))[i] = s[i]
  <2>1. \A i \in 1..Len(s) : c[i] \in S
    BY <1>1, <1>2
  <2>2. /\ SubSeq(c, 1, Len(s)) \in Seq(S)
        /\ Len(SubSeq(c, 1, Len(s))) = IF 1 <= Len(s) THEN Len(s) - 1 + 1 ELSE 0
        /\ \A i \in 1..(Len(s) - 1 + 1) : SubSeq(c, 1, Len(s))[i] = c[1 + i - 1]
    BY <1>1, <2>1, SubSeqProperties
  <2> QED BY <1>1, <2>2
<1>4. /\ From(c, Len(s)) \in Seq(S) /\ Len(From(c, Len(s))) = Len(t)
      /\ \A i \in 1..Len(t) : From(c, Len(s))[i] = t[i]
  <2> DEFINE a == Len(s) + 1
             b == Len(c)
  <2>1. \A i \in a..b : c[i] \in S
    BY <1>1, <1>2
  <2>2. a \in Int /\ b \in Int
    BY <1>1
  <2> HIDE DEF a, b
  <2>3. /\ SubSeq(c, a, b) \in Seq(S)
        /\ Len(SubSeq(c, a, b)) = IF a <= b THEN b - a + 1 ELSE 0
        /\ \A i \in 1..(b - a + 1) : SubSeq(c, a, b)[i] = c[a + i - 1]
    BY <2>1, <2>2, SubSeqProperties
  <2>4. From(c, Len(s)) = SubSeq(c, a, b)
    BY DEF From, a, b
  <2>5. b - a + 1 = Len(t)
    BY <1>1 DEF a, b
  <2>6. Len(SubSeq(c, a, b)) = Len(t)
    BY <1>1, <2>2, <2>3, <2>5
  <2>7. ASSUME NEW i \in 1..Len(t) PROVE SubSeq(c, a, b)[i] = t[i]
    <3>1. SubSeq(c, a, b)[i] = c[a + i - 1]
      BY <2>3, <2>5
    <3>2. a + i - 1 = Len(s) + i
      BY <1>1 DEF a
    <3>3. c[Len(s) + i] = t[i]
      <4>1. /\ Len(s) + i \in 1..(Len(s) + Len(t)) /\ ~(Len(s) + i <= Len(s))
            /\ (Len(s) + i) - Len(s) = i
        BY <1>1
      <4> QED BY <1>1, <4>1
    <3> QED BY <3>1, <3>2, <3>3
  <2> QED BY <2>3, <2>4, <2>6, <2>7
<1>5. SubSeq(c, 1, Len(s)) = s
  BY <1>3, SeqEqual
<1>6. From(c, Len(s)) = t
  BY <1>4, SeqEqual
<1> QED
  BY <1>5, <1>6 DEF c

(* What FlattenSeq puts together, seen from between any two parts of it.   *)
Cut(S, s, front, behind) ==
    /\ front \in [0..Len(s) -> Seq(S)] /\ behind \in [0..Len(s) -> Seq(S)]
    /\ front[0] = <<>> /\ behind[Len(s)] = <<>>
    /\ \A i \in 1..Len(s) : /\ front[i] = front[i - 1] \o s[i]
                            /\ behind[i - 1] = s[i] \o behind[i]
    /\ \A i \in 0..Len(s) : front[i] \o behind[i] = FlattenSeq(s)

(* And of FlattenSeq: of no sequence, of one, and of one more than before. *)
LEMMA Flattened ==
    ASSUME NEW S, NEW s \in Seq(Seq(S))
    PROVE  \E front, behind : Cut(S, s, front, behind)
<1>0. \A a, b, c \in Seq(S) : (a \o b) \o c = a \o (b \o c)
  BY Associative
<1> DEFINE n == Len(s)
           D == 0..n
           V == Seq(S)
           up == [i \in D |-> i]
           down == [i \in D |-> n - i]
           Ahead(g, i) == IF i = 0 THEN <<>> ELSE g[i - 1] \o s[i]
           Behind(g, i) == IF i = n THEN <<>> ELSE s[i + 1] \o g[i + 1]
           F == [g \in [D -> V] |-> [i \in D |-> Ahead(g, i)]]
           B == [g \in [D -> V] |-> [i \in D |-> Behind(g, i)]]
<1>1. n \in Nat /\ (\A i \in 1..n : s[i] \in V) /\ <<>> \in V
      /\ \A a, b \in V : a \o b \in V
  BY ElementOfSeq, ConcatProperties, EmptySeq
<1>2. up \in [D -> Nat] /\ down \in [D -> Nat]
  BY <1>1
<1>3. /\ \A i \in D : i # 0 => i - 1 \in D /\ up[i - 1] < up[i] /\ i \in 1..n
      /\ \A i \in D : i # n => i + 1 \in D /\ down[i + 1] < down[i] /\ i + 1 \in 1..n
  BY <1>1
<1>4. PICK front \in [D -> V] : F[front] = front
  <2>1. \A g \in [D -> V] : \A i \in D : Ahead(g, i) \in V
    BY <1>1, <1>3
  <2>2. F \in [[D -> V] -> [D -> V]]
    <3> HIDE DEF Ahead, D, V
    <3> QED BY <2>1
  <2>3. ASSUME NEW i \in D, NEW g \in [D -> V], NEW h \in [D -> V],
               \A k \in D : up[k] < up[i] => g[k] = h[k]
        PROVE  F[g][i] = F[h][i]
    <3>1. Ahead(g, i) = Ahead(h, i)
      BY <1>3, <2>3
    <3> HIDE DEF Ahead, D, V
    <3> QED BY <3>1
  <2> HIDE DEF D, V, F, up
  <2>4. DependsBelow(D, up, V, F)
    BY <1>1, <1>2, <2>2, <2>3 DEF DependsBelow
  <2> QED BY <2>4, Recursion
<1>5. PICK behind \in [D -> V] : B[behind] = behind
  <2>1. \A g \in [D -> V] : \A i \in D : Behind(g, i) \in V
    BY <1>1, <1>3
  <2>2. B \in [[D -> V] -> [D -> V]]
    <3> HIDE DEF Behind, D, V
    <3> QED BY <2>1
  <2>3. ASSUME NEW i \in D, NEW g \in [D -> V], NEW h \in [D -> V],
               \A k \in D : down[k] < down[i] => g[k] = h[k]
        PROVE  B[g][i] = B[h][i]
    <3>1. Behind(g, i) = Behind(h, i)
      BY <1>3, <2>3
    <3> HIDE DEF Behind, D, V
    <3> QED BY <3>1
  <2> HIDE DEF D, V, B, down
  <2>4. DependsBelow(D, down, V, B)
    BY <1>1, <1>2, <2>2, <2>3 DEF DependsBelow
  <2> QED BY <2>4, Recursion
<1>6. \A i \in D : front[i] = Ahead(front, i) /\ behind[i] = Behind(behind, i)
  <2> HIDE DEF Ahead, Behind, D, V
  <2> QED BY <1>4, <1>5
<1>7. /\ front[0] = <<>> /\ behind[n] = <<>>
      /\ \A i \in 1..n : front[i] = front[i - 1] \o s[i]
      /\ \A i \in 1..n : behind[i - 1] = s[i] \o behind[i]
  <2>1. 0 \in D /\ n \in D
    BY <1>1
  <2>2. ASSUME NEW i \in 1..n
        PROVE  front[i] = front[i - 1] \o s[i] /\ behind[i - 1] = s[i] \o behind[i]
    <3>1. i \in D /\ i # 0 /\ i - 1 \in D /\ i - 1 # n /\ (i - 1) + 1 = i
      BY <1>1
    <3> QED BY <1>6, <3>1
  <2> QED BY <1>6, <2>1, <2>2
<1>8. \A i \in D : front[i] \in V /\ behind[i] \in V
  BY <1>4, <1>5
<1> HIDE DEF F, B, Ahead, Behind, up, down, V
<1>81. n # 0 => front[1] = s[1]
  <2> HAVE n # 0
  <2>1. 1 \in 1..n /\ 1 - 1 = 0
    BY <1>1
  <2>2. front[1] = <<>> \o s[1] /\ s[1] \in V
    BY <1>1, <1>7, <2>1
  <2> QED BY <2>2, ConcatEmptySeq DEF V
<1>9. front[n] = FlattenSeq(s)
  <2>1. CASE n = 0
    <3>1. s = <<>>
      BY <2>1, EmptySeq
    <3> QED BY <1>7, <2>1, <3>1 DEF FlattenSeq
  <2>2. CASE n # 0
    <3> DEFINE Step(f) == [i \in 1..n |-> IF i = 1 THEN s[i] ELSE f[i - 1] \o s[i]]
               flatten == CHOOSE f : f = Step(f)
               T == {i \in 0..n : i # 0 => flatten[i] = front[i]}
               f1 == [i \in 1..n |-> front[i]]
    <3>1. FlattenSeq(s) = flatten[n]
      BY <2>2 DEF FlattenSeq
    <3>2. f1 = Step(f1)
      <4>1. ASSUME NEW i \in 1..n
            PROVE front[i] = IF i = 1 THEN s[i] ELSE f1[i - 1] \o s[i]
        <5>1. CASE i = 1
          <6> QED BY <5>1, <1>81, <2>2
        <5>2. CASE i # 1
          <6>1. i - 1 \in 1..n
            BY <1>1, <5>2
          <6> QED BY <1>7, <5>2, <6>1
        <5> QED BY <5>1, <5>2
      <4> QED BY <4>1
    <3>3. flatten = Step(flatten)
      <4> HIDE DEF Step, f1
      <4> QED BY <3>2
    <3> HIDE DEF flatten, f1
    <3>4. 0 \in T
      BY <1>1
    <3>5. ASSUME NEW i \in 1..n, i - 1 \in T PROVE i \in T
      <4>1. flatten[i] = IF i = 1 THEN s[i] ELSE flatten[i - 1] \o s[i]
        BY <3>3
      <4>2. CASE i = 1
        <5> QED BY <4>1, <4>2, <1>81, <2>2
      <4>3. CASE i # 1
        <5>1. i - 1 \in 1..n /\ i - 1 # 0
          BY <1>1, <4>3
        <5>2. flatten[i - 1] = front[i - 1]
          BY <3>5, <5>1
        <5>3. front[i] = front[i - 1] \o s[i]
          BY <1>7
        <5>4. flatten[i] = front[i]
          BY <4>1, <4>3, <5>2, <5>3
        <5> QED BY <5>4, <1>1
      <4> QED BY <4>2, <4>3
    <3>6. 0..n \subseteq T
      <4> HIDE DEF T
      <4> QED BY <1>1, <3>4, <3>5, Upwards
    <3>7. n \in T
      <4> HIDE DEF T
      <4> QED BY <3>6, <1>1
    <3> QED BY <3>1, <3>7, <2>2
  <2> QED BY <2>1, <2>2
<1>10. \A i \in 0..n : front[i] \o behind[i] = FlattenSeq(s)
  <2> DEFINE T == {i \in 0..n : front[i] \o behind[i] = FlattenSeq(s)}
  <2>1. n \in T
    <3>1. front[n] \o <<>> = front[n]
      BY <1>1, <1>8, ConcatEmptySeq DEF V
    <3>2. front[n] \o behind[n] = FlattenSeq(s)
      BY <1>7, <1>9, <3>1
    <3> QED BY <1>1, <3>2
  <2>2. ASSUME NEW i \in 1..n, i \in T PROVE i - 1 \in T
    <3>1. i - 1 \in D /\ i \in D
      BY <1>1
    <3>2. (front[i - 1] \o s[i]) \o behind[i] = front[i - 1] \o (s[i] \o behind[i])
      <4>1. front[i - 1] \in Seq(S) /\ s[i] \in Seq(S) /\ behind[i] \in Seq(S)
        BY <1>1, <1>8, <3>1 DEF V
      <4> QED BY <1>0, <4>1
    <3>3. front[i] \o behind[i] = FlattenSeq(s)
      BY <2>2
    <3>4. front[i] = front[i - 1] \o s[i] /\ behind[i - 1] = s[i] \o behind[i]
      BY <1>7
    <3>5. front[i - 1] \o behind[i - 1] = FlattenSeq(s)
      BY <3>2, <3>3, <3>4
    <3> QED BY <3>1, <3>5
  <2>3. 0..n \subseteq T
    <3> HIDE DEF T, D, V
    <3> QED BY <1>1, <2>1, <2>2, Downwards
  <2> QED BY <2>3
<1>11. front \in [0..Len(s) -> Seq(S)] /\ behind \in [0..Len(s) -> Seq(S)]
  BY DEF V
<1>12. Cut(S, s, front, behind)
  BY <1>7, <1>10, <1>11 DEF Cut
<1> QED
  BY <1>12

(* What is left of a sequence.                                             *)
LEMMA Rest ==
    ASSUME NEW S, NEW s \in Seq(S), NEW i \in Nat
    PROVE  /\ From(s, i) \in Seq(S)
           /\ Len(From(s, i)) = IF i <= Len(s) THEN Len(s) - i ELSE 0
           /\ i <= Len(s) => SubSeq(s, 1, i) \in Seq(S) /\ Len(SubSeq(s, 1, i)) = i
<1> DEFINE a == i + 1
           b == Len(s)
<1>1. a \in Int /\ b \in Nat /\ b \in Int /\ 1 \in Int /\ i \in Int
  OBVIOUS
<1>2. \A j \in a..b : s[j] \in S
  <2>1. \A j \in a..b : j \in 1..Len(s)
    BY <1>1
  <2> QED BY <2>1, ElementOfSeq
<1>3. SubSeq(s, a, b) \in Seq(S) /\ Len(SubSeq(s, a, b)) = IF a <= b THEN b - a + 1 ELSE 0
  <2> HIDE DEF a, b
  <2> QED BY <1>1, <1>2, SubSeqProperties
<1>4. ASSUME i <= b PROVE SubSeq(s, 1, i) \in Seq(S) /\ Len(SubSeq(s, 1, i)) = i
  <2>1. \A j \in 1..i : s[j] \in S
    <3>1. \A j \in 1..i : j \in 1..Len(s)
      BY <1>1, <1>4
    <3> QED BY <3>1, ElementOfSeq
  <2>2. SubSeq(s, 1, i) \in Seq(S) /\ Len(SubSeq(s, 1, i)) = IF 1 <= i THEN i - 1 + 1 ELSE 0
    BY <1>1, <2>1, SubSeqProperties
  <2>3. (IF 1 <= i THEN i - 1 + 1 ELSE 0) = i
    OBVIOUS
  <2> QED BY <2>2, <2>3
<1>5. (IF a <= b THEN b - a + 1 ELSE 0) = IF i <= Len(s) THEN Len(s) - i ELSE 0
  BY <1>1
<1>6. From(s, i) = SubSeq(s, a, b)
  BY DEF From
<1> QED
  BY <1>3, <1>4, <1>5, <1>6

-----------------------------------------------------------------------------
(* Comparing strings.                                                      *)

(* One step of FudgeString_compare, at the two places it has come to; g is *)
(* what it finds from a place on.                                          *)
PlacesInTwo(left, right) == (0..Len(left)) \X (0..Len(right))

ComparedAt(left, right, g, at) ==
    LET i    == at[1]
        j    == at[2]
        newi == SkipBOM(left, i)
        newj == SkipBOM(right, j)
    IN  IF i = Len(left) THEN (IF j = Len(right) THEN 0 ELSE -1)
        ELSE IF j = Len(right) THEN 1
        ELSE IF newi # i \/ newj # j THEN g[<<newi, newj>>]
        ELSE IF left[i + 1] # right[j + 1]
          THEN (IF left[i + 1] > right[j + 1] THEN 1 ELSE -1)
        ELSE g[<<i + 1, j + 1>>]

(* A byte-order marker has its three bytes in the string.                  *)
LEMMA MarkerInside ==
    ASSUME NEW s \in Seq(Byte), NEW i \in 0..Len(s)
    PROVE  SkipBOM(s, i) = i \/ (SkipBOM(s, i) = i + 3 /\ i + 3 <= Len(s))
<1>1. ASSUME AtBOM(s, i) PROVE i + 3 <= Len(s)
  <2>1. Len(BOM) = 3
    BY DEF BOM
  <2>2. Len(From(s, i)) = Len(s) - i
    <3>1. Len(s) \in Nat /\ i \in Nat /\ i <= Len(s)
      OBVIOUS
    <3>2. \A k \in (i + 1)..Len(s) : s[k] \in Byte
      <4> QED BY <3>1, ElementOfSeq
    <3>3. CASE i + 1 <= Len(s)
      BY <3>1, <3>3, SubSeqProperties DEF From
    <3>4. CASE i = Len(s)
      BY <3>1, <3>4, SubSeqProperties DEF From
    <3> QED BY <3>1, <3>3, <3>4
  <2>3. Len(BOM) <= Len(From(s, i))
    BY <1>1, Zenon DEF AtBOM, IsPrefix
  <2> QED BY <2>1, <2>2, <2>3
<1> QED
  BY <1>1 DEF SkipBOM

(* Comparing two strings is comparing them place by place.                 *)
LEMMA ComparedStepByStep ==
    ASSUME NEW left \in Seq(Byte), NEW right \in Seq(Byte)
    PROVE  \E g :
              /\ CompareBytes(left, right) = g[<<0, 0>>]
              /\ \A at \in PlacesInTwo(left, right) : g[at] = ComparedAt(left, right, g, at)
<1> DEFINE S == PlacesInTwo(left, right)
           V == {-1, 0, 1}
           Step(g, at) == ComparedAt(left, right, g, at)
           F == [g \in [S -> V] |-> [at \in S |-> Step(g, at)]]
           mu == [at \in S |-> Len(left) + Len(right) - at[1] - at[2]]
           compare == CHOOSE f : f = [at \in S |-> Step(f, at)]
<1>1. Len(left) \in Nat /\ Len(right) \in Nat
  OBVIOUS
<1>2. \A at \in S : /\ at[1] \in 0..Len(left) /\ at[2] \in 0..Len(right)
                    /\ at = <<at[1], at[2]>>
  BY DEF PlacesInTwo
<1>3. \A i \in 0..Len(left), j \in 0..Len(right) : <<i, j>> \in S
  BY DEF PlacesInTwo
<1>4. \A at \in S : mu[at] = Len(left) + Len(right) - at[1] - at[2] /\ mu[at] \in Nat
  BY <1>1, <1>2
<1>5. mu \in [S -> Nat]
  <2> HIDE DEF S
  <2> QED BY <1>4
<1>6. ASSUME NEW at \in S, NEW g \in [S -> V], NEW h \in [S -> V],
             \A b \in S : mu[b] < mu[at] => g[b] = h[b]
      PROVE  Step(g, at) \in V /\ Step(g, at) = Step(h, at)
  <2> DEFINE i == at[1]
             j == at[2]
             newi == SkipBOM(left, i)
             newj == SkipBOM(right, j)
  <2>1. i \in 0..Len(left) /\ j \in 0..Len(right)
    BY <1>2
  <2>2. /\ newi = i \/ (newi = i + 3 /\ i + 3 <= Len(left))
        /\ newj = j \/ (newj = j + 3 /\ j + 3 <= Len(right))
    BY <2>1, MarkerInside
  <2>3. Step(g, at) = IF i = Len(left) THEN (IF j = Len(right) THEN 0 ELSE -1)
        ELSE IF j = Len(right) THEN 1
        ELSE IF newi # i \/ newj # j THEN g[<<newi, newj>>]
        ELSE IF left[i + 1] # right[j + 1]
          THEN (IF left[i + 1] > right[j + 1] THEN 1 ELSE -1)
        ELSE g[<<i + 1, j + 1>>]
    BY Zenon DEF ComparedAt
  <2>4. Step(h, at) = IF i = Len(left) THEN (IF j = Len(right) THEN 0 ELSE -1)
        ELSE IF j = Len(right) THEN 1
        ELSE IF newi # i \/ newj # j THEN h[<<newi, newj>>]
        ELSE IF left[i + 1] # right[j + 1]
          THEN (IF left[i + 1] > right[j + 1] THEN 1 ELSE -1)
        ELSE h[<<i + 1, j + 1>>]
    BY Zenon DEF ComparedAt
  <2>5. ASSUME NEW a \in 0..Len(left), NEW b \in 0..Len(right), a + b > i + j
        PROVE  g[<<a, b>>] \in V /\ g[<<a, b>>] = h[<<a, b>>]
    <3>1. <<a, b>> \in S
      BY <1>3
    <3>2. mu[<<a, b>>] = Len(left) + Len(right) - a - b
      BY <1>4, <3>1
    <3>3. mu[<<a, b>>] < mu[at]
      BY <1>1, <1>4, <2>1, <2>5, <3>2
    <3> HIDE DEF S, mu
    <3> QED BY <1>6, <3>1, <3>3, SMTT(30)
  <2>6. i # Len(left) /\ j # Len(right) /\ (newi # i \/ newj # j) =>
            g[<<newi, newj>>] \in V /\ g[<<newi, newj>>] = h[<<newi, newj>>]
    <3>1. newi \in 0..Len(left) /\ newj \in 0..Len(right)
      BY <1>1, <2>1, <2>2
    <3>2. newi # i \/ newj # j => newi + newj > i + j
      BY <1>1, <2>1, <2>2
    <3> HIDE DEF newi, newj, i, j, V
    <3> QED BY <2>5, <3>1, <3>2
  <2>7. i # Len(left) /\ j # Len(right) =>
            g[<<i + 1, j + 1>>] \in V /\ g[<<i + 1, j + 1>>] = h[<<i + 1, j + 1>>]
    <3>1. Len(left) \in Nat /\ Len(right) \in Nat
      OBVIOUS
    <3> HIDE DEF i, j, S, V, Step, mu
    <3>2. i # Len(left) => i + 1 \in 0..Len(left)
      BY <2>1, <3>1
    <3>3. j # Len(right) => j + 1 \in 0..Len(right)
      BY <2>1, <3>1
    <3>4. (i + 1) + (j + 1) > i + j
      BY <2>1, <3>1
    <3> QED BY <2>5, <3>2, <3>3, <3>4, Zenon
  <2> HIDE DEF i, j, newi, newj, Step
  <2>8. Step(g, at) = Step(h, at)
    <3> HIDE DEF V
    <3> QED BY <2>3, <2>4, <2>6, <2>7
  <2>9. Step(g, at) \in V
    BY <2>3, <2>6, <2>7
  <2> QED BY <2>8, <2>9
<1>7. F \in [[S -> V] -> [S -> V]]
  <2>1. \A g \in [S -> V] : \A at \in S : Step(g, at) \in V
    <3> TAKE g \in [S -> V]
    <3> TAKE at \in S
    <3>1. \A b \in S : mu[b] < mu[at] => g[b] = g[b]
      OBVIOUS
    <3> HIDE DEF S, V, Step, mu
    <3> QED BY <1>6, <3>1
  <2> HIDE DEF S, V, Step
  <2> QED BY <2>1
<1>8. \A at \in S : \A g, h \in [S -> V] :
          (\A b \in S : mu[b] < mu[at] => g[b] = h[b]) => F[g][at] = F[h][at]
  <2> TAKE at \in S
  <2> TAKE g, h \in [S -> V]
  <2> HAVE \A b \in S : mu[b] < mu[at] => g[b] = h[b]
  <2>1. Step(g, at) = Step(h, at)
    <3> HIDE DEF S, V, Step, mu
    <3> QED BY <1>6
  <2> HIDE DEF S, V, Step
  <2> QED BY <2>1
<1>9. PICK f \in [S -> V] : F[f] = f
  <2>1. V # {}
    OBVIOUS
  <2> HIDE DEF S, V, F, mu
  <2>2. DependsBelow(S, mu, V, F)
    BY <2>1, <1>5, <1>7, <1>8 DEF DependsBelow
  <2> QED BY <2>2, Recursion
<1>10. f = [at \in S |-> Step(f, at)]
  <2> HIDE DEF S, V, Step
  <2> QED BY <1>9
<1>11. compare = [at \in S |-> Step(compare, at)]
  <2> HIDE DEF S, Step
  <2> QED BY <1>10
<1>12. CompareBytes(left, right) = compare[<<0, 0>>]
  BY Zenon DEF CompareBytes, ComparedAt, PlacesInTwo
<1>13. \A at \in S : compare[at] = Step(compare, at)
  <2> HIDE DEF S, Step, compare
  <2> QED BY <1>11
<1> HIDE DEF compare
<1> QED
  BY <1>12, <1>13

(* A string compares equal to itself.                                      *)
LEMMA ComparesToItself ==
    ASSUME NEW s \in Seq(Byte)
    PROVE  CompareBytes(s, s) = 0
<1>1. PICK g : /\ CompareBytes(s, s) = g[<<0, 0>>]
               /\ \A at \in PlacesInTwo(s, s) : g[at] = ComparedAt(s, s, g, at)
  BY ComparedStepByStep
<1> DEFINE T == {k \in 0..Len(s) : g[<<Len(s) - k, Len(s) - k>>] # 0}
<1>2. Len(s) \in Nat
  OBVIOUS
<1>3. T = {}
  <2> SUFFICES ASSUME T # {} PROVE FALSE
    OBVIOUS
  <2>1. PICK k \in T : \A m \in T : k <= m
    <3>1. T \in SUBSET Nat
      BY <1>2
    <3> HIDE DEF T
    <3> QED BY <3>1, Least
  <2> DEFINE i == Len(s) - k
             newi == SkipBOM(s, i)
  <2>2. i \in 0..Len(s) /\ g[<<i, i>>] # 0 /\ i \in Nat
    BY <1>2, <2>1
  <2>3. ASSUME NEW n \in 0..Len(s), n > i PROVE g[<<n, n>>] = 0
    <3>1. Len(s) - n \in 0..Len(s) /\ ~(k <= Len(s) - n) /\ Len(s) - (Len(s) - n) = n
      BY <1>2, <2>1, <2>2, <2>3
    <3>2. Len(s) - n \notin T
      <4> HIDE DEF T
      <4> QED BY <2>1, <3>1
    <3> QED BY <3>1, <3>2
  <2> HIDE DEF T
  <2>4. newi = i \/ (newi = i + 3 /\ i + 3 <= Len(s))
    BY <2>2, MarkerInside
  <2>5. g[<<i, i>>] = ComparedAt(s, s, g, <<i, i>>)
    <3>1. <<i, i>> \in PlacesInTwo(s, s)
      BY <2>2 DEF PlacesInTwo
    <3> HIDE DEF i
    <3> QED BY <1>1, <3>1
  <2>6. ComparedAt(s, s, g, <<i, i>>) =
            IF i = Len(s) THEN 0
            ELSE IF newi # i THEN g[<<newi, newi>>] ELSE g[<<i + 1, i + 1>>]
    <3> HIDE DEF i
    <3> QED BY DEF ComparedAt, newi
  <2>7. newi # i => newi \in 0..Len(s) /\ newi > i
    BY <1>2, <2>2, <2>4
  <2>8. i # Len(s) => i + 1 \in 0..Len(s) /\ i + 1 > i
    BY <1>2, <2>2
  <2> HIDE DEF i, newi
  <2> QED BY <2>2, <2>3, <2>5, <2>6, <2>7, <2>8
<1>4. Len(s) \notin T
  BY <1>3
<1> QED
  BY <1>1, <1>2, <1>4

-----------------------------------------------------------------------------
(* The order of strings, element by element: r is the greater one from     *)
(* some place on, up to which they are the same.                           *)
GreaterAt(l, r, k) ==
    /\ k <= Len(l) /\ k < Len(r)
    /\ \A j \in 1..k : l[j] = r[j]
    /\ k = Len(l) \/ l[k + 1] < r[k + 1]

(* Elements of the rest of a sequence.                                     *)
LEMMA RestElements ==
    ASSUME NEW S, NEW s \in Seq(S), NEW i \in 0..Len(s)
    PROVE  /\ From(s, i) \in Seq(S) /\ Len(From(s, i)) = Len(s) - i
           /\ \A k \in 1..(Len(s) - i) : From(s, i)[k] = s[i + k]
<1>1. Len(s) \in Nat /\ i \in Nat /\ i <= Len(s)
  OBVIOUS
<1>2. From(s, i) \in Seq(S) /\ Len(From(s, i)) = Len(s) - i
  BY <1>1, Rest
<1>3. \A k \in 1..(Len(s) - i) : From(s, i)[k] = s[i + k]
  <2> DEFINE a == i + 1
             b == Len(s)
  <2>1. a \in Int /\ b \in Int /\ \A j \in a..b : j \in 1..Len(s)
    BY <1>1
  <2>2. \A j \in a..b : s[j] \in S
    BY <2>1, ElementOfSeq
  <2> HIDE DEF a, b
  <2>3. \A k \in 1..(b - a + 1) : SubSeq(s, a, b)[k] = s[a + k - 1]
    BY <2>1, <2>2, SubSeqProperties
  <2>4. b - a + 1 = Len(s) - i /\ \A k \in Int : a + k - 1 = i + k
    BY <1>1 DEF a, b
  <2>5. From(s, i) = SubSeq(s, a, b)
    BY DEF From, a, b
  <2>6. ASSUME NEW k \in 1..(Len(s) - i) PROVE From(s, i)[k] = s[i + k]
    <3>1. k \in 1..(b - a + 1) /\ a + k - 1 = i + k
      BY <2>4
    <3>2. SubSeq(s, a, b)[k] = s[a + k - 1]
      BY <2>3, <3>1
    <3> QED BY <2>5, <3>1, <3>2
  <2> QED BY <2>6
<1> QED
  BY <1>2, <1>3

(* Elements of the beginning of one.                                       *)
LEMMA FirstElements ==
    ASSUME NEW S, NEW s \in Seq(S), NEW i \in 0..Len(s)
    PROVE  /\ SubSeq(s, 1, i) \in Seq(S) /\ Len(SubSeq(s, 1, i)) = i
           /\ \A k \in 1..i : SubSeq(s, 1, i)[k] = s[k]
<1>1. Len(s) \in Nat /\ i \in Nat /\ i <= Len(s) /\ i \in Int
  OBVIOUS
<1>2. SubSeq(s, 1, i) \in Seq(S) /\ Len(SubSeq(s, 1, i)) = i
  BY <1>1, Rest
<1>3. \A k \in 1..i : SubSeq(s, 1, i)[k] = s[k]
  <2>1. \A j \in 1..i : j \in 1..Len(s)
    BY <1>1
  <2>2. \A j \in 1..i : s[j] \in S
    BY <2>1, ElementOfSeq
  <2>3. \A k \in 1..(i - 1 + 1) : SubSeq(s, 1, i)[k] = s[1 + k - 1]
    BY <1>1, <2>2, SubSeqProperties
  <2> QED BY <1>1, <2>3
<1> QED
  BY <1>2, <1>3

(* Two sequences begin with the same k elements.                           *)
LEMMA SameBeginning ==
    ASSUME NEW S, NEW l \in Seq(S), NEW r \in Seq(S), NEW k \in Nat, k <= Len(l), k <= Len(r)
    PROVE  SubSeq(l, 1, k) = SubSeq(r, 1, k) <=> \A j \in 1..k : l[j] = r[j]
<1> DEFINE a == SubSeq(l, 1, k)
           b == SubSeq(r, 1, k)
<1>1. /\ a \in Seq(S) /\ Len(a) = k /\ \A j \in 1..k : a[j] = l[j]
      /\ b \in Seq(S) /\ Len(b) = k /\ \A j \in 1..k : b[j] = r[j]
  <2>1. k \in 0..Len(l) /\ k \in 0..Len(r)
    OBVIOUS
  <2> QED BY <2>1, FirstElements
<1> HIDE DEF a, b
<1>2. ASSUME \A j \in 1..k : l[j] = r[j] PROVE a = b
  <2>1. Len(a) = Len(b) /\ \A j \in 1..Len(a) : a[j] = b[j]
    BY <1>1, <1>2
  <2> QED BY <1>1, <2>1, SeqEqual
<1>3. a = b => \A j \in 1..k : l[j] = r[j]
  BY <1>1
<1> QED
  BY <1>2, <1>3 DEF a, b

(* All of a sequence.                                                      *)
LEMMA AllOfIt ==
    ASSUME NEW S, NEW s \in Seq(S)
    PROVE  SubSeq(s, 1, Len(s)) = s
<1>1. s \o <<>> = s
  BY ConcatEmptySeq
<1>2. SubSeq(s \o <<>>, 1, Len(s)) = s
  BY TakenApart, EmptySeq
<1> QED
  BY <1>1, <1>2

(* The lesser of two numbers.                                              *)
LEMMA LesserOne ==
    ASSUME NEW m \in Nat, NEW n \in Nat
    PROVE  Min({m, n}) = IF m <= n THEN m ELSE n
<1> DEFINE T == {m, n}
           k == IF m <= n THEN m ELSE n
<1>1. k \in T /\ \A j \in T : k <= j
  OBVIOUS
<1>2. Min(T) \in T /\ \A j \in T : Min(T) <= j
  <2> HIDE DEF T, k
  <2> QED BY <1>1, Zenon DEF Min
<1>3. Min(T) = m \/ Min(T) = n
  BY <1>2
<1>4. Min(T) <= m /\ Min(T) <= n
  BY <1>2
<1> HIDE DEF T
<1>5. Min(T) = k
  BY <1>3, <1>4
<1> QED
  BY <1>5 DEF T

(* Precedes is that order.                                                 *)
LEMMA PrecedesFrom ==
    ASSUME NEW S, NEW l \in Seq(S), NEW r \in Seq(S)
    PROVE  Precedes(l, r) <=> \E k \in Nat : GreaterAt(l, r, k)
<1>1. Len(l) \in Nat /\ Len(r) \in Nat
  OBVIOUS
<1>2. ASSUME IsStrictPrefix(l, r) PROVE GreaterAt(l, r, Len(l))
  <2>1. Len(l) <= Len(r) /\ SubSeq(l, 1, Len(l)) = SubSeq(r, 1, Len(l)) /\ l # r
    BY <1>2, Zenon DEF IsStrictPrefix, IsPrefix
  <2>2. \A j \in 1..Len(l) : l[j] = r[j]
    BY <1>1, <2>1, SameBeginning
  <2>3. Len(l) # Len(r)
    BY <2>1, <2>2, SeqEqual
  <2> QED BY <1>1, <2>1, <2>2, <2>3 DEF GreaterAt
<1>3. ASSUME NEW k \in Nat, GreaterAt(l, r, k), k = Len(l) PROVE IsStrictPrefix(l, r)
  <2>1. Len(l) < Len(r) /\ \A j \in 1..Len(l) : l[j] = r[j]
    BY <1>3 DEF GreaterAt
  <2>2. SubSeq(l, 1, Len(l)) = SubSeq(r, 1, Len(l)) /\ Len(l) <= Len(r)
    BY <1>1, <2>1, SameBeginning
  <2>3. l # r
    BY <1>1, <2>1
  <2> QED BY <2>2, <2>3, Zenon DEF IsStrictPrefix, IsPrefix
<1>4. ASSUME NEW i \in DOMAIN l \cap DOMAIN r
      PROVE  UpTo(i - 1, l) = UpTo(i - 1, r) <=> \A j \in 1..(i - 1) : l[j] = r[j]
  <2> DEFINE k == i - 1
  <2>1. k \in Nat /\ k <= Len(l) /\ k <= Len(r)
    OBVIOUS
  <2> HIDE DEF k
  <2>2. UpTo(k, l) = SubSeq(l, 1, k) /\ UpTo(k, r) = SubSeq(r, 1, k)
    BY <1>1, <2>1, LesserOne DEF UpTo
  <2>3. UpTo(k, l) = UpTo(k, r) <=> \A j \in 1..k : l[j] = r[j]
    BY <2>1, <2>2, SameBeginning
  <2> QED BY <2>3 DEF k
<1>5. ASSUME NEW i \in DOMAIN l \cap DOMAIN r, l[i] < r[i], UpTo(i - 1, l) = UpTo(i - 1, r)
      PROVE  GreaterAt(l, r, i - 1) /\ i - 1 \in Nat
  BY <1>4, <1>5 DEF GreaterAt
<1>6. ASSUME NEW k \in Nat, GreaterAt(l, r, k), k # Len(l)
      PROVE  \E i \in DOMAIN l \cap DOMAIN r : l[i] < r[i] /\ UpTo(i - 1, l) = UpTo(i - 1, r)
  <2> DEFINE i == k + 1
  <2>1. i \in DOMAIN l \cap DOMAIN r /\ i - 1 = k
    BY <1>1, <1>6 DEF GreaterAt
  <2>2. l[i] < r[i] /\ \A j \in 1..k : l[j] = r[j]
    BY <1>6 DEF GreaterAt
  <2> HIDE DEF i
  <2>3. UpTo(i - 1, l) = UpTo(i - 1, r)
    BY <1>4, <2>1, <2>2
  <2> QED BY <2>1, <2>2, <2>3
<1> QED
  BY <1>1, <1>2, <1>3, <1>5, <1>6, Zenon DEF Precedes

(* The order of two strings is that of their first bytes, and if these are *)
(* the same, of what is behind them.                                       *)
LEMMA FirstByteDecides ==
    ASSUME NEW l \in Seq(Byte), NEW r \in Seq(Byte), NEW a \in Byte, NEW b \in Byte
    PROVE  Precedes(<<a>> \o l, <<b>> \o r) <=> a < b \/ (a = b /\ Precedes(l, r))
<1> DEFINE al == <<a>> \o l
           br == <<b>> \o r
<1>0. Len(l) \in Nat /\ Len(r) \in Nat /\ a \in Int /\ b \in Int
  BY DEF Byte
<1>1. /\ al \in Seq(Byte) /\ Len(al) = Len(l) + 1 /\ al[1] = a
      /\ \A j \in 1..Len(l) : al[j + 1] = l[j]
  <2>1. <<a>> \in Seq(Byte) /\ Len(<<a>>) = 1 /\ <<a>>[1] = a
    OBVIOUS
  <2> HIDE DEF Byte
  <2>2. /\ al \in Seq(Byte) /\ Len(al) = 1 + Len(l)
        /\ \A i \in 1..(1 + Len(l)) : al[i] = IF i <= 1 THEN <<a>>[i] ELSE l[i - 1]
    BY <2>1, ConcatProperties
  <2> HIDE DEF al
  <2> QED BY <1>0, <2>1, <2>2
<1>2. /\ br \in Seq(Byte) /\ Len(br) = Len(r) + 1 /\ br[1] = b
      /\ \A j \in 1..Len(r) : br[j + 1] = r[j]
  <2>1. <<b>> \in Seq(Byte) /\ Len(<<b>>) = 1 /\ <<b>>[1] = b
    OBVIOUS
  <2> HIDE DEF Byte
  <2>2. /\ br \in Seq(Byte) /\ Len(br) = 1 + Len(r)
        /\ \A i \in 1..(1 + Len(r)) : br[i] = IF i <= 1 THEN <<b>>[i] ELSE r[i - 1]
    BY <2>1, ConcatProperties
  <2> HIDE DEF br
  <2> QED BY <1>0, <2>1, <2>2
<1> HIDE DEF al, br, Byte
<1>3. ASSUME NEW k \in Nat, GreaterAt(al, br, k) PROVE a < b \/ (a = b /\ Precedes(l, r))
  <2>1. CASE k = 0
    BY <1>0, <1>1, <1>2, <1>3, <2>1 DEF GreaterAt
  <2>2. CASE k # 0
    <3>1. k - 1 \in Nat /\ 1 \in 1..k /\ k - 1 <= Len(l) /\ k - 1 < Len(r)
      BY <1>0, <1>1, <1>2, <1>3, <2>2 DEF GreaterAt
    <3>2. a = b
      BY <1>1, <1>2, <1>3, <3>1 DEF GreaterAt
    <3>3. \A j \in 1..(k - 1) : l[j] = r[j]
      <4> TAKE j \in 1..(k - 1)
      <4>1. j + 1 \in 1..k /\ j \in 1..Len(l) /\ j \in 1..Len(r)
        BY <1>0, <3>1
      <4> QED BY <1>1, <1>2, <1>3, <4>1 DEF GreaterAt
    <3>4. k - 1 = Len(l) \/ l[(k - 1) + 1] < r[(k - 1) + 1]
      <4>1. k = Len(al) \/ al[k + 1] < br[k + 1]
        BY <1>3 DEF GreaterAt
      <4>2. ASSUME k - 1 # Len(l) PROVE k \in 1..Len(l) /\ k \in 1..Len(r)
        BY <1>0, <3>1, <4>2
      <4> QED BY <1>0, <1>1, <1>2, <3>1, <4>1, <4>2
    <3>5. GreaterAt(l, r, k - 1)
      BY <3>1, <3>3, <3>4 DEF GreaterAt
    <3> QED BY <3>1, <3>2, <3>5, PrecedesFrom
  <2> QED BY <2>1, <2>2
<1>4. ASSUME a < b PROVE GreaterAt(al, br, 0)
  BY <1>0, <1>1, <1>2, <1>4 DEF GreaterAt
<1>5. ASSUME a = b, NEW k \in Nat, GreaterAt(l, r, k) PROVE GreaterAt(al, br, k + 1)
  <2>1. k + 1 <= Len(al) /\ k + 1 < Len(br)
    BY <1>0, <1>1, <1>2, <1>5 DEF GreaterAt
  <2>2. \A j \in 1..(k + 1) : al[j] = br[j]
    <3> TAKE j \in 1..(k + 1)
    <3>1. CASE j = 1
      BY <1>1, <1>2, <1>5, <3>1
    <3>2. CASE j # 1
      <4>1. j - 1 \in 1..k /\ j - 1 \in 1..Len(l) /\ j - 1 \in 1..Len(r) /\ (j - 1) + 1 = j
        BY <1>0, <1>5, <3>2 DEF GreaterAt
      <4>2. l[j - 1] = r[j - 1]
        BY <1>5, <4>1 DEF GreaterAt
      <4>3. al[(j - 1) + 1] = l[j - 1] /\ br[(j - 1) + 1] = r[j - 1]
        BY <1>1, <1>2, <4>1
      <4> QED BY <4>1, <4>2, <4>3
    <3> QED BY <3>1, <3>2
  <2>3. k + 1 = Len(al) \/ al[(k + 1) + 1] < br[(k + 1) + 1]
    <3>1. CASE k = Len(l)
      BY <1>1, <3>1
    <3>2. CASE k # Len(l)
      <4>1. k + 1 \in 1..Len(l) /\ k + 1 \in 1..Len(r) /\ l[k + 1] < r[k + 1]
        BY <1>0, <1>5, <3>2 DEF GreaterAt
      <4> QED BY <1>1, <1>2, <4>1
    <3> QED BY <3>1, <3>2
  <2> QED BY <2>1, <2>2, <2>3 DEF GreaterAt
<1>6. Precedes(al, br) <=> \E k \in Nat : GreaterAt(al, br, k)
  BY <1>1, <1>2, PrecedesFrom
<1>7. Precedes(l, r) <=> \E k \in Nat : GreaterAt(l, r, k)
  BY PrecedesFrom
<1>8. Precedes(al, br) <=> a < b \/ (a = b /\ Precedes(l, r))
  <2>1. ASSUME a < b PROVE Precedes(al, br)
    <3>1. 0 \in Nat
      OBVIOUS
    <3> QED BY <1>4, <1>6, <2>1, <3>1
  <2>2. ASSUME a = b, Precedes(l, r) PROVE Precedes(al, br)
    <3>1. PICK k \in Nat : GreaterAt(l, r, k)
      BY <1>7, <2>2
    <3>2. k + 1 \in Nat /\ GreaterAt(al, br, k + 1)
      BY <1>5, <2>2, <3>1
    <3> QED BY <1>6, <3>2
  <2> QED BY <1>3, <1>6, <2>1, <2>2
<1> QED
  BY <1>8 DEF al, br

(* And the empty one is before every other.                                *)
LEMMA EmptyIsLeast ==
    ASSUME NEW l \in Seq(Byte)
    PROVE  ~Precedes(l, <<>>) /\ (Precedes(<<>>, l) <=> l # <<>>)
<1>1. <<>> \in Seq(Byte) /\ Len(<<>>) = 0 /\ Len(l) \in Nat
  OBVIOUS
<1>2. l # <<>> <=> Len(l) # 0
  BY EmptySeq
<1> HIDE DEF Byte
<1>3. ~Precedes(l, <<>>)
  <2>1. \A k \in Nat : ~GreaterAt(l, <<>>, k)
    BY <1>1 DEF GreaterAt
  <2> QED BY <1>1, <2>1, PrecedesFrom
<1>4. Precedes(<<>>, l) => l # <<>>
  BY <1>1, <1>3
<1>5. ASSUME l # <<>> PROVE Precedes(<<>>, l)
  <2>1. GreaterAt(<<>>, l, 0) /\ 0 \in Nat
    BY <1>1, <1>2, <1>5 DEF GreaterAt
  <2> QED BY <1>1, <2>1, PrecedesFrom
<1> QED
  BY <1>3, <1>4, <1>5

-----------------------------------------------------------------------------
(* What is left of a string from each place on without byte-order markers, *)
(* and how many of these it ends in.                                       *)
Strips(s, text, marks) ==
    /\ text \in [0..Len(s) -> Seq(Byte)] /\ marks \in [0..Len(s) -> Nat]
    /\ text[Len(s)] = <<>> /\ marks[Len(s)] = 0
    /\ \A i \in 0..(Len(s) - 1) :
          IF AtBOM(s, i)
          THEN /\ i + 3 \in 0..Len(s) /\ text[i] = text[i + 3]
               /\ marks[i] = marks[i + 3] + (IF text[i + 3] = <<>> THEN 1 ELSE 0)
          ELSE text[i] = <<s[i + 1]>> \o text[i + 1] /\ marks[i] = marks[i + 1]

(* There is such a text for every string.                                  *)
LEMMA Stripped ==
    ASSUME NEW s \in Seq(Byte)
    PROVE  \E text, marks : Strips(s, text, marks)
<1> DEFINE S == 0..Len(s)
           V == Seq(Byte) \X Nat
           More(v) == IF v[1] = <<>> THEN 1 ELSE 0
           Step(g, i) ==
               IF i = Len(s) THEN <<<<>>, 0>>
               ELSE IF AtBOM(s, i) THEN <<g[i + 3][1], g[i + 3][2] + More(g[i + 3])>>
               ELSE <<<<s[i + 1]>> \o g[i + 1][1], g[i + 1][2]>>
           F == [g \in [S -> V] |-> [i \in S |-> Step(g, i)]]
           mu == [i \in S |-> Len(s) - i]
<1>1. Len(s) \in Nat
  OBVIOUS
<1>2. ASSUME NEW i \in S, AtBOM(s, i) PROVE i + 3 \in S /\ i # Len(s)
  <2>1. SkipBOM(s, i) = i + 3
    BY <1>2 DEF SkipBOM
  <2>2. SkipBOM(s, i) = i \/ (SkipBOM(s, i) = i + 3 /\ i + 3 <= Len(s))
    BY MarkerInside
  <2> QED BY <1>1, <2>1, <2>2
<1>3. ASSUME NEW i \in S, i # Len(s) PROVE i + 1 \in S /\ s[i + 1] \in Byte
  <2>1. i + 1 \in 1..Len(s)
    BY <1>1, <1>3
  <2> QED BY <2>1, ElementOfSeq
<1>4. ASSUME NEW v \in V PROVE v[1] \in Seq(Byte) /\ v[2] \in Nat /\ v[2] + More(v) \in Nat
  <2> HIDE DEF Byte
  <2> QED OBVIOUS
<1>5. ASSUME NEW i \in S, NEW g \in [S -> V] PROVE Step(g, i) \in V
  <2>1. CASE i = Len(s)
    <3>1. <<>> \in Seq(Byte) /\ 0 \in Nat
      OBVIOUS
    <3> HIDE DEF S
    <3> QED BY <2>1, <3>1
  <2>2. CASE i # Len(s) /\ AtBOM(s, i)
    <3>1. g[i + 3] \in V
      <4> HIDE DEF S, V
      <4> QED BY <1>2, <2>2
    <3>2. g[i + 3][1] \in Seq(Byte) /\ g[i + 3][2] + More(g[i + 3]) \in Nat
      BY <1>4, <3>1
    <3> HIDE DEF More, S, Byte
    <3> QED BY <2>2, <3>2
  <2>3. CASE i # Len(s) /\ ~AtBOM(s, i)
    <3>1. i + 1 \in S /\ s[i + 1] \in Byte
      BY <1>3, <2>3
    <3>2. g[i + 1] \in V
      <4> HIDE DEF S, V
      <4> QED BY <3>1
    <3>3. g[i + 1][1] \in Seq(Byte) /\ g[i + 1][2] \in Nat
      BY <1>4, <3>2
    <3>4. <<s[i + 1]>> \o g[i + 1][1] \in Seq(Byte)
      <4> HIDE DEF Byte
      <4> QED BY <3>1, <3>3, ConcatProperties
    <3> HIDE DEF More, S, Byte
    <3> QED BY <2>3, <3>3, <3>4
  <2> QED BY <2>1, <2>2, <2>3
<1>6. F \in [[S -> V] -> [S -> V]]
  <2> HIDE DEF S, V, Step
  <2> QED BY <1>5
<1>7. \A i \in S : \A g, h \in [S -> V] :
          (\A j \in S : mu[j] < mu[i] => g[j] = h[j]) => F[g][i] = F[h][i]
  <2> TAKE i \in S
  <2> TAKE g, h \in [S -> V]
  <2> HAVE \A j \in S : mu[j] < mu[i] => g[j] = h[j]
  <2>1. AtBOM(s, i) => g[i + 3] = h[i + 3]
    BY <1>1, <1>2
  <2>2. i # Len(s) => g[i + 1] = h[i + 1]
    BY <1>1, <1>3
  <2>3. Step(g, i) = Step(h, i)
    <3> HIDE DEF S, V, More
    <3> QED BY <2>1, <2>2
  <2> HIDE DEF S, V, Step
  <2> QED BY <2>3
<1>8. PICK f \in [S -> V] : F[f] = f
  <2>1. V # {}
    <3>1. <<>> \in Seq(Byte) /\ 0 \in Nat
      OBVIOUS
    <3> HIDE DEF Byte
    <3>2. <<<<>>, 0>> \in V
      BY <3>1
    <3> HIDE DEF V
    <3> QED BY <3>2
  <2>2. mu \in [S -> Nat]
    BY <1>1
  <2> HIDE DEF S, V, F, mu
  <2>3. DependsBelow(S, mu, V, F)
    BY <2>1, <2>2, <1>6, <1>7 DEF DependsBelow
  <2> QED BY <2>3, Recursion
<1>9. \A i \in S : f[i] = Step(f, i) /\ f[i] \in V
  <2> HIDE DEF S, V, Step
  <2> QED BY <1>8
<1> DEFINE text == [i \in S |-> f[i][1]]
           marks == [i \in S |-> f[i][2]]
<1>10. text \in [S -> Seq(Byte)] /\ marks \in [S -> Nat]
  <2> HIDE DEF S, V
  <2> QED BY <1>4, <1>9
<1>11. text[Len(s)] = <<>> /\ marks[Len(s)] = 0
  <2>1. Len(s) \in S
    BY <1>1
  <2>2. f[Len(s)] = <<<<>>, 0>>
    <3>1. f[Len(s)] = Step(f, Len(s))
      <4> HIDE DEF S, Step
      <4> QED BY <1>9, <2>1
    <3> HIDE DEF S, V, More
    <3> QED BY <3>1
  <2> QED BY <2>1, <2>2
<1>12. ASSUME NEW i \in 0..(Len(s) - 1)
       PROVE  IF AtBOM(s, i)
              THEN /\ i + 3 \in 0..Len(s) /\ text[i] = text[i + 3]
                   /\ marks[i] = marks[i + 3] + (IF text[i + 3] = <<>> THEN 1 ELSE 0)
              ELSE text[i] = <<s[i + 1]>> \o text[i + 1] /\ marks[i] = marks[i + 1]
  <2>1. i \in S /\ i # Len(s)
    BY <1>1
  <2>2. f[i] = Step(f, i)
    BY <1>9, <2>1
  <2>3. CASE AtBOM(s, i)
    <3>1. i + 3 \in S
      BY <1>2, <2>1, <2>3
    <3>2. f[i] = <<f[i + 3][1], f[i + 3][2] + More(f[i + 3])>>
      <4> HIDE DEF S, More
      <4> QED BY <2>1, <2>2, <2>3
    <3> HIDE DEF More
    <3>3. f[i][1] = f[i + 3][1] /\ f[i][2] = f[i + 3][2] + More(f[i + 3])
      BY <3>2
    <3> QED BY <2>1, <2>3, <3>1, <3>3 DEF More
  <2>4. CASE ~AtBOM(s, i)
    <3>1. i + 1 \in S
      BY <1>3, <2>1
    <3>2. f[i] = <<<<s[i + 1]>> \o f[i + 1][1], f[i + 1][2]>>
      <4> HIDE DEF S, More
      <4> QED BY <2>1, <2>2, <2>4
    <3> QED BY <2>1, <2>4, <3>1, <3>2
  <2> QED BY <2>3, <2>4
<1> HIDE DEF text, marks, Byte
<1>13. Strips(s, text, marks)
  BY <1>10, <1>11, <1>12 DEF Strips
<1> QED
  BY <1>13

(* How two strings compare by what is left of them.                        *)
ByText(l, r, m, n) ==
    CASE Precedes(l, r) -> -1 [] Precedes(r, l) -> 1 [] OTHER -> Sign(m, n)

(* A string that has no text left before its end is all markers.           *)
LEMMA TextOrMarks ==
    ASSUME NEW s \in Seq(Byte), NEW text, NEW marks, Strips(s, text, marks),
           NEW i \in 0..(Len(s) - 1)
    PROVE  /\ text[i] \in Seq(Byte) /\ marks[i] \in Nat
           /\ text[i] = <<>> => AtBOM(s, i) /\ marks[i] >= 1
<1>1. Len(s) \in Nat /\ i \in 0..Len(s) /\ i + 1 \in 0..Len(s) /\ i + 1 \in 1..Len(s)
  OBVIOUS
<1>2. text[i] \in Seq(Byte) /\ marks[i] \in Nat /\ text[i + 1] \in Seq(Byte)
  BY <1>1 DEF Strips
<1>3. CASE AtBOM(s, i)
  <2>1. i + 3 \in 0..Len(s) /\ text[i] = text[i + 3]
        /\ marks[i] = marks[i + 3] + (IF text[i + 3] = <<>> THEN 1 ELSE 0)
    BY <1>3 DEF Strips
  <2>2. marks[i + 3] \in Nat
    BY <2>1 DEF Strips
  <2> QED BY <1>2, <1>3, <2>1, <2>2
<1>4. CASE ~AtBOM(s, i)
  <2>1. text[i] = <<s[i + 1]>> \o text[i + 1]
    BY <1>4 DEF Strips
  <2>2. s[i + 1] \in Byte
    BY <1>1, ElementOfSeq
  <2>3. Len(text[i]) = 1 + Len(text[i + 1]) /\ Len(text[i + 1]) \in Nat
    <3> HIDE DEF Byte
    <3> QED BY <1>2, <2>1, <2>2, ConcatProperties
  <2>4. text[i] # <<>>
    BY <2>3
  <2> QED BY <1>2, <2>4
<1> QED
  BY <1>3, <1>4

(* Two strings compare by the text that is left of them, and if that is    *)
(* the same, by the markers they end in: the shorter one comes first.      *)
LEMMA ComparedByText ==
    ASSUME NEW l \in Seq(Byte), NEW r \in Seq(Byte), NEW tl, NEW ml, NEW tr, NEW mr,
           Strips(l, tl, ml), Strips(r, tr, mr)
    PROVE  CompareBytes(l, r) = ByText(tl[0], tr[0], ml[0], mr[0])
<1>1. PICK g : /\ CompareBytes(l, r) = g[<<0, 0>>]
               /\ \A at \in PlacesInTwo(l, r) : g[at] = ComparedAt(l, r, g, at)
  BY ComparedStepByStep
<1>2. Len(l) \in Nat /\ Len(r) \in Nat
  OBVIOUS
<1> DEFINE Right(i, j) == g[<<i, j>>] = ByText(tl[i], tr[j], ml[i], mr[j])
<1>3. ASSUME NEW i \in 0..Len(l), NEW j \in 0..Len(r),
             \A a \in 0..Len(l), b \in 0..Len(r) : a + b > i + j => Right(a, b)
      PROVE  Right(i, j)
  <2> DEFINE newi == SkipBOM(l, i)
             newj == SkipBOM(r, j)
  <2>1. g[<<i, j>>] = IF i = Len(l) THEN (IF j = Len(r) THEN 0 ELSE -1)
        ELSE IF j = Len(r) THEN 1
        ELSE IF newi # i \/ newj # j THEN g[<<newi, newj>>]
        ELSE IF l[i + 1] # r[j + 1] THEN (IF l[i + 1] > r[j + 1] THEN 1 ELSE -1)
        ELSE g[<<i + 1, j + 1>>]
    <3>1. <<i, j>> \in PlacesInTwo(l, r)
      BY DEF PlacesInTwo
    <3>2. g[<<i, j>>] = ComparedAt(l, r, g, <<i, j>>)
      BY <1>1, <3>1
    <3> QED BY <3>2 DEF ComparedAt
  <2>2. /\ tl[i] \in Seq(Byte) /\ ml[i] \in Nat /\ tr[j] \in Seq(Byte) /\ mr[j] \in Nat
        /\ tl[Len(l)] = <<>> /\ ml[Len(l)] = 0 /\ tr[Len(r)] = <<>> /\ mr[Len(r)] = 0
    BY DEF Strips
  <2>3. \A s \in Seq(Byte) : ~Precedes(s, <<>>) /\ (Precedes(<<>>, s) <=> s # <<>>)
    BY EmptyIsLeast
  <2>4. i # Len(l) => (tl[i] = <<>> => AtBOM(l, i) /\ ml[i] >= 1)
    <3>1. i # Len(l) => i \in 0..(Len(l) - 1)
      BY <1>2
    <3> QED BY <3>1, TextOrMarks
  <2>5. j # Len(r) => (tr[j] = <<>> => AtBOM(r, j) /\ mr[j] >= 1)
    <3>1. j # Len(r) => j \in 0..(Len(r) - 1)
      BY <1>2
    <3> QED BY <3>1, TextOrMarks
  <2>6. CASE i = Len(l) /\ j = Len(r)
    <3>1. ByText(tl[i], tr[j], ml[i], mr[j]) = 0
      BY <2>2, <2>3, <2>6 DEF ByText, Sign
    <3> QED BY <2>1, <2>6, <3>1
  <2>7. CASE i = Len(l) /\ j # Len(r)
    <3>1. ByText(tl[i], tr[j], ml[i], mr[j]) = -1
      BY <2>2, <2>3, <2>5, <2>7 DEF ByText, Sign
    <3> QED BY <2>1, <2>7, <3>1
  <2>8. CASE i # Len(l) /\ j = Len(r)
    <3>1. ByText(tl[i], tr[j], ml[i], mr[j]) = 1
      BY <2>2, <2>3, <2>4, <2>8 DEF ByText, Sign
    <3> QED BY <2>1, <2>8, <3>1
  <2>9. CASE i # Len(l) /\ j # Len(r) /\ (newi # i \/ newj # j)
    <3>1. /\ newi = i \/ (newi = i + 3 /\ AtBOM(l, i))
          /\ newj = j \/ (newj = j + 3 /\ AtBOM(r, j))
          /\ AtBOM(l, i) => newi = i + 3
          /\ AtBOM(r, j) => newj = j + 3
      BY DEF SkipBOM
    <3>2. AtBOM(l, i) => /\ i + 3 \in 0..Len(l) /\ tl[i] = tl[i + 3]
                         /\ ml[i] = ml[i + 3] + (IF tl[i + 3] = <<>> THEN 1 ELSE 0)
      <4>1. i \in 0..(Len(l) - 1)
        BY <1>2, <2>9
      <4> QED BY <4>1 DEF Strips
    <3>3. AtBOM(r, j) => /\ j + 3 \in 0..Len(r) /\ tr[j] = tr[j + 3]
                         /\ mr[j] = mr[j + 3] + (IF tr[j + 3] = <<>> THEN 1 ELSE 0)
      <4>1. j \in 0..(Len(r) - 1)
        BY <1>2, <2>9
      <4> QED BY <4>1 DEF Strips
    <3>4. newi \in 0..Len(l) /\ newj \in 0..Len(r) /\ newi + newj > i + j
      BY <1>2, <2>9, <3>1, <3>2, <3>3
    <3>5. Right(newi, newj)
      <4> HIDE DEF newi, newj, Right
      <4> QED BY <1>3, <3>4
    <3>6. ml[newi] \in Nat /\ mr[newj] \in Nat
      <4> HIDE DEF newi, newj
      <4> QED BY <3>4 DEF Strips
    <3>7. tl[newi] = tl[i] /\ tr[newj] = tr[j]
      BY <3>1, <3>2, <3>3
    <3> DEFINE m == ml[newi]
               n == mr[newj]
    <3>8. tl[i] # <<>> => m = ml[i]
      BY <3>1, <3>2, <3>6, <3>7
    <3>9. tr[j] # <<>> => n = mr[j]
      BY <3>1, <3>3, <3>6, <3>7
    <3>10. tl[i] = <<>> /\ tr[j] = <<>> => ml[i] = m + 1 /\ mr[j] = n + 1
      BY <2>4, <2>5, <2>9, <3>1, <3>2, <3>3
    <3> HIDE DEF newi, newj
    <3>11. ByText(tl[i], tr[j], m, n) = ByText(tl[i], tr[j], ml[i], mr[j])
      <4>0. m \in Nat /\ n \in Nat
        BY <3>6
      <4> HIDE DEF m, n
      <4>1. CASE tl[i] # <<>> /\ tr[j] # <<>>
        BY <3>8, <3>9, <4>1
      <4>2. CASE tl[i] = <<>> /\ tr[j] # <<>>
        BY <2>2, <2>3, <4>2 DEF ByText
      <4>3. CASE tl[i] # <<>> /\ tr[j] = <<>>
        BY <2>2, <2>3, <4>3 DEF ByText
      <4>4. CASE tl[i] = <<>> /\ tr[j] = <<>>
        <5>1. ml[i] = m + 1 /\ mr[j] = n + 1
          BY <3>10, <4>4
        <5>2. Sign(m, n) = Sign(ml[i], mr[j])
          BY <4>0, <5>1 DEF Sign
        <5> QED BY <5>2 DEF ByText
      <4> QED BY <4>1, <4>2, <4>3, <4>4
    <3>12. g[<<newi, newj>>] = ByText(tl[i], tr[j], m, n)
      BY <3>5, <3>7
    <3> QED BY <2>1, <2>9, <3>11, <3>12
  <2>10. CASE i # Len(l) /\ j # Len(r) /\ newi = i /\ newj = j
    <3> DEFINE a == l[i + 1]
               b == r[j + 1]
    <3>1. ~AtBOM(l, i) /\ ~AtBOM(r, j)
      BY <1>2, <2>10 DEF SkipBOM
    <3>2. i + 1 \in 0..Len(l) /\ j + 1 \in 0..Len(r) /\ (i + 1) + (j + 1) > i + j
          /\ i + 1 \in 1..Len(l) /\ j + 1 \in 1..Len(r)
          /\ i \in 0..(Len(l) - 1) /\ j \in 0..(Len(r) - 1)
      BY <1>2, <2>10
    <3>3. a \in Byte /\ b \in Byte
      BY <3>2, ElementOfSeq
    <3>4. tl[i] = <<a>> \o tl[i + 1] /\ tr[j] = <<b>> \o tr[j + 1]
          /\ ml[i] = ml[i + 1] /\ mr[j] = mr[j + 1]
      BY <3>1, <3>2 DEF Strips
    <3>5. tl[i + 1] \in Seq(Byte) /\ tr[j + 1] \in Seq(Byte)
      BY <3>2 DEF Strips
    <3>6. Right(i + 1, j + 1)
      <4> HIDE DEF Right
      <4> QED BY <1>3, <3>2
    <3> HIDE DEF a, b
    <3>7. /\ Precedes(tl[i], tr[j]) <=> a < b \/ (a = b /\ Precedes(tl[i + 1], tr[j + 1]))
          /\ Precedes(tr[j], tl[i]) <=> b < a \/ (b = a /\ Precedes(tr[j + 1], tl[i + 1]))
      <4> DEFINE x == tl[i + 1]
                 y == tr[j + 1]
      <4>1. x \in Seq(Byte) /\ y \in Seq(Byte) /\ a \in Byte /\ b \in Byte
        BY <3>3, <3>5
      <4> HIDE DEF x, y, Byte
      <4>2. Precedes(<<a>> \o x, <<b>> \o y) <=> a < b \/ (a = b /\ Precedes(x, y))
        BY <4>1, FirstByteDecides
      <4>3. Precedes(<<b>> \o y, <<a>> \o x) <=> b < a \/ (b = a /\ Precedes(y, x))
        BY <4>1, FirstByteDecides
      <4>4. tl[i] = <<a>> \o x /\ tr[j] = <<b>> \o y
        BY <3>4 DEF x, y
      <4> QED BY <4>2, <4>3, <4>4, Zenon DEF x, y
    <3>8. a \in Int /\ b \in Int
      BY <3>3 DEF Byte
    <3>9. g[<<i, j>>] = IF a # b THEN (IF a > b THEN 1 ELSE -1) ELSE g[<<i + 1, j + 1>>]
      BY <2>1, <2>10 DEF a, b
    <3>10. ByText(tl[i], tr[j], ml[i], mr[j])
               = IF a # b THEN (IF a > b THEN 1 ELSE -1)
                 ELSE ByText(tl[i + 1], tr[j + 1], ml[i + 1], mr[j + 1])
      <4>1. CASE a < b
        BY <3>7, <3>8, <4>1 DEF ByText
      <4>2. CASE a > b
        BY <3>7, <3>8, <4>2 DEF ByText
      <4>3. CASE a = b
        BY <3>4, <3>7, <3>8, <4>3 DEF ByText
      <4> QED BY <3>8, <4>1, <4>2, <4>3
    <3> QED BY <3>6, <3>9, <3>10
  <2> QED BY <2>6, <2>7, <2>8, <2>9, <2>10
<1> HIDE DEF Right
<1> DEFINE Bad == {k \in Nat : \E i \in 0..Len(l), j \in 0..Len(r) :
                       k = Len(l) + Len(r) - i - j /\ ~Right(i, j)}
<1>4. Bad = {}
  <2> SUFFICES ASSUME Bad # {} PROVE FALSE
    OBVIOUS
  <2>1. PICK k \in Bad : \A n \in Bad : k <= n
    <3>1. Bad \in SUBSET Nat
      OBVIOUS
    <3> HIDE DEF Bad
    <3> QED BY <3>1, Least
  <2>2. PICK i \in 0..Len(l), j \in 0..Len(r) : k = Len(l) + Len(r) - i - j /\ ~Right(i, j)
    BY <2>1
  <2>3. ASSUME NEW a \in 0..Len(l), NEW b \in 0..Len(r), a + b > i + j, ~Right(a, b)
        PROVE  FALSE
    <3>1. Len(l) + Len(r) - a - b \in Nat /\ ~(k <= Len(l) + Len(r) - a - b)
      BY <1>2, <2>2, <2>3, SMTT(30)
    <3>2. Len(l) + Len(r) - a - b \in Bad
      BY <2>3, <3>1
    <3> HIDE DEF Bad
    <3> QED BY <2>1, <3>1, <3>2
  <2> QED BY <1>3, <2>2, <2>3
<1>5. Right(0, 0)
  <2>1. 0 \in 0..Len(l) /\ 0 \in 0..Len(r) /\ Len(l) + Len(r) - 0 - 0 \in Nat
    BY <1>2
  <2> QED BY <1>4, <2>1
<1> QED
  BY <1>1, <1>5 DEF Right

-----------------------------------------------------------------------------
(* The elements of two sequences put together.                             *)
LEMMA JoinedElements ==
    ASSUME NEW S, NEW s \in Seq(S), NEW t \in Seq(S)
    PROVE  /\ s \o t \in Seq(S) /\ Len(s \o t) = Len(s) + Len(t)
           /\ Len(s) \in Nat /\ Len(t) \in Nat
           /\ \A i \in 1..Len(s) : (s \o t)[i] = s[i]
           /\ \A i \in 1..Len(t) : (s \o t)[Len(s) + i] = t[i]
<1>1. /\ s \o t \in Seq(S) /\ Len(s \o t) = Len(s) + Len(t)
      /\ Len(s) \in Nat /\ Len(t) \in Nat
      /\ \A i \in 1..(Len(s) + Len(t)) :
            (s \o t)[i] = IF i <= Len(s) THEN s[i] ELSE t[i - Len(s)]
  BY ConcatProperties
<1>2. \A i \in 1..Len(s) : (s \o t)[i] = s[i]
  BY FirstOnes
<1>3. ASSUME NEW i \in 1..Len(t) PROVE (s \o t)[Len(s) + i] = t[i]
  <2>1. Len(s) + i \in 1..(Len(s) + Len(t)) /\ ~(Len(s) + i <= Len(s)) /\ (Len(s) + i) - Len(s) = i
    BY <1>1
  <2>2. (s \o t)[Len(s) + i] = t[(Len(s) + i) - Len(s)]
    BY <1>1, <2>1
  <2> QED BY <2>1, <2>2
<1> QED
  BY <1>1, <1>2, <1>3

(* What is left of two sequences put together, from inside the first one,  *)
(* and from behind it.                                                     *)
LEMMA RestOfTwo ==
    ASSUME NEW S, NEW s \in Seq(S), NEW t \in Seq(S)
    PROVE  /\ \A e \in 0..Len(s) : From(s \o t, e) = From(s, e) \o t
           /\ \A e \in 0..Len(t) : From(s \o t, Len(s) + e) = From(t, e)
<1> DEFINE c == s \o t
<1>1. /\ c \in Seq(S) /\ Len(c) = Len(s) + Len(t) /\ Len(s) \in Nat /\ Len(t) \in Nat
      /\ \A i \in 1..Len(s) : c[i] = s[i]
      /\ \A i \in 1..Len(t) : c[Len(s) + i] = t[i]
  BY JoinedElements
<1> HIDE DEF c
<1>2. ASSUME NEW e \in 0..Len(s) PROVE From(c, e) = From(s, e) \o t
  <2> DEFINE x == From(c, e)
             y == From(s, e)
             z == y \o t
  <2>1. e \in 0..Len(c) /\ Len(c) - e = (Len(s) - e) + Len(t)
    BY <1>1
  <2>2. /\ x \in Seq(S) /\ Len(x) = Len(c) - e
        /\ \A k \in 1..(Len(c) - e) : x[k] = c[e + k]
    BY <1>1, <2>1, RestElements
  <2>3. /\ y \in Seq(S) /\ Len(y) = Len(s) - e
        /\ \A k \in 1..(Len(s) - e) : y[k] = s[e + k]
    BY RestElements
  <2> HIDE DEF x, y
  <2>4. /\ z \in Seq(S) /\ Len(z) = Len(y) + Len(t)
        /\ \A i \in 1..Len(y) : z[i] = y[i]
        /\ \A i \in 1..Len(t) : z[Len(y) + i] = t[i]
    <3>1. y \in Seq(S)
      BY <2>3
    <3> QED BY <3>1, JoinedElements
  <2> HIDE DEF z
  <2>5. ASSUME NEW k \in 1..Len(x) PROVE x[k] = z[k]
    <3>0. k \in 1..(Len(c) - e)
      BY <2>2
    <3>1. x[k] = c[e + k]
      BY <2>2, <3>0
    <3>2. CASE k <= Len(y)
      <4>1. e + k \in 1..Len(s) /\ k \in 1..Len(y) /\ k \in 1..(Len(s) - e)
        BY <1>1, <2>3, <3>0, <3>2
      <4>2. c[e + k] = s[e + k] /\ z[k] = y[k] /\ y[k] = s[e + k]
        BY <1>1, <2>3, <2>4, <4>1
      <4> QED BY <3>1, <4>2
    <3>3. CASE ~(k <= Len(y))
      <4> DEFINE m == k - Len(y)
      <4>1. m \in 1..Len(t) /\ Len(y) + m = k /\ Len(s) + m = e + k
        BY <1>1, <2>1, <2>3, <3>0, <3>3
      <4> HIDE DEF m
      <4>2. c[Len(s) + m] = t[m] /\ z[Len(y) + m] = t[m]
        BY <1>1, <2>4, <4>1
      <4> QED BY <3>1, <4>1, <4>2
    <3> QED BY <3>2, <3>3
  <2>6. Len(x) = Len(z)
    BY <1>1, <2>1, <2>2, <2>3, <2>4
  <2>7. x = z
    BY <2>2, <2>4, <2>5, <2>6, SeqEqual
  <2> QED BY <2>7 DEF x, y, z
<1>3. ASSUME NEW e \in 0..Len(t) PROVE From(c, Len(s) + e) = From(t, e)
  <2> DEFINE p == Len(s) + e
             x == From(c, p)
             y == From(t, e)
  <2>1. p \in 0..Len(c) /\ Len(c) - p = Len(t) - e
    BY <1>1
  <2>11. \A k \in Nat : p + k = Len(s) + (e + k)
    BY <1>1
  <2> HIDE DEF p
  <2>2. /\ x \in Seq(S) /\ Len(x) = Len(c) - p
        /\ \A k \in 1..(Len(c) - p) : x[k] = c[p + k]
    BY <1>1, <2>1, RestElements
  <2>3. /\ y \in Seq(S) /\ Len(y) = Len(t) - e
        /\ \A k \in 1..(Len(t) - e) : y[k] = t[e + k]
    BY RestElements
  <2> HIDE DEF x, y
  <2>4. ASSUME NEW k \in 1..Len(x) PROVE x[k] = y[k]
    <3>0. k \in 1..(Len(c) - p) /\ k \in 1..(Len(t) - e) /\ k \in Nat
      BY <2>1, <2>2
    <3> DEFINE m == e + k
    <3>1. m \in 1..Len(t)
      BY <1>1, <3>0
    <3>2. p + k = Len(s) + m
      BY <2>11, <3>0
    <3>3. x[k] = c[p + k] /\ y[k] = t[m]
      BY <2>2, <2>3, <3>0
    <3> HIDE DEF m
    <3> QED BY <1>1, <3>1, <3>2, <3>3
  <2>5. x = y
    BY <2>1, <2>2, <2>3, <2>4, SeqEqual
  <2> QED BY <2>5 DEF x, y, p
<1> QED
  BY <1>2, <1>3 DEF c

(* The rest of a sequence is one element and the rest behind it.           *)
LEMMA RestStep ==
    ASSUME NEW S, NEW s \in Seq(S), NEW d \in 1..Len(s)
    PROVE  /\ s[d] \in S /\ From(s, d) \in Seq(S)
           /\ From(s, d - 1) = <<s[d]>> \o From(s, d)
<1> DEFINE e == d - 1
           a == <<s[d]>>
           x == From(s, e)
           y == From(s, d)
           z == a \o y
<1>1. /\ e \in 0..Len(s) /\ d \in 0..Len(s) /\ Len(s) \in Nat /\ e + 1 = d /\ e \in Nat
      /\ Len(s) - e = 1 + (Len(s) - d)
  OBVIOUS
<1>2. s[d] \in S
  BY ElementOfSeq
<1> HIDE DEF e
<1>3. x \in Seq(S) /\ Len(x) = Len(s) - e /\ \A k \in 1..(Len(s) - e) : x[k] = s[e + k]
  BY <1>1, RestElements
<1>4. y \in Seq(S) /\ Len(y) = Len(s) - d /\ \A k \in 1..(Len(s) - d) : y[k] = s[d + k]
  BY <1>1, RestElements
<1>5. a \in Seq(S) /\ Len(a) = 1 /\ a[1] = s[d]
  BY <1>2
<1> HIDE DEF a, x, y
<1>6. /\ z \in Seq(S) /\ Len(z) = Len(a) + Len(y)
      /\ \A i \in 1..Len(a) : z[i] = a[i]
      /\ \A i \in 1..Len(y) : z[Len(a) + i] = y[i]
  <2>1. a \in Seq(S) /\ y \in Seq(S)
    BY <1>4, <1>5
  <2> QED BY <2>1, JoinedElements
<1> HIDE DEF z
<1>7. Len(x) = Len(z)
  BY <1>1, <1>3, <1>4, <1>5, <1>6
<1>8. ASSUME NEW k \in 1..Len(x) PROVE x[k] = z[k]
  <2>1. x[k] = s[e + k]
    BY <1>3
  <2>2. CASE k = 1
    BY <1>1, <1>5, <1>6, <2>1, <2>2
  <2>3. CASE k # 1
    <3> DEFINE m == k - 1
    <3>1. m \in 1..Len(y) /\ 1 + m = k /\ d + m = e + k /\ m \in 1..(Len(s) - d)
      BY <1>1, <1>3, <1>4, <2>3
    <3> HIDE DEF m
    <3>2. z[Len(a) + m] = y[m] /\ y[m] = s[d + m]
      BY <1>4, <1>6, <3>1
    <3> QED BY <1>5, <2>1, <3>1, <3>2
  <2> QED BY <2>2, <2>3
<1>9. x = z
  BY <1>3, <1>6, <1>7, <1>8, SeqEqual
<1> QED
  BY <1>2, <1>4, <1>9 DEF a, e, x, y, z

(* IsPrefix, element by element.                                           *)
LEMMA PrefixElements ==
    ASSUME NEW S, NEW s \in Seq(S), NEW t \in Seq(S)
    PROVE  IsPrefix(s, t) <=> Len(s) <= Len(t) /\ \A j \in 1..Len(s) : s[j] = t[j]
<1>1. Len(s) \in Nat /\ Len(t) \in Nat
  OBVIOUS
<1>2. Len(s) <= Len(t) => (SubSeq(s, 1, Len(s)) = SubSeq(t, 1, Len(s))
                              <=> \A j \in 1..Len(s) : s[j] = t[j])
  BY <1>1, SameBeginning
<1> QED
  BY <1>2, Zenon DEF IsPrefix

(* A prefix of two sequences put together is one of the first of them, or  *)
(* begins with it.                                                         *)
LEMMA PrefixOfTwo ==
    ASSUME NEW S, NEW p \in Seq(S), NEW s \in Seq(S), NEW t \in Seq(S), IsPrefix(p, s \o t)
    PROVE  IsPrefix(p, s) \/ IsPrefix(s, p)
<1> DEFINE c == s \o t
<1>1. /\ c \in Seq(S) /\ Len(p) \in Nat /\ Len(s) \in Nat
      /\ \A i \in 1..Len(s) : c[i] = s[i]
  BY JoinedElements
<1>0. IsPrefix(p, c)
  OBVIOUS
<1> HIDE DEF c
<1>2. \A j \in 1..Len(p) : p[j] = c[j]
  BY <1>0, <1>1, PrefixElements
<1>3. CASE Len(p) <= Len(s)
  <2>1. \A j \in 1..Len(p) : p[j] = s[j]
    BY <1>1, <1>2, <1>3
  <2> QED BY <1>3, <2>1, PrefixElements
<1>4. CASE Len(s) <= Len(p)
  <2>1. \A j \in 1..Len(s) : s[j] = p[j]
    BY <1>1, <1>2, <1>4
  <2> QED BY <1>4, <2>1, PrefixElements
<1> QED
  BY <1>1, <1>3, <1>4

(* A marker in front of a string is one.                                   *)
LEMMA MarkerInFront ==
    ASSUME NEW t \in Seq(Byte)
    PROVE  BOM \in Seq(Byte) /\ Len(BOM) = 3 /\ IsPrefix(BOM, BOM \o t)
<1>1. BOM \in Seq(Byte) /\ Len(BOM) = 3
  BY DEF BOM, Byte
<1> HIDE DEF Byte
<1> DEFINE c == BOM \o t
<1>2. /\ c \in Seq(Byte) /\ Len(c) = Len(BOM) + Len(t) /\ Len(t) \in Nat
      /\ \A i \in 1..Len(BOM) : c[i] = BOM[i]
  <2>1. BOM \in Seq(Byte)
    BY <1>1
  <2> QED BY <2>1, JoinedElements, Zenon
<1> HIDE DEF c
<1>3. IsPrefix(BOM, c)
  <2>1. Len(BOM) <= Len(c) /\ \A i \in 1..Len(BOM) : BOM[i] = c[i]
    BY <1>1, <1>2
  <2> QED BY <1>1, <1>2, <2>1, PrefixElements
<1> QED
  BY <1>1, <1>3 DEF c

(* There is none inside a piece of text that is unmarked, whatever is      *)
(* behind it: what is left from a place in it is the rest of it.           *)
LEMMA TextOfPiece ==
    ASSUME NEW front \in Seq(Byte), NEW piece \in Seq(Byte), NEW behind \in Seq(Byte),
           Unmarked(piece), NEW text, NEW marks, Strips(front \o (piece \o behind), text, marks)
    PROVE  /\ text[Len(front)] = piece \o text[Len(front) + Len(piece)]
           /\ marks[Len(front)] = marks[Len(front) + Len(piece)]
<1> DEFINE s == front \o (piece \o behind)
           a == Len(front)
           n == Len(piece)
           b == a + n
           tail == piece \o behind
           T == {d \in 0..n : /\ text[a + d] = From(piece, d) \o text[b]
                              /\ marks[a + d] = marks[b]}
<1> HIDE DEF Byte
<1>1. /\ a \in Nat /\ n \in Nat /\ Len(behind) \in Nat
      /\ tail \in Seq(Byte) /\ Len(tail) = n + Len(behind)
      /\ \A d \in 1..n : tail[d] = piece[d]
  BY JoinedElements
<1>2. ASSUME NEW d \in 0..n PROVE From(tail, d) = From(piece, d) \o behind
  BY RestOfTwo
<1> HIDE DEF tail
<1>3. /\ s \in Seq(Byte) /\ Len(s) = a + Len(tail)
      /\ \A d \in 1..Len(tail) : s[a + d] = tail[d]
  BY <1>1, JoinedElements DEF tail
<1>12. Strips(s, text, marks)
  OBVIOUS
<1>4. ASSUME NEW d \in 0..n PROVE From(s, a + d) = From(piece, d) \o behind
  <2>1. d \in 0..Len(tail)
    BY <1>1
  <2>2. From(s, a + d) = From(tail, d)
    BY <1>1, <2>1, RestOfTwo DEF tail
  <2> QED BY <1>2, <2>2
<1> HIDE DEF s
<1>5. b \in 0..Len(s) /\ text[b] \in Seq(Byte)
  <2>1. b \in 0..Len(s)
    BY <1>1, <1>3
  <2> HIDE DEF b
  <2> QED BY <1>12, <2>1 DEF Strips
<1>6. n \in T
  <2> DEFINE x == From(piece, n)
  <2>1. x \in Seq(Byte) /\ Len(x) = 0
    <3>1. n \in 0..n /\ n - n = 0
      BY <1>1
    <3> QED BY <3>1, RestElements
  <2> HIDE DEF x, b
  <2>2. x = <<>>
    BY <2>1, EmptySeq
  <2>3. <<>> \o text[b] = text[b]
    BY <1>5, ConcatEmptySeq
  <2>4. n \in 0..n
    BY <1>1
  <2> QED BY <2>2, <2>3, <2>4 DEF x, b
<1>7. ASSUME NEW d \in 1..n, d \in T PROVE d - 1 \in T
  <2> DEFINE e == d - 1
             p == a + e
             x == From(piece, e)
             y == From(piece, d)
             z == text[b]
  <2>1. /\ e \in 0..n /\ e + 1 = d /\ p \in 0..(Len(s) - 1) /\ p + 1 = a + d
        /\ d \in DOMAIN piece /\ d \in 1..Len(tail)
    BY <1>1, <1>3
  <2>2. /\ piece[d] \in Byte /\ y \in Seq(Byte) /\ x = <<piece[d]>> \o y
    BY RestStep
  <2>3. x \in Seq(Byte)
    BY <2>1, RestElements
  <2>4. From(s, p) = x \o behind
    BY <1>4, <2>1
  <2>5. ~IsPrefix(BOM, x) /\ ~IsPrefix(x, BOM)
    BY <2>1 DEF Unmarked
  <2>6. text[p + 1] = y \o z /\ marks[p + 1] = marks[b]
    BY <1>7, <2>1
  <2> HIDE DEF b, e, p, x, y, z, T
  <2>7. ~AtBOM(s, p)
    <3>1. BOM \in Seq(Byte)
      BY MarkerInFront
    <3> QED BY <2>3, <2>4, <2>5, <3>1, PrefixOfTwo DEF AtBOM
  <2>8. text[p] = <<s[p + 1]>> \o text[p + 1] /\ marks[p] = marks[p + 1]
    BY <1>12, <2>1, <2>7 DEF Strips
  <2>9. s[p + 1] = piece[d]
    BY <1>1, <1>3, <2>1
  <2>10. (<<piece[d]>> \o y) \o z = <<piece[d]>> \o (y \o z)
    <3> DEFINE w == <<piece[d]>>
    <3>1. w \in Seq(Byte) /\ y \in Seq(Byte)
      BY <2>2
    <3>2. z \in Seq(Byte)
      BY <1>5 DEF z
    <3> HIDE DEF w
    <3>3. (w \o y) \o z = w \o (y \o z)
      <4>1. Regroups(w, y, z)
        BY <3>1, <3>2, Regrouped, Zenon
      <4> QED BY <4>1, Zenon DEF Regroups
    <3> QED BY <3>3 DEF w
  <2>11. text[p] = x \o z /\ marks[p] = marks[b]
    BY <2>2, <2>6, <2>8, <2>9, <2>10
  <2> QED BY <2>1, <2>11 DEF e, p, x, z, T
<1>8. 0 \in T
  <2>1. n \in Nat /\ n \in T /\ \A d \in 1..n : d \in T => d - 1 \in T
    BY <1>1, <1>6, <1>7
  <2> HIDE DEF T, n
  <2>2. 0..n \subseteq T
    BY <2>1, Downwards
  <2> QED BY <2>1, <2>2
<1>9. From(piece, 0) = piece
  BY AllOfIt DEF From
<1>10. a + 0 = a
  BY <1>1
<1> HIDE DEF a, b
<1>11. text[a] = piece \o text[b] /\ marks[a] = marks[b]
  BY <1>8, <1>9, <1>10
<1> QED
  BY <1>11 DEF a, b

(* How many markers a sequence of pieces ends in, counted behind k of them.*)
TrailingBehind(chunks, k) ==
    Cardinality({n \in (k + 1)..Len(chunks) : \A i \in n..Len(chunks) : chunks[i] = BOM})

(* Counted behind one piece less.                                          *)
LEMMA OneMoreMarker ==
    ASSUME NEW S, NEW chunks \in Seq(S), NEW k \in 1..Len(chunks)
    PROVE  /\ TrailingBehind(chunks, k) \in Nat
           /\ TrailingBehind(chunks, k - 1) = TrailingBehind(chunks, k)
                  + IF \A i \in k..Len(chunks) : chunks[i] = BOM THEN 1 ELSE 0
<1> DEFINE T(m) == {n \in (m + 1)..Len(chunks) : \A i \in n..Len(chunks) : chunks[i] = BOM}
           A == T(k)
           B == T(k - 1)
<1>1. Len(chunks) \in Nat
  OBVIOUS
<1>2. IsFiniteSet(A) /\ Cardinality(A) \in Nat
  <2>1. k + 1 \in Int /\ Len(chunks) \in Int
    BY <1>1
  <2>2. IsFiniteSet((k + 1)..Len(chunks))
    BY <2>1, FS_Interval
  <2>3. A \in SUBSET ((k + 1)..Len(chunks))
    OBVIOUS
  <2> HIDE DEF A
  <2>4. IsFiniteSet(A)
    BY <2>2, <2>3, FS_Subset
  <2> QED BY <2>4, FS_CardinalityType
<1>3. ASSUME \A i \in k..Len(chunks) : chunks[i] = BOM PROVE B = A \cup {k} /\ k \notin A
  <2>1. B = A \cup {k}
    <3>1. ASSUME NEW n \in B PROVE n \in A \cup {k}
      BY <1>1
    <3>2. A \subseteq B
      BY <1>1
    <3>3. k \in B
      BY <1>1, <1>3
    <3> HIDE DEF A, B
    <3> QED BY <3>1, <3>2, <3>3
  <2>2. k \notin A
    BY <1>1
  <2> QED BY <2>1, <2>2
<1>4. ASSUME ~\A i \in k..Len(chunks) : chunks[i] = BOM PROVE B = A
  <2>1. k \notin B
    BY <1>4
  <2>2. ASSUME NEW n \in B PROVE n \in A
    <3>1. n \in k..Len(chunks) /\ \A i \in n..Len(chunks) : chunks[i] = BOM
      BY <1>1
    <3>2. n # k
      BY <2>1
    <3> QED BY <1>1, <3>1, <3>2
  <2>3. A \subseteq B
    BY <1>1
  <2> HIDE DEF A, B
  <2> QED BY <2>2, <2>3
<1>5. TrailingBehind(chunks, k) = Cardinality(A) /\ TrailingBehind(chunks, k - 1) = Cardinality(B)
  BY DEF TrailingBehind
<1> HIDE DEF A, B
<1>6. Cardinality(B) = Cardinality(A)
          + IF \A i \in k..Len(chunks) : chunks[i] = BOM THEN 1 ELSE 0
  <2>1. CASE \A i \in k..Len(chunks) : chunks[i] = BOM
    <3>1. Cardinality(A \cup {k}) = Cardinality(A) + 1
      BY <1>2, <1>3, <2>1, FS_AddElement
    <3> QED BY <1>3, <2>1, <3>1
  <2>2. CASE ~\A i \in k..Len(chunks) : chunks[i] = BOM
    BY <1>2, <1>4, <2>2
  <2> QED BY <2>1, <2>2
<1> QED
  BY <1>2, <1>5, <1>6

(* The same, in a word.                                                    *)
Passes(text, marks, front, piece) ==
    /\ text[Len(front)] = piece \o text[Len(front) + Len(piece)]
    /\ marks[Len(front)] = marks[Len(front) + Len(piece)]

(* A piece of text in front does not change what is behind it.             *)
LEMMA TextPasses ==
    ASSUME NEW front \in Seq(Byte), NEW piece \in Seq(Byte), NEW behind \in Seq(Byte),
           Unmarked(piece), NEW text, NEW marks, Strips(front \o (piece \o behind), text, marks)
    PROVE  Passes(text, marks, front, piece)
<1>1. /\ text[Len(front)] = piece \o text[Len(front) + Len(piece)]
      /\ marks[Len(front)] = marks[Len(front) + Len(piece)]
  BY TextOfPiece
<1> QED BY <1>1, Zenon DEF Passes

(* The text of a string put together of markers and pieces of text is that *)
(* of the pieces, and it ends in as many markers as they do.               *)
LEMMA TextOfChunks ==
    ASSUME NEW chunks \in Seq(Seq(Byte)),
           \A i \in DOMAIN chunks : chunks[i] = BOM \/ Unmarked(chunks[i]),
           NEW text, NEW marks, Strips(FlattenSeq(chunks), text, marks)
    PROVE  /\ FlattenSeq(chunks) \in Seq(Byte)
           /\ text[0] = TextOf(chunks) /\ marks[0] = Trailing(chunks)
<1> DEFINE n == Len(chunks)
           s == FlattenSeq(chunks)
           plain == [i \in DOMAIN chunks |-> IF chunks[i] = BOM THEN <<>> ELSE chunks[i]]
<1>1. n \in Nat /\ DOMAIN chunks = 1..n /\ \A i \in 1..n : chunks[i] \in Seq(Byte)
  <2>1. \A i \in 1..n : chunks[i] \in Seq(Byte)
    <3> HIDE DEF Byte
    <3> QED BY ElementOfSeq
  <2> QED BY <2>1
<1> HIDE DEF Byte
<1>2. /\ plain \in Seq(Seq(Byte)) /\ Len(plain) = n
      /\ \A i \in 1..n : plain[i] = IF chunks[i] = BOM THEN <<>> ELSE chunks[i]
  <2> DEFINE U == Seq(Byte)
  <2>1. \A i \in 1..n : (IF chunks[i] = BOM THEN <<>> ELSE chunks[i]) \in U
    BY <1>1, EmptySeq
  <2> HIDE DEF U
  <2>2. plain \in [1..n -> U]
    BY <1>1, <2>1
  <2>3. plain \in Seq(U) /\ Len(plain) = n
    BY <1>1, <2>2
  <2> QED BY <1>1, <2>3 DEF U
<1>3. TextOf(chunks) = FlattenSeq(plain)
  BY DEF TextOf
<1> HIDE DEF plain
<1>4. PICK front, behind : Cut(Byte, chunks, front, behind)
  BY Flattened
<1>5. PICK pf, pb : Cut(Byte, plain, pf, pb)
  BY <1>2, Flattened
<1>6. /\ \A k \in 0..n : front[k] \in Seq(Byte) /\ behind[k] \in Seq(Byte)
      /\ front[0] = <<>> /\ behind[n] = <<>>
      /\ \A k \in 1..n : /\ front[k] = front[k - 1] \o chunks[k]
                         /\ behind[k - 1] = chunks[k] \o behind[k]
      /\ \A k \in 0..n : front[k] \o behind[k] = s
  BY <1>4 DEF Cut
<1>7. /\ \A k \in 0..n : pf[k] \in Seq(Byte) /\ pb[k] \in Seq(Byte)
      /\ pf[0] = <<>> /\ pb[n] = <<>>
      /\ \A k \in 1..n : pb[k - 1] = plain[k] \o pb[k]
      /\ \A k \in 0..n : pf[k] \o pb[k] = FlattenSeq(plain)
  BY <1>2, <1>5 DEF Cut
<1>8. s \in Seq(Byte)
  <2>1. 0 \in 0..n
    BY <1>1
  <2>2. front[0] \in Seq(Byte) /\ behind[0] \in Seq(Byte) /\ front[0] \o behind[0] = s
    BY <1>6, <2>1
  <2>3. front[0] \o behind[0] \in Seq(Byte)
    BY <2>2, Joined, Zenon
  <2> QED BY <2>2, <2>3
<1> HIDE DEF s
<1> DEFINE Pos(k) == Len(front[k])
           T == {k \in 0..n : /\ text[Pos(k)] = pb[k]
                              /\ marks[Pos(k)] = TrailingBehind(chunks, k)
                              /\ (pb[k] = <<>> <=> \A i \in (k + 1)..n : chunks[i] = BOM)}
<1>9. Strips(s, text, marks)
  BY DEF s
<1>10. n \in T
  <2>1. n \in 0..n /\ (n + 1)..n = {}
    BY <1>1
  <2>2. Pos(n) = Len(s)
    <3>1. front[n] \in Seq(Byte) /\ front[n] \o <<>> = s
      BY <1>6, <2>1
    <3>2. front[n] \o <<>> = front[n]
      BY <3>1, ConcatEmptySeq, Zenon
    <3> QED BY <3>1, <3>2
  <2>3. text[Len(s)] = <<>> /\ marks[Len(s)] = 0
    BY <1>9 DEF Strips
  <2>4. TrailingBehind(chunks, n) = 0
    <3>1. {m \in (n + 1)..n : \A i \in m..n : chunks[i] = BOM} = {}
      BY <2>1
    <3> QED BY <3>1, FS_EmptySet DEF TrailingBehind
  <2> QED BY <1>7, <2>1, <2>2, <2>3, <2>4
<1>11. ASSUME NEW k \in 1..n, k \in T PROVE k - 1 \in T
  <2> DEFINE c == chunks[k]
             f == front[k - 1]
             b == behind[k]
             a == Len(f)
  <2>1. /\ k \in 0..n /\ k - 1 \in 0..n /\ (k - 1) + 1 = k /\ k \in DOMAIN chunks
        /\ \A P : (\A i \in k..n : P[i] = BOM) <=> P[k] = BOM /\ \A i \in (k + 1)..n : P[i] = BOM
    BY <1>1
  <2>2. /\ c \in Seq(Byte) /\ f \in Seq(Byte) /\ b \in Seq(Byte)
        /\ front[k] = f \o c /\ s = f \o (c \o b)
    BY <1>1, <1>6, <2>1
  <2>3. /\ text[Pos(k)] = pb[k] /\ marks[Pos(k)] = TrailingBehind(chunks, k)
        /\ (pb[k] = <<>> <=> \A i \in (k + 1)..n : chunks[i] = BOM)
    BY <1>11
  <2>4. Pos(k - 1) = a /\ a \in Nat /\ Len(b) \in Nat /\ Len(c) \in Nat
    BY <2>2
  <2>5. Pos(k) = a + Len(c)
    <3>1. Len(f \o c) = Len(f) + Len(c)
      BY <2>2, Joined, Zenon
    <3> QED BY <2>2, <3>1
  <2>6. /\ TrailingBehind(chunks, k) \in Nat
        /\ TrailingBehind(chunks, k - 1) = TrailingBehind(chunks, k)
               + IF \A i \in k..n : chunks[i] = BOM THEN 1 ELSE 0
    BY OneMoreMarker
  <2>7. pb[k - 1] = plain[k] \o pb[k] /\ pb[k] \in Seq(Byte)
        /\ plain[k] = IF c = BOM THEN <<>> ELSE c
    BY <1>2, <1>7, <2>1
  <2>8. Len(s) = a + (Len(c) + Len(b))
    <3>1. c \o b \in Seq(Byte) /\ Len(c \o b) = Len(c) + Len(b)
      BY <2>2, Joined, Zenon
    <3>2. Len(f \o (c \o b)) = Len(f) + Len(c \o b)
      BY <2>2, <3>1, Joined, Zenon
    <3> QED BY <2>2, <3>1, <3>2
  <2> HIDE DEF T, c, f, b, a, Pos
  <2>9. CASE c = BOM
    <3>1. Len(c) = 3 /\ IsPrefix(BOM, BOM \o b)
      BY <2>2, <2>9, MarkerInFront
    <3>2. From(s, a) = c \o b
      <4>1. c \o b \in Seq(Byte)
        BY <2>2, Joined, Zenon
      <4>2. From(f \o (c \o b), Len(f)) = c \o b
        BY <2>2, <4>1, TakenApart, Zenon
      <4> QED BY <2>2, <4>2 DEF a
    <3>3. AtBOM(s, a)
      BY <2>9, <3>1, <3>2 DEF AtBOM
    <3>4. a \in 0..(Len(s) - 1)
      BY <2>4, <2>8, <3>1
    <3>5. /\ text[a] = text[a + 3]
          /\ marks[a] = marks[a + 3] + (IF text[a + 3] = <<>> THEN 1 ELSE 0)
      BY <1>9, <3>3, <3>4 DEF Strips
    <3>6. text[a] = pb[k] /\ marks[a] = TrailingBehind(chunks, k) + (IF pb[k] = <<>> THEN 1 ELSE 0)
      BY <2>3, <2>5, <3>1, <3>5
    <3>7. pb[k - 1] = pb[k]
      <4>1. <<>> \o pb[k] = pb[k]
        BY <2>7, ConcatEmptySeq, Zenon
      <4> QED BY <2>7, <2>9, <4>1
    <3>8. (\A i \in k..n : chunks[i] = BOM) <=> \A i \in (k + 1)..n : chunks[i] = BOM
      BY <2>1, <2>9 DEF c
    <3>9. text[Pos(k - 1)] = pb[k - 1]
      BY <2>4, <3>6, <3>7
    <3>10. marks[Pos(k - 1)] = TrailingBehind(chunks, k - 1)
      BY <2>3, <2>4, <2>6, <3>6, <3>8
    <3>11. pb[k - 1] = <<>> <=> \A i \in ((k - 1) + 1)..n : chunks[i] = BOM
      BY <2>1, <2>3, <3>7, <3>8
    <3> QED BY <2>1, <3>9, <3>10, <3>11 DEF T
  <2>10. CASE c # BOM
    <3>1. Unmarked(c)
      BY <2>1, <2>10 DEF c
    <3>2. text[a] = c \o text[a + Len(c)] /\ marks[a] = marks[a + Len(c)]
      <4>1. /\ text[Len(f)] = c \o text[Len(f) + Len(c)]
            /\ marks[Len(f)] = marks[Len(f) + Len(c)]
        <5>1. Strips(f \o (c \o b), text, marks)
          BY <1>9, <2>2
        <5>2. f \in Seq(Byte) /\ c \in Seq(Byte) /\ b \in Seq(Byte)
          BY <2>2
        <5>3. Passes(text, marks, f, c)
          BY <3>1, <5>1, <5>2, TextPasses, Zenon
        <5> QED BY <5>3, Zenon DEF Passes
      <4> QED BY <4>1 DEF a
    <3>3. ~\A i \in k..n : chunks[i] = BOM
      BY <2>1, <2>10 DEF c
    <3>4. pb[k - 1] = c \o pb[k]
      BY <2>7, <2>10
    <3>5. pb[k - 1] # <<>>
      <4>1. Len(c) # 0
        <5>1. c # <<>>
          BY <3>1 DEF Unmarked
        <5> QED BY <2>2, <5>1, EmptySeq
      <4>2. Len(c \o pb[k]) = Len(c) + Len(pb[k]) /\ Len(pb[k]) \in Nat
        BY <2>2, <2>7, Joined
      <4>3. Len(pb[k - 1]) # 0
        BY <2>4, <3>4, <4>1, <4>2
      <4> QED BY <4>3
    <3>6. text[Pos(k - 1)] = pb[k - 1] /\ marks[Pos(k - 1)] = TrailingBehind(chunks, k - 1)
      <4>1. TrailingBehind(chunks, k - 1) = TrailingBehind(chunks, k)
        BY <2>6, <3>3
      <4>2. text[a + Len(c)] = pb[k] /\ marks[a + Len(c)] = TrailingBehind(chunks, k)
        BY <2>3, <2>5
      <4> QED BY <2>4, <3>2, <3>4, <4>1, <4>2
    <3>7. pb[k - 1] = <<>> <=> \A i \in ((k - 1) + 1)..n : chunks[i] = BOM
      BY <2>1, <3>3, <3>5
    <3> QED BY <2>1, <3>6, <3>7 DEF T
  <2> QED BY <2>9, <2>10
<1>12. 0 \in T
  <2>1. n \in Nat /\ n \in T /\ \A k \in 1..n : k \in T => k - 1 \in T
    BY <1>1, <1>10, <1>11
  <2> HIDE DEF T, n
  <2>2. 0..n \subseteq T
    BY <2>1, Downwards
  <2> QED BY <2>1, <2>2
<1>13. text[0] = pb[0] /\ marks[0] = TrailingBehind(chunks, 0)
  <2>1. Pos(0) = 0
    BY <1>6
  <2> QED BY <1>12, <2>1
<1>14. pb[0] = TextOf(chunks)
  <2>1. 0 \in 0..n
    BY <1>1
  <2>2. pb[0] \in Seq(Byte) /\ <<>> \o pb[0] = FlattenSeq(plain)
    BY <1>7, <2>1
  <2>3. <<>> \o pb[0] = pb[0]
    BY <2>2, ConcatEmptySeq, Zenon
  <2> QED BY <1>3, <2>2, <2>3
<1>15. TrailingBehind(chunks, 0) = Trailing(chunks)
  BY <1>1 DEF TrailingBehind, Trailing
<1> QED
  BY <1>8, <1>13, <1>14, <1>15 DEF s

-----------------------------------------------------------------------------
(* What is put together of sequences over a set is one over it.            *)
LEMMA FlattenedIn ==
    ASSUME NEW S, NEW s \in Seq(Seq(S))
    PROVE  FlattenSeq(s) \in Seq(S)
<1>1. PICK front, behind : Cut(S, s, front, behind)
  BY Flattened
<1>2. 0 \in 0..Len(s)
  OBVIOUS
<1>3. front[0] \in Seq(S) /\ behind[0] \in Seq(S) /\ front[0] \o behind[0] = FlattenSeq(s)
  BY <1>1, <1>2, Zenon DEF Cut
<1>4. front[0] \o behind[0] \in Seq(S)
  BY <1>3, Joined, Zenon
<1> QED
  BY <1>3, <1>4

(* Strings that are put together compare as what they are put together of. *)
LEMMA ChunksInOrder ==
    ASSUME NEW l \in Seq(Seq(Byte)), NEW r \in Seq(Seq(Byte)),
           \A i \in DOMAIN l : l[i] = BOM \/ Unmarked(l[i]),
           \A i \in DOMAIN r : r[i] = BOM \/ Unmarked(r[i])
    PROVE  CompareBytes(FlattenSeq(l), FlattenSeq(r)) = OrderOf(l, r)
<1>1. FlattenSeq(l) \in Seq(Byte) /\ FlattenSeq(r) \in Seq(Byte)
  BY FlattenedIn
<1>2. PICK tl, ml : Strips(FlattenSeq(l), tl, ml)
  BY <1>1, Stripped
<1>3. PICK tr, mr : Strips(FlattenSeq(r), tr, mr)
  BY <1>1, Stripped
<1>4. tl[0] = TextOf(l) /\ ml[0] = Trailing(l)
  BY <1>2, TextOfChunks
<1>5. tr[0] = TextOf(r) /\ mr[0] = Trailing(r)
  BY <1>3, TextOfChunks
<1>6. CompareBytes(FlattenSeq(l), FlattenSeq(r)) = ByText(tl[0], tr[0], ml[0], mr[0])
  BY <1>1, <1>2, <1>3, ComparedByText
<1> QED
  BY <1>4, <1>5, <1>6 DEF ByText, OrderOf

(* A null pointer is less than any other.                                  *)
NullsCompared(left, right) ==
    /\ left = {} /\ right = {} => Compare(left, right) = 0
    /\ left = {} /\ right # {} => Compare(left, right) = -1
    /\ left # {} /\ right = {} => Compare(left, right) = 1

(* A null pointer compares as less than any string.                        *)
LEMMA NullPointers ==
    ASSUME NEW left, NEW right
    PROVE  NullsCompared(left, right)
<1>1. CASE left = {} /\ right = {}
  <2>1. Compare({}, {}) = 0
    BY DEF Compare, NullsFirst
  <2> QED BY <1>1, <2>1, Zenon DEF NullsCompared
<1>2. CASE left = {} /\ right # {}
  BY <1>2 DEF Compare, NullsFirst, NullsCompared
<1>3. CASE left # {} /\ right = {}
  BY <1>3 DEF Compare, NullsFirst, NullsCompared
<1>4. CASE left # {} /\ right # {}
  BY <1>4, Zenon DEF NullsCompared
<1> QED
  BY <1>1, <1>2, <1>3, <1>4

-----------------------------------------------------------------------------
(* Converting from one encoding to another.  Convert, with its loop begun, *)
(* gone on with for a turn, and ended.                                     *)
Began(source) ==
    [rest |-> source, target |-> <<>>, result |-> "conversionOK", stopped |-> FALSE]

WentOn(c, t) ==
    IF c.stopped \/ c.rest = <<>> THEN c
    ELSE [rest    |-> SubSeq(c.rest, t.used + 1, Len(c.rest)),
          target  |-> c.target \o t.written,
          result  |-> IF t.result = "conversionOK" THEN c.result ELSE t.result,
          stopped |-> t.used = 0]

Ended(c) == [result |-> c.result, target |-> c.target]

(* Two runs of a loop end the same if they go on from the same as the same.*)
Follows(f, g, N) == f[0] = g[0] /\ \A n \in 1..N : f[n - 1] = g[n - 1] => f[n] = g[n]

(* They end the same.                                                      *)
LEMMA SameEnd ==
    ASSUME NEW N \in Nat, NEW f, NEW g, Follows(f, g, N)
    PROVE  f[N] = g[N]
<1> USE DEF Follows
<1> DEFINE T == {n \in 0..N : f[n] = g[n]}
<1>1. 0 \in T
  OBVIOUS
<1>2. \A n \in 1..N : n - 1 \in T => n \in T
  OBVIOUS
<1>3. 0..N \subseteq T
  <2> HIDE DEF T
  <2> QED BY <1>1, <1>2, Upwards
<1> QED
  BY <1>3

(* The turns of the six conversions.                                       *)
TurnUTF16toUTF8(c, size) ==
    ReadUTF16(c.rest, LAMBDA used, ch : WriteUTF8(used, ch, size - Len(c.target)))

TurnUTF32toUTF8(c, size) ==
    IF c.rest[1] <= UNI_MAX_LEGAL_UTF32 THEN WriteUTF8(1, c.rest[1], size - Len(c.target))
    ELSE IF size - Len(c.target) < 3 THEN Stop("targetExhausted")
    ELSE [Turn(1, ToUTF8(UNI_REPLACEMENT_CHAR)) EXCEPT !.result = "sourceIllegal"]

TurnUTF8toUTF16(c, size) ==
    ReadUTF8(c.rest, LAMBDA used, ch : WriteUTF16(used, ch, size - Len(c.target)))

TurnUTF32toUTF16(c, size) == WriteUTF16(1, c.rest[1], size - Len(c.target))

Write8to32(used, ch, room) ==
    IF room < 1 THEN Stop("targetExhausted")
    ELSE IF ch > UNI_MAX_LEGAL_UTF32
      THEN [Turn(used, <<UNI_REPLACEMENT_CHAR>>) EXCEPT !.result = "sourceIllegal"]
    ELSE Turn(used, <<IF ch \in Surrogates THEN UNI_REPLACEMENT_CHAR ELSE ch>>)

TurnUTF8toUTF32(c, size) ==
    ReadUTF8(c.rest, LAMBDA used, ch : Write8to32(used, ch, size - Len(c.target)))

Write16to32(used, ch, room) ==
    IF room < 1 THEN Stop("targetExhausted") ELSE Turn(used, <<ch>>)

TurnUTF16toUTF32(c, size) ==
    ReadUTF16(c.rest, LAMBDA used, ch : Write16to32(used, ch, size - Len(c.target)))

(* A run of N turns that makes what the conversion makes.                  *)
IsRun(g, N, source) == g = [n \in 0..N |-> g[n]] /\ g[0] = Began(source)

(* ConvertUTF16toUTF8.                                                  *)
LEMMA RunOfUTF16toUTF8 ==
    ASSUME NEW source, NEW size, NEW g, NEW N \in Nat, Len(source) = N, IsRun(g, N, source),
           \A n \in 1..N : g[n] = WentOn(g[n - 1], TurnUTF16toUTF8(g[n - 1], size))
    PROVE  ConvertUTF16toUTF8(source, size) = Ended(g[N])
<1> DEFINE f == CHOOSE f : f = [n \in 0..N |->
                    IF n = 0 THEN Began(source)
                    ELSE WentOn(f[n - 1], TurnUTF16toUTF8(f[n - 1], size))]
<1>1. g = [n \in 0..N |-> IF n = 0 THEN Began(source)
                    ELSE WentOn(g[n - 1], TurnUTF16toUTF8(g[n - 1], size))]
  BY DEF IsRun
<1>2. f = [n \in 0..N |-> IF n = 0 THEN Began(source)
                    ELSE WentOn(f[n - 1], TurnUTF16toUTF8(f[n - 1], size))]
  BY <1>1, Zenon
<1>3. ConvertUTF16toUTF8(source, size) = Ended(f[N])
  BY Zenon DEF ConvertUTF16toUTF8, Convert, Began, WentOn, TurnUTF16toUTF8, Ended
<1> HIDE DEF f
<1>4. f[0] = g[0]
  BY <1>2 DEF IsRun
<1>5. ASSUME NEW n \in 1..N, f[n - 1] = g[n - 1] PROVE f[n] = g[n]
  <2>1. n \in 0..N /\ n # 0
    OBVIOUS
  <2>2. f[n] = WentOn(f[n - 1], TurnUTF16toUTF8(f[n - 1], size))
    BY <1>2, <2>1, Zenon
  <2> QED BY <1>5, <2>2, Zenon
<1>6. Follows(f, g, N)
  BY <1>4, <1>5, Zenon DEF Follows
<1>7. f[N] = g[N]
  BY <1>6, SameEnd, Zenon
<1> QED
  BY <1>3, <1>7

(* ConvertUTF32toUTF8.                                                  *)
LEMMA RunOfUTF32toUTF8 ==
    ASSUME NEW source, NEW size, NEW g, NEW N \in Nat, Len(source) = N, IsRun(g, N, source),
           \A n \in 1..N : g[n] = WentOn(g[n - 1], TurnUTF32toUTF8(g[n - 1], size))
    PROVE  ConvertUTF32toUTF8(source, size) = Ended(g[N])
<1> DEFINE f == CHOOSE f : f = [n \in 0..N |->
                    IF n = 0 THEN Began(source)
                    ELSE WentOn(f[n - 1], TurnUTF32toUTF8(f[n - 1], size))]
<1>1. g = [n \in 0..N |-> IF n = 0 THEN Began(source)
                    ELSE WentOn(g[n - 1], TurnUTF32toUTF8(g[n - 1], size))]
  BY DEF IsRun
<1>2. f = [n \in 0..N |-> IF n = 0 THEN Began(source)
                    ELSE WentOn(f[n - 1], TurnUTF32toUTF8(f[n - 1], size))]
  BY <1>1, Zenon
<1>3. ConvertUTF32toUTF8(source, size) = Ended(f[N])
  BY Zenon DEF ConvertUTF32toUTF8, Convert, Began, WentOn, TurnUTF32toUTF8, Ended
<1> HIDE DEF f
<1>4. f[0] = g[0]
  BY <1>2 DEF IsRun
<1>5. ASSUME NEW n \in 1..N, f[n - 1] = g[n - 1] PROVE f[n] = g[n]
  <2>1. n \in 0..N /\ n # 0
    OBVIOUS
  <2>2. f[n] = WentOn(f[n - 1], TurnUTF32toUTF8(f[n - 1], size))
    BY <1>2, <2>1, Zenon
  <2> QED BY <1>5, <2>2, Zenon
<1>6. Follows(f, g, N)
  BY <1>4, <1>5, Zenon DEF Follows
<1>7. f[N] = g[N]
  BY <1>6, SameEnd, Zenon
<1> QED
  BY <1>3, <1>7

(* ConvertUTF8toUTF16.                                                  *)
LEMMA RunOfUTF8toUTF16 ==
    ASSUME NEW source, NEW size, NEW g, NEW N \in Nat, Len(source) = N, IsRun(g, N, source),
           \A n \in 1..N : g[n] = WentOn(g[n - 1], TurnUTF8toUTF16(g[n - 1], size))
    PROVE  ConvertUTF8toUTF16(source, size) = Ended(g[N])
<1> DEFINE f == CHOOSE f : f = [n \in 0..N |->
                    IF n = 0 THEN Began(source)
                    ELSE WentOn(f[n - 1], TurnUTF8toUTF16(f[n - 1], size))]
<1>1. g = [n \in 0..N |-> IF n = 0 THEN Began(source)
                    ELSE WentOn(g[n - 1], TurnUTF8toUTF16(g[n - 1], size))]
  BY DEF IsRun
<1>2. f = [n \in 0..N |-> IF n = 0 THEN Began(source)
                    ELSE WentOn(f[n - 1], TurnUTF8toUTF16(f[n - 1], size))]
  BY <1>1, Zenon
<1>3. ConvertUTF8toUTF16(source, size) = Ended(f[N])
  BY Zenon DEF ConvertUTF8toUTF16, Convert, Began, WentOn, TurnUTF8toUTF16, Ended
<1> HIDE DEF f
<1>4. f[0] = g[0]
  BY <1>2 DEF IsRun
<1>5. ASSUME NEW n \in 1..N, f[n - 1] = g[n - 1] PROVE f[n] = g[n]
  <2>1. n \in 0..N /\ n # 0
    OBVIOUS
  <2>2. f[n] = WentOn(f[n - 1], TurnUTF8toUTF16(f[n - 1], size))
    BY <1>2, <2>1, Zenon
  <2> QED BY <1>5, <2>2, Zenon
<1>6. Follows(f, g, N)
  BY <1>4, <1>5, Zenon DEF Follows
<1>7. f[N] = g[N]
  BY <1>6, SameEnd, Zenon
<1> QED
  BY <1>3, <1>7

(* ConvertUTF32toUTF16.                                                 *)
LEMMA RunOfUTF32toUTF16 ==
    ASSUME NEW source, NEW size, NEW g, NEW N \in Nat, Len(source) = N, IsRun(g, N, source),
           \A n \in 1..N : g[n] = WentOn(g[n - 1], TurnUTF32toUTF16(g[n - 1], size))
    PROVE  ConvertUTF32toUTF16(source, size) = Ended(g[N])
<1> DEFINE f == CHOOSE f : f = [n \in 0..N |->
                    IF n = 0 THEN Began(source)
                    ELSE WentOn(f[n - 1], TurnUTF32toUTF16(f[n - 1], size))]
<1>1. g = [n \in 0..N |-> IF n = 0 THEN Began(source)
                    ELSE WentOn(g[n - 1], TurnUTF32toUTF16(g[n - 1], size))]
  BY DEF IsRun
<1>2. f = [n \in 0..N |-> IF n = 0 THEN Began(source)
                    ELSE WentOn(f[n - 1], TurnUTF32toUTF16(f[n - 1], size))]
  BY <1>1, Zenon
<1>3. ConvertUTF32toUTF16(source, size) = Ended(f[N])
  BY Zenon DEF ConvertUTF32toUTF16, Convert, Began, WentOn, TurnUTF32toUTF16, Ended
<1> HIDE DEF f
<1>4. f[0] = g[0]
  BY <1>2 DEF IsRun
<1>5. ASSUME NEW n \in 1..N, f[n - 1] = g[n - 1] PROVE f[n] = g[n]
  <2>1. n \in 0..N /\ n # 0
    OBVIOUS
  <2>2. f[n] = WentOn(f[n - 1], TurnUTF32toUTF16(f[n - 1], size))
    BY <1>2, <2>1, Zenon
  <2> QED BY <1>5, <2>2, Zenon
<1>6. Follows(f, g, N)
  BY <1>4, <1>5, Zenon DEF Follows
<1>7. f[N] = g[N]
  BY <1>6, SameEnd, Zenon
<1> QED
  BY <1>3, <1>7

(* ConvertUTF8toUTF32.                                                  *)
LEMMA RunOfUTF8toUTF32 ==
    ASSUME NEW source, NEW size, NEW g, NEW N \in Nat, Len(source) = N, IsRun(g, N, source),
           \A n \in 1..N : g[n] = WentOn(g[n - 1], TurnUTF8toUTF32(g[n - 1], size))
    PROVE  ConvertUTF8toUTF32(source, size) = Ended(g[N])
<1> DEFINE f == CHOOSE f : f = [n \in 0..N |->
                    IF n = 0 THEN Began(source)
                    ELSE WentOn(f[n - 1], TurnUTF8toUTF32(f[n - 1], size))]
<1>1. g = [n \in 0..N |-> IF n = 0 THEN Began(source)
                    ELSE WentOn(g[n - 1], TurnUTF8toUTF32(g[n - 1], size))]
  BY DEF IsRun
<1>2. f = [n \in 0..N |-> IF n = 0 THEN Began(source)
                    ELSE WentOn(f[n - 1], TurnUTF8toUTF32(f[n - 1], size))]
  BY <1>1, Zenon
<1>3. ConvertUTF8toUTF32(source, size) = Ended(f[N])
  BY Zenon DEF ConvertUTF8toUTF32, Convert, Began, WentOn, TurnUTF8toUTF32, Ended, Write8to32
<1> HIDE DEF f
<1>4. f[0] = g[0]
  BY <1>2 DEF IsRun
<1>5. ASSUME NEW n \in 1..N, f[n - 1] = g[n - 1] PROVE f[n] = g[n]
  <2>1. n \in 0..N /\ n # 0
    OBVIOUS
  <2>2. f[n] = WentOn(f[n - 1], TurnUTF8toUTF32(f[n - 1], size))
    BY <1>2, <2>1, Zenon
  <2> QED BY <1>5, <2>2, Zenon
<1>6. Follows(f, g, N)
  BY <1>4, <1>5, Zenon DEF Follows
<1>7. f[N] = g[N]
  BY <1>6, SameEnd, Zenon
<1> QED
  BY <1>3, <1>7

(* ConvertUTF16toUTF32.                                                 *)
LEMMA RunOfUTF16toUTF32 ==
    ASSUME NEW source, NEW size, NEW g, NEW N \in Nat, Len(source) = N, IsRun(g, N, source),
           \A n \in 1..N : g[n] = WentOn(g[n - 1], TurnUTF16toUTF32(g[n - 1], size))
    PROVE  ConvertUTF16toUTF32(source, size) = Ended(g[N])
<1> DEFINE f == CHOOSE f : f = [n \in 0..N |->
                    IF n = 0 THEN Began(source)
                    ELSE WentOn(f[n - 1], TurnUTF16toUTF32(f[n - 1], size))]
<1>1. g = [n \in 0..N |-> IF n = 0 THEN Began(source)
                    ELSE WentOn(g[n - 1], TurnUTF16toUTF32(g[n - 1], size))]
  BY DEF IsRun
<1>2. f = [n \in 0..N |-> IF n = 0 THEN Began(source)
                    ELSE WentOn(f[n - 1], TurnUTF16toUTF32(f[n - 1], size))]
  BY <1>1, Zenon
<1>3. ConvertUTF16toUTF32(source, size) = Ended(f[N])
  BY Zenon DEF ConvertUTF16toUTF32, Convert, Began, WentOn, TurnUTF16toUTF32, Ended, Write16to32
<1> HIDE DEF f
<1>4. f[0] = g[0]
  BY <1>2 DEF IsRun
<1>5. ASSUME NEW n \in 1..N, f[n - 1] = g[n - 1] PROVE f[n] = g[n]
  <2>1. n \in 0..N /\ n # 0
    OBVIOUS
  <2>2. f[n] = WentOn(f[n - 1], TurnUTF16toUTF32(f[n - 1], size))
    BY <1>2, <2>1, Zenon
  <2> QED BY <1>5, <2>2, Zenon
<1>6. Follows(f, g, N)
  BY <1>4, <1>5, Zenon DEF Follows
<1>7. f[N] = g[N]
  BY <1>6, SameEnd, Zenon
<1> QED
  BY <1>3, <1>7

-----------------------------------------------------------------------------
(* A text in pieces, A in the encoding it is in and B in the other.  Each  *)
(* turn converts the piece it finds in front, or stops for want of room.   *)
Pieces(A, B) ==
    /\ A \in Seq(Seq(Nat)) /\ B \in Seq(Seq(Nat)) /\ Len(A) = Len(B)
    /\ \A k \in 1..Len(A) : A[k] # <<>>

IsTurn(t, c, A, B, size) ==
    \A k \in 1..Len(A), more \in Seq(Nat) :
        c.rest = A[k] \o more /\ Len(c.target) \in Nat =>
        t = IF size - Len(c.target) < Len(B[k]) THEN Stop("targetExhausted")
            ELSE Turn(Len(A[k]), B[k])

(* Which ends with the whole text, or without room for it.                 *)
IsWhole(c, text, size) ==
    IF Len(text) <= size THEN c = [result |-> "conversionOK", target |-> text]
    ELSE c.result = "targetExhausted"

PieceRun(g, A, B, size) ==
    /\ IsRun(g, Len(FlattenSeq(A)), FlattenSeq(A))
    /\ \A n \in 1..Len(FlattenSeq(A)) : \A t :
          IsTurn(t, g[n - 1], A, B, size) => g[n] = WentOn(g[n - 1], t)
    /\ IsWhole(Ended(g[Len(FlattenSeq(A))]), FlattenSeq(B), size)

(* The state of the loop between two pieces: before it has stopped, and    *)
(* after it has.                                                           *)
GoingOn(rest, target) ==
    [rest |-> rest, target |-> target, result |-> "conversionOK", stopped |-> FALSE]
OutOfRoom(rest, target) ==
    [rest |-> rest, target |-> target, result |-> "targetExhausted", stopped |-> TRUE]

(* What is left, and what is written so far.                               *)
LEMMA GoingOnWith ==
    ASSUME NEW rest, NEW target
    PROVE  GoingOn(rest, target).rest = rest /\ GoingOn(rest, target).target = target
BY DEF GoingOn

(* One turn between two pieces.                                            *)
LEMMA OnePiece ==
    ASSUME NEW piece \in Seq(Nat), NEW more \in Seq(Nat), piece # <<>>,
           NEW target \in Seq(Nat), NEW written \in Seq(Nat)
    PROVE  /\ WentOn(GoingOn(piece \o more, target), Turn(Len(piece), written))
                  = GoingOn(more, target \o written)
           /\ WentOn(GoingOn(piece \o more, target), Stop("targetExhausted"))
                  = OutOfRoom(piece \o more, target)
<1> DEFINE s == piece \o more
<1>1. s \in Seq(Nat) /\ Len(s) = Len(piece) + Len(more)
  BY Joined
<1>2. Len(piece) \in Nat /\ Len(more) \in Nat /\ Len(piece) # 0
  OBVIOUS
<1>3. s # <<>>
  <2>1. Len(s) # 0
    BY <1>1, <1>2
  <2> QED BY <2>1
<1>4. SubSeq(s, Len(piece) + 1, Len(s)) = more
  BY TakenApart, Zenon DEF From
<1>5. SubSeq(s, 0 + 1, Len(s)) = s
  <2>1. SubSeq(s, 1, Len(s)) = s
    BY <1>1
  <2> QED BY <2>1
<1>6. target \o <<>> = target
  OBVIOUS
<1> HIDE DEF s
<1>7. WentOn(GoingOn(s, target), Turn(Len(piece), written)) = GoingOn(more, target \o written)
  BY <1>2, <1>3, <1>4 DEF WentOn, GoingOn, Turn
<1>8. WentOn(GoingOn(s, target), Stop("targetExhausted")) = OutOfRoom(s, target)
  BY <1>3, <1>5, <1>6 DEF WentOn, GoingOn, OutOfRoom, Stop
<1> QED
  BY <1>7, <1>8 DEF s

(* No turn is taken any more.                                              *)
LEMMA NoMorePieces ==
    ASSUME NEW rest, NEW target, NEW t
    PROVE  /\ WentOn(GoingOn(<<>>, target), t) = GoingOn(<<>>, target)
           /\ WentOn(OutOfRoom(rest, target), t) = OutOfRoom(rest, target)
BY DEF WentOn, GoingOn, OutOfRoom

(* A loop that converts a piece at each turn converts the whole text.      *)
LEMMA PiecesConvert ==
    ASSUME NEW A, NEW B, Pieces(A, B), NEW size \in Nat
    PROVE  \E g : PieceRun(g, A, B, size)
<1> DEFINE s == FlattenSeq(A)
           r == FlattenSeq(B)
           N == Len(s)
           m == Len(A)
<1>1. /\ m \in Nat /\ Len(B) = m
      /\ \A k \in 1..m : A[k] \in Seq(Nat) /\ B[k] \in Seq(Nat) /\ A[k] # <<>>
  <2>1. \A k \in 1..Len(A) : A[k] \in Seq(Nat)
    BY ElementOfSeq DEF Pieces
  <2>2. \A k \in 1..Len(B) : B[k] \in Seq(Nat)
    BY ElementOfSeq DEF Pieces
  <2> QED BY <2>1, <2>2 DEF Pieces
<1>2. PICK fA, bA : Cut(Nat, A, fA, bA)
  BY Flattened DEF Pieces
<1>3. PICK fB, bB : Cut(Nat, B, fB, bB)
  BY Flattened DEF Pieces
<1>4. /\ \A k \in 0..m : fA[k] \in Seq(Nat) /\ bA[k] \in Seq(Nat) /\ fA[k] \o bA[k] = s
      /\ fA[0] = <<>> /\ bA[m] = <<>>
      /\ \A k \in 1..m : bA[k - 1] = A[k] \o bA[k] /\ fA[k] = fA[k - 1] \o A[k]
  BY <1>2 DEF Cut
<1>5. /\ \A k \in 0..m : fB[k] \in Seq(Nat) /\ bB[k] \in Seq(Nat) /\ fB[k] \o bB[k] = r
      /\ fB[0] = <<>> /\ bB[m] = <<>>
      /\ \A k \in 1..m : fB[k] = fB[k - 1] \o B[k]
  BY <1>1, <1>3 DEF Cut
<1>6. s \in Seq(Nat) /\ r \in Seq(Nat) /\ N \in Nat
  BY FlattenedIn DEF Pieces
<1>7. bA[0] = s /\ fB[m] = r
  <2>1. 0 \in 0..m /\ m \in 0..m
    BY <1>1
  <2>2. fA[0] \o bA[0] = s /\ bA[0] \in Seq(Nat)
    BY <1>4, <2>1
  <2>3. fB[m] \o <<>> = r /\ fB[m] \in Seq(Nat)
    BY <1>5, <2>1
  <2>4. fB[m] \o <<>> = fB[m]
    BY <2>3, ConcatEmptySeq, Zenon
  <2>5. <<>> \o bA[0] = bA[0]
    BY <2>2, ConcatEmptySeq, Zenon
  <2> QED BY <1>4, <2>2, <2>3, <2>4, <2>5
<1> HIDE DEF s, r
<1>8. m <= N
  <2> DEFINE T == {k \in 0..m : k <= Len(fA[k])}
  <2>1. 0 \in T
    <3>1. Len(fA[0]) = 0 /\ 0 \in 0..m
      BY <1>1, <1>4
    <3> QED BY <3>1
  <2>2. ASSUME NEW k \in 1..m, k - 1 \in T PROVE k \in T
    <3>0. k - 1 \in 0..m
      BY <1>1
    <3>1. /\ fA[k - 1] \in Seq(Nat) /\ A[k] \in Seq(Nat) /\ fA[k] = fA[k - 1] \o A[k]
          /\ A[k] # <<>>
      BY <1>1, <1>4, <3>0
    <3>2. Len(fA[k - 1] \o A[k]) = Len(fA[k - 1]) + Len(A[k])
      BY <3>1, Joined, Zenon
    <3>3. Len(A[k]) \in Nat /\ Len(A[k]) # 0
      BY <3>1
    <3>4. Len(fA[k]) >= Len(fA[k - 1]) + 1 /\ Len(fA[k - 1]) \in Nat
      BY <3>1, <3>2, <3>3
    <3> QED BY <1>1, <2>2, <3>4
  <2>3. m \in T
    <3>1. 0..m \subseteq T
      <4> HIDE DEF T
      <4> QED BY <1>1, <2>1, <2>2, Upwards
    <3> QED BY <1>1, <3>1
  <2>4. fA[m] = s
    <3>1. m \in 0..m
      BY <1>1
    <3>2. fA[m] \in Seq(Nat) /\ fA[m] \o <<>> = s
      BY <1>4, <3>1
    <3>3. fA[m] \o <<>> = fA[m]
      BY <3>2, ConcatEmptySeq, Zenon
    <3> QED BY <3>2, <3>3
  <2> QED BY <2>3, <2>4
<1>9. \A k \in 1..m : Len(fB[k - 1]) \in Nat /\ Len(B[k]) \in Nat /\ Len(fB[k]) = Len(fB[k - 1]) + Len(B[k])
  <2> TAKE k \in 1..m
  <2>0. k - 1 \in 0..m
    BY <1>1
  <2>1. fB[k - 1] \in Seq(Nat) /\ B[k] \in Seq(Nat) /\ fB[k] = fB[k - 1] \o B[k]
    BY <1>1, <1>5, <2>0
  <2>2. Len(fB[k - 1] \o B[k]) = Len(fB[k - 1]) + Len(B[k])
    BY <2>1, Joined, Zenon
  <2> QED BY <2>1, <2>2
<1>10. PICK q \in 0..m : /\ \A k \in 0..q : Len(fB[k]) <= size
                         /\ q # m => Len(fB[q + 1]) > size
  <2> DEFINE T == {k \in 0..m : Len(fB[k]) <= size}
             U == {k \in 0..m : \A i \in 0..k : Len(fB[i]) <= size}
  <2>1. \A k \in 0..m : Len(fB[k]) \in Nat
    BY <1>5
  <2>2. 0 \in U
    <3>1. Len(fB[0]) = 0 /\ 0 \in 0..m
      BY <1>1, <1>5
    <3> QED BY <3>1
  <2>3. CASE \A i \in 1..m : i - 1 \in U => i \in U
    <3>1. 0..m \subseteq U
      <4> HIDE DEF U
      <4> QED BY <1>1, <2>2, <2>3, Upwards
    <3>2. m \in U
      BY <1>1, <3>1
    <3> QED BY <1>1, <3>2
  <2>4. CASE ~\A i \in 1..m : i - 1 \in U => i \in U
    <3>1. PICK i \in 1..m : i - 1 \in U /\ i \notin U
      BY <2>4
    <3>2. i - 1 \in 0..m /\ \A k \in 0..(i - 1) : Len(fB[k]) <= size
      BY <3>1
    <3>3. Len(fB[i]) > size
      <4>1. PICK k \in 0..i : ~(Len(fB[k]) <= size)
        BY <1>1, <3>1
      <4>2. k = i
        BY <1>1, <3>2, <4>1
      <4>3. Len(fB[i]) \in Nat
        BY <1>1, <2>1
      <4> QED BY <4>1, <4>2, <4>3
    <3>4. (i - 1) + 1 = i
      OBVIOUS
    <3> QED BY <3>2, <3>3, <3>4
  <2> QED BY <2>3, <2>4
<1> DEFINE at(n) == IF n <= q THEN n ELSE q
           g == [n \in 0..N |-> IF n <= q \/ q = m THEN GoingOn(bA[at(n)], fB[at(n)])
                                ELSE OutOfRoom(bA[q], fB[q])]
<1>11. IsRun(g, N, s)
  <2>1. 0 \in 0..N /\ 0 <= q
    BY <1>6
  <2>2. g[0] = GoingOn(s, <<>>)
    BY <1>5, <1>7, <2>1
  <2>3. g = [n \in 0..N |-> g[n]]
    OBVIOUS
  <2> HIDE DEF g
  <2> QED BY <2>2, <2>3 DEF IsRun, Began, GoingOn
<1>12. ASSUME NEW n \in 1..N, NEW t, IsTurn(t, g[n - 1], A, B, size)
       PROVE  g[n] = WentOn(g[n - 1], t)
  <2>0. n - 1 \in 0..N /\ n \in 0..N /\ n \in Nat /\ n - 1 \in Nat
    BY <1>6
  <2>1. CASE n <= q
    <3>1. n \in 1..m /\ n - 1 <= q /\ n - 1 \in 0..m /\ n \in 0..m
      BY <2>0, <2>1, <1>1
    <3>2. g[n - 1] = GoingOn(bA[n - 1], fB[n - 1]) /\ g[n] = GoingOn(bA[n], fB[n])
      BY <2>0, <2>1, <3>1
    <3> HIDE DEF g
    <3>3. /\ A[n] \in Seq(Nat) /\ A[n] # <<>> /\ bA[n] \in Seq(Nat)
          /\ fB[n - 1] \in Seq(Nat) /\ B[n] \in Seq(Nat)
      BY <1>1, <1>4, <1>5, <3>1
    <3>4. bA[n - 1] = A[n] \o bA[n] /\ fB[n] = fB[n - 1] \o B[n]
      BY <1>4, <1>5, <3>1
    <3>5. g[n - 1].rest = A[n] \o bA[n] /\ g[n - 1].target = fB[n - 1]
      <4>1. /\ GoingOn(bA[n - 1], fB[n - 1]).rest = bA[n - 1]
            /\ GoingOn(bA[n - 1], fB[n - 1]).target = fB[n - 1]
        BY GoingOnWith, Zenon
      <4> QED BY <3>2, <3>4, <4>1
    <3>6. t = IF size - Len(fB[n - 1]) < Len(B[n]) THEN Stop("targetExhausted")
              ELSE Turn(Len(A[n]), B[n])
      <4>1. Len(fB[n - 1]) \in Nat
        BY <3>3
      <4> QED BY <1>12, <3>1, <3>3, <3>5, <4>1, Zenon DEF IsTurn
    <3>7. ~(size - Len(fB[n - 1]) < Len(B[n]))
      <4>1. Len(fB[n]) <= size
        BY <1>10, <2>0, <2>1
      <4>2. Len(fB[n]) = Len(fB[n - 1]) + Len(B[n]) /\ Len(fB[n - 1]) \in Nat /\ Len(B[n]) \in Nat
        BY <1>9, <3>1
      <4> HIDE DEF m
      <4> DEFINE x == Len(fB[n])
                 y == Len(fB[n - 1])
                 z == Len(B[n])
      <4>3. x <= size /\ x = y + z /\ y \in Nat /\ z \in Nat
        BY <4>1, <4>2
      <4> HIDE DEF x, y, z
      <4>4. ~(size - y < z)
        BY <4>3
      <4> QED BY <4>4 DEF y, z
    <3>8. t = Turn(Len(A[n]), B[n])
      BY <3>6, <3>7
    <3>9. WentOn(GoingOn(A[n] \o bA[n], fB[n - 1]), Turn(Len(A[n]), B[n]))
              = GoingOn(bA[n], fB[n - 1] \o B[n])
      BY <3>3, OnePiece
    <3> QED BY <3>2, <3>4, <3>8, <3>9
  <2>2. CASE n > q /\ q = m
    <3>1. g[n - 1] = GoingOn(<<>>, fB[m]) /\ g[n] = GoingOn(<<>>, fB[m])
      BY <1>4, <2>0, <2>2
    <3> HIDE DEF g
    <3> QED BY <3>1, NoMorePieces
  <2>3. CASE n = q + 1 /\ q # m
    <3>1. n \in 1..m /\ n - 1 = q /\ q \in 0..m /\ n \in 0..m /\ ~(n <= q) /\ q <= q
      BY <1>1, <2>3
    <3>2. g[n - 1] = GoingOn(bA[q], fB[q]) /\ g[n] = OutOfRoom(bA[q], fB[q])
      BY <2>0, <2>3, <3>1
    <3> HIDE DEF g
    <3>3. /\ A[n] \in Seq(Nat) /\ A[n] # <<>> /\ bA[n] \in Seq(Nat)
          /\ fB[q] \in Seq(Nat) /\ B[n] \in Seq(Nat)
      BY <1>1, <1>4, <1>5, <3>1
    <3>4. bA[q] = A[n] \o bA[n]
      BY <1>4, <3>1
    <3>5. g[n - 1].rest = A[n] \o bA[n] /\ g[n - 1].target = fB[q]
      <4>1. /\ GoingOn(bA[q], fB[q]).rest = bA[q]
            /\ GoingOn(bA[q], fB[q]).target = fB[q]
        BY GoingOnWith, Zenon
      <4> QED BY <3>2, <3>4, <4>1
    <3>6. t = IF size - Len(fB[q]) < Len(B[n]) THEN Stop("targetExhausted")
              ELSE Turn(Len(A[n]), B[n])
      <4>1. Len(fB[q]) \in Nat
        BY <3>3
      <4> QED BY <1>12, <3>1, <3>3, <3>5, <4>1, Zenon DEF IsTurn
    <3>7. size - Len(fB[q]) < Len(B[n])
      <4>1. Len(fB[q + 1]) > size
        BY <1>10, <2>3
      <4>2. Len(fB[n]) = Len(fB[q]) + Len(B[n]) /\ Len(fB[q]) \in Nat /\ Len(B[n]) \in Nat
        BY <1>9, <3>1
      <4> DEFINE x == Len(fB[n])
                 y == Len(fB[q])
                 z == Len(B[n])
      <4>3. x > size /\ x = y + z /\ y \in Nat /\ z \in Nat
        BY <2>3, <4>1, <4>2
      <4> HIDE DEF x, y, z
      <4>4. size - y < z
        BY <4>3
      <4> QED BY <4>4 DEF y, z
    <3>8. t = Stop("targetExhausted")
      BY <3>6, <3>7
    <3>9. WentOn(GoingOn(A[n] \o bA[n], fB[q]), Stop("targetExhausted"))
              = OutOfRoom(A[n] \o bA[n], fB[q])
      BY <3>3, OnePiece
    <3> QED BY <3>2, <3>4, <3>8, <3>9
  <2>4. CASE n > q + 1 /\ q # m
    <3>1. ~(n <= q) /\ ~(n - 1 <= q)
      BY <2>0, <2>4
    <3>2. g[n - 1] = OutOfRoom(bA[q], fB[q]) /\ g[n] = OutOfRoom(bA[q], fB[q])
      BY <2>0, <2>4, <3>1
    <3> HIDE DEF g
    <3> QED BY <3>2, NoMorePieces
  <2> QED BY <2>0, <2>1, <2>2, <2>3, <2>4
<1>13. IsWhole(Ended(g[N]), r, size)
  <2>0. N \in 0..N
    BY <1>6
  <2>1. CASE q = m
    <3>1. at(N) = m
      BY <1>1, <1>6, <1>8, <2>1
    <3>2. g[N] = GoingOn(<<>>, r)
      BY <1>4, <1>7, <2>0, <2>1, <3>1
    <3> HIDE DEF g
    <3>3. Len(r) <= size
      BY <1>1, <1>7, <1>10, <2>1
    <3>4. Ended(g[N]) = [result |-> "conversionOK", target |-> r]
      BY <3>2 DEF Ended, GoingOn
    <3> QED BY <3>3, <3>4 DEF IsWhole
  <2>2. CASE q # m
    <3>1. ~(N <= q) /\ q + 1 \in 1..m
      BY <1>1, <1>6, <1>8, <2>2
    <3>2. g[N] = OutOfRoom(bA[q], fB[q])
      BY <2>0, <2>2, <3>1
    <3> HIDE DEF g
    <3>3. Ended(g[N]).result = "targetExhausted"
      BY <3>2 DEF Ended, OutOfRoom
    <3>4. Len(r) > size
      <4>1. Len(fB[q + 1]) > size
        BY <1>10, <2>2
      <4>2. q + 1 \in 0..m
        BY <3>1
      <4>3. fB[q + 1] \in Seq(Nat) /\ bB[q + 1] \in Seq(Nat) /\ fB[q + 1] \o bB[q + 1] = r
        BY <1>5, <4>2
      <4>4. Len(fB[q + 1] \o bB[q + 1]) = Len(fB[q + 1]) + Len(bB[q + 1])
        BY <4>3, Joined, Zenon
      <4>5. Len(fB[q + 1]) \in Nat /\ Len(bB[q + 1]) \in Nat
        BY <4>3
      <4> DEFINE x == Len(fB[q + 1])
                 y == Len(bB[q + 1])
      <4>6. Len(r) = x + y /\ x > size /\ x \in Nat /\ y \in Nat
        BY <4>1, <4>3, <4>4, <4>5
      <4> HIDE DEF x, y
      <4> QED BY <4>6
    <3>5. ~(Len(r) <= size)
      BY <1>6, <3>4
    <3> QED BY <3>3, <3>5 DEF IsWhole
  <2> QED BY <2>1, <2>2
<1> HIDE DEF g, N
<1>14. \A n \in 1..N : \A t : IsTurn(t, g[n - 1], A, B, size) => g[n] = WentOn(g[n - 1], t)
  BY <1>12
<1>15. PieceRun(g, A, B, size)
  BY <1>11, <1>13, <1>14, Zenon DEF PieceRun, N, s, r
<1> QED
  BY <1>15

-----------------------------------------------------------------------------
(* A character in each encoding, and how long it is.                       *)
LEMMA EncodedCharacter ==
    ASSUME NEW c \in Nat, IsCharacter(c)
    PROVE  /\ <<c>> \in Seq(Nat) /\ <<c>> # <<>> /\ Len(<<c>>) = 1
           /\ ToUTF8(c) \in Seq(Nat) /\ ToUTF8(c) # <<>> /\ Len(ToUTF8(c)) = BytesToWrite(c)
           /\ ToUTF16(c) \in Seq(Nat) /\ ToUTF16(c) # <<>> /\ Len(ToUTF16(c)) \in 1..2
           /\ Len(ToUTF8(c)) \in 1..4 /\ Len(ToUTF16(c)) <= Len(ToUTF8(c))
<1>1. c <= 1114111
  BY DEF IsCharacter, UNI_MAX_LEGAL_UTF32
<1>2. ToUTF8(c) \in Seq(Nat) /\ Len(ToUTF8(c)) = BytesToWrite(c)
  <2> DEFINE b1 == 192 + c \div 64
             b2 == 224 + c \div 4096
             b3 == 240 + c \div 262144
             d1 == 128 + (c % 64)
             d2 == 128 + ((c \div 64) % 64)
             d3 == 128 + ((c \div 4096) % 64)
  <2>1. b1 \in Nat /\ b2 \in Nat /\ b3 \in Nat /\ d1 \in Nat /\ d2 \in Nat /\ d3 \in Nat
    BY SixBits
  <2>2. CASE c < 128
    <3>1. ToUTF8(c) = <<c>> /\ BytesToWrite(c) = 1
      BY <2>2, SMT DEF ToUTF8, BytesToWrite
    <3> QED BY <3>1
  <2>3. CASE 128 <= c /\ c < 2048
    <3>1. ToUTF8(c) = <<b1, d1>> /\ BytesToWrite(c) = 2
      BY <2>3, SMT DEF ToUTF8, BytesToWrite, UNI_MAX_BMP
    <3> HIDE DEF b1, d1
    <3>2. <<b1, d1>> \in Seq(Nat) /\ Len(<<b1, d1>>) = 2
      BY <2>1
    <3> QED BY <3>1, <3>2
  <2>4. CASE 2048 <= c /\ c <= 65535
    <3>1. ToUTF8(c) = <<b2, d2, d1>> /\ BytesToWrite(c) = 3
      BY <2>4, SMT DEF ToUTF8, BytesToWrite, UNI_MAX_BMP
    <3> HIDE DEF b2, d2, d1
    <3>2. <<b2, d2, d1>> \in Seq(Nat) /\ Len(<<b2, d2, d1>>) = 3
      BY <2>1
    <3> QED BY <3>1, <3>2
  <2>5. CASE 65535 < c
    <3>1. ToUTF8(c) = <<b3, d3, d2, d1>> /\ BytesToWrite(c) = 4
      BY <2>5, SMT DEF ToUTF8, BytesToWrite, UNI_MAX_BMP
    <3> HIDE DEF b3, d3, d2, d1
    <3>2. <<b3, d3, d2, d1>> \in Seq(Nat) /\ Len(<<b3, d3, d2, d1>>) = 4
      BY <2>1
    <3> QED BY <3>1, <3>2
  <2> QED BY <2>2, <2>3, <2>4, <2>5
<1>3. BytesToWrite(c) \in 1..4 /\ (c > 65535 => BytesToWrite(c) = 4)
  BY DEF BytesToWrite, UNI_MAX_BMP
<1>4. CASE c <= UNI_MAX_BMP
  <2>1. ToUTF16(c) = <<c>>
    BY <1>4 DEF ToUTF16
  <2> QED BY <1>2, <1>3, <2>1
<1>5. CASE ~(c <= UNI_MAX_BMP)
  <2>1. PICK high \in HighSurrogates, low \in LowSurrogates : ToUTF16(c) = <<high, low>>
    BY <1>5, UTF16RoundTrip
  <2>2. high \in Nat /\ low \in Nat
    BY DEF HighSurrogates, LowSurrogates
  <2>3. BytesToWrite(c) = 4
    BY <1>3, <1>5 DEF UNI_MAX_BMP
  <2> QED BY <1>2, <2>1, <2>2, <2>3
<1> QED
  BY <1>4, <1>5

(* A turn for a character: it is converted, unless there is no room.       *)
IfRoom(room, used, written) ==
    IF room < Len(written) THEN Stop("targetExhausted") ELSE Turn(used, written)

(* A character in UTF-8 is written if there is room for it.                *)
LEMMA WritesUTF8 ==
    ASSUME NEW c \in Nat, IsCharacter(c), NEW room, NEW used
    PROVE  WriteUTF8(used, c, room) = IfRoom(room, used, ToUTF8(c))
<1>1. Len(ToUTF8(c)) = BytesToWrite(c)
  BY EncodedCharacter
<1> QED
  BY <1>1, Zenon DEF WriteUTF8, IfRoom

(* In UTF-16 it is, too.                                                   *)
LEMMA WritesUTF16 ==
    ASSUME NEW c \in Nat, IsCharacter(c), NEW room \in Int, NEW used
    PROVE  WriteUTF16(used, c, room) = IfRoom(room, used, ToUTF16(c))
<1>1. c <= UNI_MAX_LEGAL_UTF32 /\ c \notin Surrogates
  BY DEF IsCharacter
<1>2. ~(c > UNI_MAX_LEGAL_UTF32)
  BY <1>1 DEF UNI_MAX_LEGAL_UTF32
<1>3. Len(ToUTF16(c)) \in 1..2
  BY EncodedCharacter
<1> DEFINE n == Len(ToUTF16(c))
<1>4. n \in 1..2
  BY <1>3
<1> HIDE DEF n
<1>5. room < 1 => room < n
  BY <1>4
<1> QED
  BY <1>1, <1>2, <1>5, Zenon DEF WriteUTF16, IfRoom, n

(* And in UTF-32, from either of the others.                               *)
LEMMA WritesUTF32 ==
    ASSUME NEW c \in Nat, IsCharacter(c), NEW room, NEW used
    PROVE  /\ Write8to32(used, c, room) = IfRoom(room, used, <<c>>)
           /\ Write16to32(used, c, room) = IfRoom(room, used, <<c>>)
<1>1. c <= UNI_MAX_LEGAL_UTF32 /\ c \notin Surrogates
  BY DEF IsCharacter
<1>2. ~(c > UNI_MAX_LEGAL_UTF32)
  BY <1>1 DEF UNI_MAX_LEGAL_UTF32
<1>3. Len(<<c>>) = 1
  OBVIOUS
<1> QED
  BY <1>1, <1>2, <1>3, Zenon DEF Write8to32, Write16to32, IfRoom

(* Reading a character in front of anything.                               *)
ReadsUTF8(s, c) ==
    /\ trailingBytesForUTF8(s[1]) + 1 = Len(ToUTF8(c))
    /\ ~(Len(ToUTF8(c)) > Len(s))
    /\ SubSeq(s, 1, Len(ToUTF8(c))) = ToUTF8(c)
    /\ isLegalUTF8(ToUTF8(c)) /\ FromUTF8(ToUTF8(c)) = c

(* A character in UTF-8 is read, whatever follows it.                      *)
LEMMA UTF8InFront ==
    ASSUME NEW c \in Nat, IsCharacter(c), NEW more \in Seq(Nat)
    PROVE  ReadsUTF8(ToUTF8(c) \o more, c)
<1> DEFINE e == ToUTF8(c)
           s == e \o more
<1>1. e \in Seq(Nat) /\ Len(e) \in 1..4
  BY EncodedCharacter
<1>2. /\ isLegalUTF8(e) /\ FromUTF8(e) = c
      /\ Len(e) = trailingBytesForUTF8(e[1]) + 1
  BY UTF8RoundTrip
<1> HIDE DEF e
<1>3. s \in Seq(Nat) /\ Len(s) = Len(e) + Len(more)
  BY <1>1, Joined
<1>4. s[1] = e[1]
  <2> DEFINE n == Len(e)
  <2>1. n \in 1..4
    BY <1>1
  <2>2. \A i \in 1..n : s[i] = e[i]
    BY <1>1, FirstOnes, Zenon
  <2> HIDE DEF n, s
  <2>3. 1 \in 1..n
    BY <2>1
  <2> QED BY <2>2, <2>3
<1>5. SubSeq(s, 1, Len(e)) = e
  BY <1>1, TakenApart, Zenon
<1>6. ~(Len(e) > Len(s))
  BY <1>1, <1>3
<1> HIDE DEF s
<1>7. ReadsUTF8(s, c)
  BY <1>2, <1>4, <1>5, <1>6, Zenon DEF ReadsUTF8, e
<1> QED
  BY <1>7 DEF s, e

ReadsUTF16(s, c) ==
    IF c <= UNI_MAX_BMP
    THEN s[1] = c /\ c \notin HighSurrogates /\ Len(ToUTF16(c)) = 1
    ELSE /\ s[1] \in HighSurrogates /\ Len(s) # 1 /\ s[2] \in LowSurrogates
         /\ FromPair(s[1], s[2]) = c /\ Len(ToUTF16(c)) = 2

(* And so it is in UTF-16.                                                 *)
LEMMA UTF16InFront ==
    ASSUME NEW c \in Nat, IsCharacter(c), NEW more \in Seq(Nat)
    PROVE  ReadsUTF16(ToUTF16(c) \o more, c)
<1> DEFINE e == ToUTF16(c)
           s == e \o more
<1>1. e \in Seq(Nat) /\ Len(e) \in 1..2
  BY EncodedCharacter
<1>2. IF c <= UNI_MAX_BMP
      THEN e = <<c>> /\ c \notin HighSurrogates
      ELSE \E high \in HighSurrogates, low \in LowSurrogates :
              e = <<high, low>> /\ FromPair(high, low) = c
  BY UTF16RoundTrip
<1> HIDE DEF e
<1>3. s \in Seq(Nat) /\ Len(s) = Len(e) + Len(more) /\ Len(more) \in Nat
  BY <1>1, Joined
<1>4. \A i \in 1..Len(e) : s[i] = e[i]
  BY <1>1, FirstOnes, Zenon
<1> HIDE DEF s
<1>5. CASE c <= UNI_MAX_BMP
  <2>1. e = <<c>> /\ c \notin HighSurrogates
    BY <1>2, <1>5
  <2>2. Len(e) = 1 /\ s[1] = c
    BY <1>4, <2>1
  <2> QED BY <1>5, <2>1, <2>2 DEF ReadsUTF16, e, s
<1>6. CASE ~(c <= UNI_MAX_BMP)
  <2>1. PICK high \in HighSurrogates, low \in LowSurrogates :
           e = <<high, low>> /\ FromPair(high, low) = c
    BY <1>2, <1>6
  <2>2. Len(e) = 2 /\ s[1] = high /\ s[2] = low
    BY <1>4, <2>1
  <2>3. Len(s) # 1
    BY <1>3, <2>2
  <2>4. ReadsUTF16(s, c)
    BY <1>6, <2>1, <2>2, <2>3, Zenon DEF ReadsUTF16, e
  <2> QED BY <2>4 DEF e, s
<1> QED
  BY <1>5, <1>6

-----------------------------------------------------------------------------
(* A text in each encoding, character by character.                        *)
IsText(text) == text \in Seq(Nat) /\ \A i \in DOMAIN text : IsCharacter(text[i])

InUTF8(text)  == [i \in DOMAIN text |-> ToUTF8(text[i])]
InUTF16(text) == [i \in DOMAIN text |-> ToUTF16(text[i])]
InUTF32(text) == [i \in DOMAIN text |-> <<text[i]>>]

(* The k-th character of a text, and its pieces in the three encodings.    *)
LEMMA CharacterOf ==
    ASSUME NEW text, IsText(text), NEW k \in 1..Len(text)
    PROVE  /\ text[k] \in Nat /\ IsCharacter(text[k]) /\ k \in DOMAIN text
           /\ InUTF8(text)[k] = ToUTF8(text[k]) /\ InUTF16(text)[k] = ToUTF16(text[k])
           /\ InUTF32(text)[k] = <<text[k]>>
BY DEF IsText, InUTF8, InUTF16, InUTF32

Encodes(A, text) ==
    A \in Seq(Seq(Nat)) /\ Len(A) = Len(text) /\ \A k \in 1..Len(A) : A[k] # <<>>

(* A text in each of the encodings, in pieces that are not empty.          *)
LEMMA EncodedText ==
    ASSUME NEW text, IsText(text)
    PROVE  Encodes(InUTF8(text), text) /\ Encodes(InUTF16(text), text) /\ Encodes(InUTF32(text), text)
<1> DEFINE U == Seq(Nat)
<1>1. Len(text) \in Nat /\ DOMAIN text = 1..Len(text)
  BY DEF IsText
<1>2. Encodes(InUTF8(text), text)
  <2> DEFINE A == InUTF8(text)
  <2>1. \A k \in 1..Len(text) : A[k] \in U /\ A[k] # <<>>
    <3> TAKE k \in 1..Len(text)
    <3>1. A[k] = ToUTF8(text[k]) /\ text[k] \in Nat /\ IsCharacter(text[k])
      BY CharacterOf
    <3> HIDE DEF A
    <3> QED BY <3>1, EncodedCharacter
  <2>2. A = [k \in 1..Len(text) |-> A[k]]
    BY <1>1 DEF InUTF8
  <2> HIDE DEF A, U
  <2>3. A \in Seq(U) /\ Len(A) = Len(text)
    BY <1>1, <2>1, <2>2
  <2> QED BY <2>1, <2>3 DEF Encodes, A, U
<1>3. Encodes(InUTF16(text), text)
  <2> DEFINE A == InUTF16(text)
  <2>1. \A k \in 1..Len(text) : A[k] \in U /\ A[k] # <<>>
    <3> TAKE k \in 1..Len(text)
    <3>1. A[k] = ToUTF16(text[k]) /\ text[k] \in Nat /\ IsCharacter(text[k])
      BY CharacterOf
    <3> HIDE DEF A
    <3> QED BY <3>1, EncodedCharacter
  <2>2. A = [k \in 1..Len(text) |-> A[k]]
    BY <1>1 DEF InUTF16
  <2> HIDE DEF A, U
  <2>3. A \in Seq(U) /\ Len(A) = Len(text)
    BY <1>1, <2>1, <2>2
  <2> QED BY <2>1, <2>3 DEF Encodes, A, U
<1>4. Encodes(InUTF32(text), text)
  <2> DEFINE A == InUTF32(text)
  <2>1. \A k \in 1..Len(text) : A[k] \in U /\ A[k] # <<>>
    <3> TAKE k \in 1..Len(text)
    <3>1. A[k] = <<text[k]>> /\ text[k] \in Nat /\ IsCharacter(text[k])
      BY CharacterOf
    <3> HIDE DEF A
    <3> QED BY <3>1, EncodedCharacter
  <2>2. A = [k \in 1..Len(text) |-> A[k]]
    BY <1>1 DEF InUTF32
  <2> HIDE DEF A, U
  <2>3. A \in Seq(U) /\ Len(A) = Len(text)
    BY <1>1, <2>1, <2>2
  <2> QED BY <2>1, <2>3 DEF Encodes, A, U
<1> QED
  BY <1>2, <1>3, <1>4

(* Any two of them are the pieces a loop goes through.                     *)
LEMMA PiecesOfText ==
    ASSUME NEW text, NEW A, NEW B, Encodes(A, text), Encodes(B, text)
    PROVE  Pieces(A, B)
BY DEF Encodes, Pieces

(* Each conversion takes a turn for each character, ...                    *)
LEMMA TurnsOfUTF16toUTF8 ==
    ASSUME NEW text, IsText(text), NEW state, NEW size \in Nat
    PROVE  IsTurn(TurnUTF16toUTF8(state, size), state, InUTF16(text), InUTF8(text), size)
<1> DEFINE A == InUTF16(text)
           B == InUTF8(text)
<1> SUFFICES ASSUME NEW k \in 1..Len(A), NEW more \in Seq(Nat),
                    state.rest = A[k] \o more, Len(state.target) \in Nat
             PROVE  TurnUTF16toUTF8(state, size) = IfRoom(size - Len(state.target), Len(A[k]), B[k])
  BY Zenon DEF IsTurn, IfRoom
<1>1. k \in 1..Len(text)
  BY EncodedText, Zenon DEF Encodes
<1> DEFINE c == text[k]
<1>2. c \in Nat /\ IsCharacter(c) /\ A[k] = ToUTF16(c) /\ B[k] = ToUTF8(c)
  BY <1>1, CharacterOf
<1> DEFINE room == size - Len(state.target)
<1>3. room \in Int
  OBVIOUS
<1> HIDE DEF A, B, c
<1>4. ReadsUTF16(state.rest, c)
  BY <1>2, UTF16InFront, Zenon
<1> HIDE DEF room
<1>5. TurnUTF16toUTF8(state, size) = WriteUTF8(Len(ToUTF16(c)), c, room)
  <2>1. CASE c <= UNI_MAX_BMP
    BY <1>4, <2>1, Zenon DEF TurnUTF16toUTF8, ReadUTF16, ReadsUTF16, room
  <2>2. CASE ~(c <= UNI_MAX_BMP)
    BY <1>4, <2>2, Zenon DEF TurnUTF16toUTF8, ReadUTF16, ReadsUTF16, room
  <2> QED BY <2>1, <2>2
<1>6. WriteUTF8(Len(ToUTF16(c)), c, room) = IfRoom(room, Len(A[k]), B[k])
  BY <1>2, <1>3, WritesUTF8, Zenon
<1> QED
  BY <1>5, <1>6, Zenon DEF room

(* From UTF-32 to UTF-8.                                                   *)
LEMMA TurnsOfUTF32toUTF8 ==
    ASSUME NEW text, IsText(text), NEW state, NEW size \in Nat
    PROVE  IsTurn(TurnUTF32toUTF8(state, size), state, InUTF32(text), InUTF8(text), size)
<1> DEFINE A == InUTF32(text)
           B == InUTF8(text)
<1> SUFFICES ASSUME NEW k \in 1..Len(A), NEW more \in Seq(Nat),
                    state.rest = A[k] \o more, Len(state.target) \in Nat
             PROVE  TurnUTF32toUTF8(state, size) = IfRoom(size - Len(state.target), Len(A[k]), B[k])
  BY Zenon DEF IsTurn, IfRoom
<1>1. k \in 1..Len(text)
  BY EncodedText, Zenon DEF Encodes
<1> DEFINE c == text[k]
<1>2. c \in Nat /\ IsCharacter(c) /\ A[k] = <<c>> /\ B[k] = ToUTF8(c)
  BY <1>1, CharacterOf
<1> DEFINE room == size - Len(state.target)
<1>3. room \in Int
  OBVIOUS
<1> HIDE DEF A, B, c
<1>4. state.rest[1] = c /\ Len(<<c>>) = 1
  <2>1. <<c>> \in Seq(Nat) /\ Len(<<c>>) = 1 /\ <<c>>[1] = c
    BY <1>2
  <2>2. \A i \in 1..Len(<<c>>) : (<<c>> \o more)[i] = <<c>>[i]
    BY <2>1, FirstOnes, Zenon
  <2>3. 1 \in 1..1
    OBVIOUS
  <2> QED BY <1>2, <2>1, <2>2, <2>3, Zenon
<1>5. c <= UNI_MAX_LEGAL_UTF32
  BY <1>2, Zenon DEF IsCharacter
<1> HIDE DEF room
<1>6. TurnUTF32toUTF8(state, size) = WriteUTF8(1, c, room)
  BY <1>4, <1>5, Zenon DEF TurnUTF32toUTF8, room
<1>7. WriteUTF8(1, c, room) = IfRoom(room, 1, B[k])
  BY <1>2, <1>3, WritesUTF8, Zenon
<1> QED
  BY <1>2, <1>4, <1>6, <1>7, Zenon DEF room

(* From UTF-8 to UTF-16.                                                   *)
LEMMA TurnsOfUTF8toUTF16 ==
    ASSUME NEW text, IsText(text), NEW state, NEW size \in Nat
    PROVE  IsTurn(TurnUTF8toUTF16(state, size), state, InUTF8(text), InUTF16(text), size)
<1> DEFINE A == InUTF8(text)
           B == InUTF16(text)
<1> SUFFICES ASSUME NEW k \in 1..Len(A), NEW more \in Seq(Nat),
                    state.rest = A[k] \o more, Len(state.target) \in Nat
             PROVE  TurnUTF8toUTF16(state, size) = IfRoom(size - Len(state.target), Len(A[k]), B[k])
  BY Zenon DEF IsTurn, IfRoom
<1>1. k \in 1..Len(text)
  BY EncodedText, Zenon DEF Encodes
<1> DEFINE c == text[k]
<1>2. c \in Nat /\ IsCharacter(c) /\ A[k] = ToUTF8(c) /\ B[k] = ToUTF16(c)
  BY <1>1, CharacterOf
<1> DEFINE room == size - Len(state.target)
<1>3. room \in Int
  OBVIOUS
<1> HIDE DEF A, B, c
<1>4. ReadsUTF8(state.rest, c)
  BY <1>2, UTF8InFront, Zenon
<1> HIDE DEF room
<1>5. TurnUTF8toUTF16(state, size) = WriteUTF16(Len(ToUTF8(c)), c, room)
  BY <1>4, Zenon DEF TurnUTF8toUTF16, ReadUTF8, ReadsUTF8, room
<1>6. WriteUTF16(Len(ToUTF8(c)), c, room) = IfRoom(room, Len(A[k]), B[k])
  BY <1>2, <1>3, WritesUTF16, Zenon
<1> QED
  BY <1>5, <1>6, Zenon DEF room

(* From UTF-32 to UTF-16.                                                  *)
LEMMA TurnsOfUTF32toUTF16 ==
    ASSUME NEW text, IsText(text), NEW state, NEW size \in Nat
    PROVE  IsTurn(TurnUTF32toUTF16(state, size), state, InUTF32(text), InUTF16(text), size)
<1> DEFINE A == InUTF32(text)
           B == InUTF16(text)
<1> SUFFICES ASSUME NEW k \in 1..Len(A), NEW more \in Seq(Nat),
                    state.rest = A[k] \o more, Len(state.target) \in Nat
             PROVE  TurnUTF32toUTF16(state, size) = IfRoom(size - Len(state.target), Len(A[k]), B[k])
  BY Zenon DEF IsTurn, IfRoom
<1>1. k \in 1..Len(text)
  BY EncodedText, Zenon DEF Encodes
<1> DEFINE c == text[k]
<1>2. c \in Nat /\ IsCharacter(c) /\ A[k] = <<c>> /\ B[k] = ToUTF16(c)
  BY <1>1, CharacterOf
<1> DEFINE room == size - Len(state.target)
<1>3. room \in Int
  OBVIOUS
<1> HIDE DEF A, B, c
<1>4. state.rest[1] = c /\ Len(<<c>>) = 1
  <2>1. <<c>> \in Seq(Nat) /\ Len(<<c>>) = 1 /\ <<c>>[1] = c
    BY <1>2
  <2>2. \A i \in 1..Len(<<c>>) : (<<c>> \o more)[i] = <<c>>[i]
    BY <2>1, FirstOnes, Zenon
  <2>3. 1 \in 1..1
    OBVIOUS
  <2> QED BY <1>2, <2>1, <2>2, <2>3, Zenon
<1> HIDE DEF room
<1>6. TurnUTF32toUTF16(state, size) = WriteUTF16(1, c, room)
  BY <1>4, Zenon DEF TurnUTF32toUTF16, room
<1>7. WriteUTF16(1, c, room) = IfRoom(room, 1, B[k])
  BY <1>2, <1>3, WritesUTF16, Zenon
<1> QED
  BY <1>2, <1>4, <1>6, <1>7, Zenon DEF room

(* From UTF-8 to UTF-32.                                                   *)
LEMMA TurnsOfUTF8toUTF32 ==
    ASSUME NEW text, IsText(text), NEW state, NEW size \in Nat
    PROVE  IsTurn(TurnUTF8toUTF32(state, size), state, InUTF8(text), InUTF32(text), size)
<1> DEFINE A == InUTF8(text)
           B == InUTF32(text)
<1> SUFFICES ASSUME NEW k \in 1..Len(A), NEW more \in Seq(Nat),
                    state.rest = A[k] \o more, Len(state.target) \in Nat
             PROVE  TurnUTF8toUTF32(state, size) = IfRoom(size - Len(state.target), Len(A[k]), B[k])
  BY Zenon DEF IsTurn, IfRoom
<1>1. k \in 1..Len(text)
  BY EncodedText, Zenon DEF Encodes
<1> DEFINE c == text[k]
<1>2. c \in Nat /\ IsCharacter(c) /\ A[k] = ToUTF8(c) /\ B[k] = <<c>>
  BY <1>1, CharacterOf
<1> DEFINE room == size - Len(state.target)
<1>3. room \in Int
  OBVIOUS
<1> HIDE DEF A, B, c
<1>4. ReadsUTF8(state.rest, c)
  BY <1>2, UTF8InFront, Zenon
<1> HIDE DEF room
<1>5. TurnUTF8toUTF32(state, size) = Write8to32(Len(ToUTF8(c)), c, room)
  BY <1>4, Zenon DEF TurnUTF8toUTF32, ReadUTF8, ReadsUTF8, room
<1>6. Write8to32(Len(ToUTF8(c)), c, room) = IfRoom(room, Len(A[k]), B[k])
  BY <1>2, <1>3, WritesUTF32, Zenon
<1> QED
  BY <1>5, <1>6, Zenon DEF room

(* From UTF-16 to UTF-32.                                                  *)
LEMMA TurnsOfUTF16toUTF32 ==
    ASSUME NEW text, IsText(text), NEW state, NEW size \in Nat
    PROVE  IsTurn(TurnUTF16toUTF32(state, size), state, InUTF16(text), InUTF32(text), size)
<1> DEFINE A == InUTF16(text)
           B == InUTF32(text)
<1> SUFFICES ASSUME NEW k \in 1..Len(A), NEW more \in Seq(Nat),
                    state.rest = A[k] \o more, Len(state.target) \in Nat
             PROVE  TurnUTF16toUTF32(state, size) = IfRoom(size - Len(state.target), Len(A[k]), B[k])
  BY Zenon DEF IsTurn, IfRoom
<1>1. k \in 1..Len(text)
  BY EncodedText, Zenon DEF Encodes
<1> DEFINE c == text[k]
<1>2. c \in Nat /\ IsCharacter(c) /\ A[k] = ToUTF16(c) /\ B[k] = <<c>>
  BY <1>1, CharacterOf
<1> DEFINE room == size - Len(state.target)
<1>3. room \in Int
  OBVIOUS
<1> HIDE DEF A, B, c
<1>4. ReadsUTF16(state.rest, c)
  BY <1>2, UTF16InFront, Zenon
<1> HIDE DEF room
<1>5. TurnUTF16toUTF32(state, size) = Write16to32(Len(ToUTF16(c)), c, room)
  <2>1. CASE c <= UNI_MAX_BMP
    BY <1>4, <2>1, Zenon DEF TurnUTF16toUTF32, ReadUTF16, ReadsUTF16, room
  <2>2. CASE ~(c <= UNI_MAX_BMP)
    BY <1>4, <2>2, Zenon DEF TurnUTF16toUTF32, ReadUTF16, ReadsUTF16, room
  <2> QED BY <2>1, <2>2
<1>6. Write16to32(Len(ToUTF16(c)), c, room) = IfRoom(room, Len(A[k]), B[k])
  BY <1>2, <1>3, WritesUTF32, Zenon
<1> QED
  BY <1>5, <1>6, Zenon DEF room

(* ... and so makes the text in the one encoding of that in the other, or  *)
(* runs out of room for it.                                                *)
LEMMA WholeUTF16toUTF8 ==
    ASSUME NEW text, IsText(text), NEW size \in Nat
    PROVE  IsWhole(ConvertUTF16toUTF8(FlattenSeq(InUTF16(text)), size), FlattenSeq(InUTF8(text)), size)
<1> DEFINE A == InUTF16(text)
           B == InUTF8(text)
           s == FlattenSeq(A)
           N == Len(s)
<1>1. Encodes(A, text) /\ Pieces(A, B)
  BY EncodedText, PiecesOfText, Zenon
<1>2. s \in Seq(Nat) /\ N \in Nat
  <2>1. A \in Seq(Seq(Nat))
    BY <1>1 DEF Encodes
  <2> HIDE DEF A
  <2>2. s \in Seq(Nat)
    BY <2>1, FlattenedIn, Zenon
  <2> QED BY <2>2
<1>3. PICK g : PieceRun(g, A, B, size)
  <2> HIDE DEF A, B
  <2> QED BY <1>1, PiecesConvert, Zenon
<1>4. \A n \in 1..N : IsTurn(TurnUTF16toUTF8(g[n - 1], size), g[n - 1], A, B, size)
  BY TurnsOfUTF16toUTF8, Zenon
<1> HIDE DEF A, B
<1>5. IsRun(g, N, s) /\ IsWhole(Ended(g[N]), FlattenSeq(B), size)
  BY <1>3, Zenon DEF PieceRun
<1>6. \A n \in 1..N : g[n] = WentOn(g[n - 1], TurnUTF16toUTF8(g[n - 1], size))
  BY <1>3, <1>4, Zenon DEF PieceRun
<1> HIDE DEF N, s
<1>7. Len(s) = N
  BY DEF N
<1>8. ConvertUTF16toUTF8(s, size) = Ended(g[N])
  BY <1>2, <1>5, <1>6, <1>7, RunOfUTF16toUTF8, Zenon
<1> QED
  BY <1>5, <1>8 DEF s, A, B

(* From UTF-32 to UTF-8.                                                   *)
LEMMA WholeUTF32toUTF8 ==
    ASSUME NEW text, IsText(text), NEW size \in Nat
    PROVE  IsWhole(ConvertUTF32toUTF8(FlattenSeq(InUTF32(text)), size), FlattenSeq(InUTF8(text)), size)
<1> DEFINE A == InUTF32(text)
           B == InUTF8(text)
           s == FlattenSeq(A)
           N == Len(s)
<1>1. Encodes(A, text) /\ Pieces(A, B)
  BY EncodedText, PiecesOfText, Zenon
<1>2. s \in Seq(Nat) /\ N \in Nat
  <2>1. A \in Seq(Seq(Nat))
    BY <1>1 DEF Encodes
  <2> HIDE DEF A
  <2>2. s \in Seq(Nat)
    BY <2>1, FlattenedIn, Zenon
  <2> QED BY <2>2
<1>3. PICK g : PieceRun(g, A, B, size)
  <2> HIDE DEF A, B
  <2> QED BY <1>1, PiecesConvert, Zenon
<1>4. \A n \in 1..N : IsTurn(TurnUTF32toUTF8(g[n - 1], size), g[n - 1], A, B, size)
  BY TurnsOfUTF32toUTF8, Zenon
<1> HIDE DEF A, B
<1>5. IsRun(g, N, s) /\ IsWhole(Ended(g[N]), FlattenSeq(B), size)
  BY <1>3, Zenon DEF PieceRun
<1>6. \A n \in 1..N : g[n] = WentOn(g[n - 1], TurnUTF32toUTF8(g[n - 1], size))
  BY <1>3, <1>4, Zenon DEF PieceRun
<1> HIDE DEF N, s
<1>7. Len(s) = N
  BY DEF N
<1>8. ConvertUTF32toUTF8(s, size) = Ended(g[N])
  BY <1>2, <1>5, <1>6, <1>7, RunOfUTF32toUTF8, Zenon
<1> QED
  BY <1>5, <1>8 DEF s, A, B

(* From UTF-8 to UTF-16.                                                   *)
LEMMA WholeUTF8toUTF16 ==
    ASSUME NEW text, IsText(text), NEW size \in Nat
    PROVE  IsWhole(ConvertUTF8toUTF16(FlattenSeq(InUTF8(text)), size), FlattenSeq(InUTF16(text)), size)
<1> DEFINE A == InUTF8(text)
           B == InUTF16(text)
           s == FlattenSeq(A)
           N == Len(s)
<1>1. Encodes(A, text) /\ Pieces(A, B)
  BY EncodedText, PiecesOfText, Zenon
<1>2. s \in Seq(Nat) /\ N \in Nat
  <2>1. A \in Seq(Seq(Nat))
    BY <1>1 DEF Encodes
  <2> HIDE DEF A
  <2>2. s \in Seq(Nat)
    BY <2>1, FlattenedIn, Zenon
  <2> QED BY <2>2
<1>3. PICK g : PieceRun(g, A, B, size)
  <2> HIDE DEF A, B
  <2> QED BY <1>1, PiecesConvert, Zenon
<1>4. \A n \in 1..N : IsTurn(TurnUTF8toUTF16(g[n - 1], size), g[n - 1], A, B, size)
  BY TurnsOfUTF8toUTF16, Zenon
<1> HIDE DEF A, B
<1>5. IsRun(g, N, s) /\ IsWhole(Ended(g[N]), FlattenSeq(B), size)
  BY <1>3, Zenon DEF PieceRun
<1>6. \A n \in 1..N : g[n] = WentOn(g[n - 1], TurnUTF8toUTF16(g[n - 1], size))
  BY <1>3, <1>4, Zenon DEF PieceRun
<1> HIDE DEF N, s
<1>7. Len(s) = N
  BY DEF N
<1>8. ConvertUTF8toUTF16(s, size) = Ended(g[N])
  BY <1>2, <1>5, <1>6, <1>7, RunOfUTF8toUTF16, Zenon
<1> QED
  BY <1>5, <1>8 DEF s, A, B

(* From UTF-32 to UTF-16.                                                  *)
LEMMA WholeUTF32toUTF16 ==
    ASSUME NEW text, IsText(text), NEW size \in Nat
    PROVE  IsWhole(ConvertUTF32toUTF16(FlattenSeq(InUTF32(text)), size), FlattenSeq(InUTF16(text)), size)
<1> DEFINE A == InUTF32(text)
           B == InUTF16(text)
           s == FlattenSeq(A)
           N == Len(s)
<1>1. Encodes(A, text) /\ Pieces(A, B)
  BY EncodedText, PiecesOfText, Zenon
<1>2. s \in Seq(Nat) /\ N \in Nat
  <2>1. A \in Seq(Seq(Nat))
    BY <1>1 DEF Encodes
  <2> HIDE DEF A
  <2>2. s \in Seq(Nat)
    BY <2>1, FlattenedIn, Zenon
  <2> QED BY <2>2
<1>3. PICK g : PieceRun(g, A, B, size)
  <2> HIDE DEF A, B
  <2> QED BY <1>1, PiecesConvert, Zenon
<1>4. \A n \in 1..N : IsTurn(TurnUTF32toUTF16(g[n - 1], size), g[n - 1], A, B, size)
  BY TurnsOfUTF32toUTF16, Zenon
<1> HIDE DEF A, B
<1>5. IsRun(g, N, s) /\ IsWhole(Ended(g[N]), FlattenSeq(B), size)
  BY <1>3, Zenon DEF PieceRun
<1>6. \A n \in 1..N : g[n] = WentOn(g[n - 1], TurnUTF32toUTF16(g[n - 1], size))
  BY <1>3, <1>4, Zenon DEF PieceRun
<1> HIDE DEF N, s
<1>7. Len(s) = N
  BY DEF N
<1>8. ConvertUTF32toUTF16(s, size) = Ended(g[N])
  BY <1>2, <1>5, <1>6, <1>7, RunOfUTF32toUTF16, Zenon
<1> QED
  BY <1>5, <1>8 DEF s, A, B

(* From UTF-8 to UTF-32.                                                   *)
LEMMA WholeUTF8toUTF32 ==
    ASSUME NEW text, IsText(text), NEW size \in Nat
    PROVE  IsWhole(ConvertUTF8toUTF32(FlattenSeq(InUTF8(text)), size), FlattenSeq(InUTF32(text)), size)
<1> DEFINE A == InUTF8(text)
           B == InUTF32(text)
           s == FlattenSeq(A)
           N == Len(s)
<1>1. Encodes(A, text) /\ Pieces(A, B)
  BY EncodedText, PiecesOfText, Zenon
<1>2. s \in Seq(Nat) /\ N \in Nat
  <2>1. A \in Seq(Seq(Nat))
    BY <1>1 DEF Encodes
  <2> HIDE DEF A
  <2>2. s \in Seq(Nat)
    BY <2>1, FlattenedIn, Zenon
  <2> QED BY <2>2
<1>3. PICK g : PieceRun(g, A, B, size)
  <2> HIDE DEF A, B
  <2> QED BY <1>1, PiecesConvert, Zenon
<1>4. \A n \in 1..N : IsTurn(TurnUTF8toUTF32(g[n - 1], size), g[n - 1], A, B, size)
  BY TurnsOfUTF8toUTF32, Zenon
<1> HIDE DEF A, B
<1>5. IsRun(g, N, s) /\ IsWhole(Ended(g[N]), FlattenSeq(B), size)
  BY <1>3, Zenon DEF PieceRun
<1>6. \A n \in 1..N : g[n] = WentOn(g[n - 1], TurnUTF8toUTF32(g[n - 1], size))
  BY <1>3, <1>4, Zenon DEF PieceRun
<1> HIDE DEF N, s
<1>7. Len(s) = N
  BY DEF N
<1>8. ConvertUTF8toUTF32(s, size) = Ended(g[N])
  BY <1>2, <1>5, <1>6, <1>7, RunOfUTF8toUTF32, Zenon
<1> QED
  BY <1>5, <1>8 DEF s, A, B

(* From UTF-16 to UTF-32.                                                  *)
LEMMA WholeUTF16toUTF32 ==
    ASSUME NEW text, IsText(text), NEW size \in Nat
    PROVE  IsWhole(ConvertUTF16toUTF32(FlattenSeq(InUTF16(text)), size), FlattenSeq(InUTF32(text)), size)
<1> DEFINE A == InUTF16(text)
           B == InUTF32(text)
           s == FlattenSeq(A)
           N == Len(s)
<1>1. Encodes(A, text) /\ Pieces(A, B)
  BY EncodedText, PiecesOfText, Zenon
<1>2. s \in Seq(Nat) /\ N \in Nat
  <2>1. A \in Seq(Seq(Nat))
    BY <1>1 DEF Encodes
  <2> HIDE DEF A
  <2>2. s \in Seq(Nat)
    BY <2>1, FlattenedIn, Zenon
  <2> QED BY <2>2
<1>3. PICK g : PieceRun(g, A, B, size)
  <2> HIDE DEF A, B
  <2> QED BY <1>1, PiecesConvert, Zenon
<1>4. \A n \in 1..N : IsTurn(TurnUTF16toUTF32(g[n - 1], size), g[n - 1], A, B, size)
  BY TurnsOfUTF16toUTF32, Zenon
<1> HIDE DEF A, B
<1>5. IsRun(g, N, s) /\ IsWhole(Ended(g[N]), FlattenSeq(B), size)
  BY <1>3, Zenon DEF PieceRun
<1>6. \A n \in 1..N : g[n] = WentOn(g[n - 1], TurnUTF16toUTF32(g[n - 1], size))
  BY <1>3, <1>4, Zenon DEF PieceRun
<1> HIDE DEF N, s
<1>7. Len(s) = N
  BY DEF N
<1>8. ConvertUTF16toUTF32(s, size) = Ended(g[N])
  BY <1>2, <1>5, <1>6, <1>7, RunOfUTF16toUTF32, Zenon
<1> QED
  BY <1>5, <1>8 DEF s, A, B

-----------------------------------------------------------------------------
(* What is put together of pieces, none more than w times as long as       *)
(* another, is no more than w times as long as what is put together of     *)
(* those.                                                                  *)
LEMMA NotLonger ==
    ASSUME NEW A \in Seq(Seq(Nat)), NEW B \in Seq(Seq(Nat)), Len(A) = Len(B),
           NEW w \in {1, 2, 4}, \A k \in 1..Len(A) : Len(A[k]) <= w * Len(B[k])
    PROVE  Len(FlattenSeq(A)) <= w * Len(FlattenSeq(B))
<1> DEFINE m == Len(A)
<1>1. /\ m \in Nat /\ Len(B) = m
      /\ \A k \in 1..m : A[k] \in Seq(Nat) /\ B[k] \in Seq(Nat)
  BY ElementOfSeq
<1>2. PICK fA, bA : Cut(Nat, A, fA, bA)
  BY Flattened
<1>3. PICK fB, bB : Cut(Nat, B, fB, bB)
  BY Flattened
<1>4. /\ \A k \in 0..m : fA[k] \in Seq(Nat) /\ bA[k] \in Seq(Nat) /\ fA[k] \o bA[k] = FlattenSeq(A)
      /\ fA[0] = <<>> /\ bA[m] = <<>>
      /\ \A k \in 1..m : fA[k] = fA[k - 1] \o A[k]
  BY <1>2 DEF Cut
<1>5. /\ \A k \in 0..m : fB[k] \in Seq(Nat) /\ bB[k] \in Seq(Nat) /\ fB[k] \o bB[k] = FlattenSeq(B)
      /\ fB[0] = <<>> /\ bB[m] = <<>>
      /\ \A k \in 1..m : fB[k] = fB[k - 1] \o B[k]
  BY <1>1, <1>3 DEF Cut
<1> DEFINE T == {k \in 0..m : Len(fA[k]) <= w * Len(fB[k])}
<1>6. 0 \in T
  <2>1. Len(fA[0]) = 0 /\ Len(fB[0]) = 0 /\ 0 \in 0..m
    BY <1>1, <1>4, <1>5
  <2> QED BY <2>1
<1>7. ASSUME NEW k \in 1..m, k - 1 \in T PROVE k \in T
  <2>0. k - 1 \in 0..m /\ k \in 0..m /\ k \in 1..Len(A)
    BY <1>1
  <2>1. /\ fA[k - 1] \in Seq(Nat) /\ A[k] \in Seq(Nat) /\ fA[k] = fA[k - 1] \o A[k]
        /\ fB[k - 1] \in Seq(Nat) /\ B[k] \in Seq(Nat) /\ fB[k] = fB[k - 1] \o B[k]
    BY <1>1, <1>4, <1>5, <2>0
  <2>2. /\ Len(fA[k - 1] \o A[k]) = Len(fA[k - 1]) + Len(A[k])
        /\ Len(fB[k - 1] \o B[k]) = Len(fB[k - 1]) + Len(B[k])
    BY <2>1, Joined, Zenon
  <2> DEFINE a == Len(fA[k - 1])
             b == Len(fB[k - 1])
             c == Len(A[k])
             d == Len(B[k])
  <2>3. a \in Nat /\ b \in Nat /\ c \in Nat /\ d \in Nat
    BY <2>1, LenProperties, Zenon
  <2>4. a <= w * b /\ c <= w * d /\ Len(fA[k]) = a + c /\ Len(fB[k]) = b + d
    <3>1. Len(fA[k - 1]) <= w * Len(fB[k - 1])
      BY <1>7, Zenon
    <3>2. Len(A[k]) <= w * Len(B[k])
      BY <2>0, Zenon
    <3>3. Len(fA[k]) = Len(fA[k - 1]) + Len(A[k]) /\ Len(fB[k]) = Len(fB[k - 1]) + Len(B[k])
      BY <2>1, <2>2, Zenon
    <3> QED BY <3>1, <3>2, <3>3, Zenon
  <2> HIDE DEF a, b, c, d
  <2>5. a + c <= w * (b + d)
    <3>1. CASE w = 1
      BY <2>3, <2>4, <3>1, SMT
    <3>2. CASE w = 2
      BY <2>3, <2>4, <3>2, SMT
    <3>3. CASE w = 4
      BY <2>3, <2>4, <3>3, SMT
    <3> QED BY <3>1, <3>2, <3>3
  <2> QED BY <2>0, <2>4, <2>5
<1>8. m \in T
  <2>1. 0..m \subseteq T
    <3> HIDE DEF T
    <3> QED BY <1>1, <1>6, <1>7, Upwards
  <2> QED BY <1>1, <2>1
<1>9. fA[m] = FlattenSeq(A) /\ fB[m] = FlattenSeq(B)
  <2>0. m \in 0..m
    BY <1>1
  <2>1. /\ fA[m] \in Seq(Nat) /\ fA[m] \o <<>> = FlattenSeq(A)
        /\ fB[m] \in Seq(Nat) /\ fB[m] \o <<>> = FlattenSeq(B)
    BY <1>4, <1>5, <2>0
  <2>2. fA[m] \o <<>> = fA[m] /\ fB[m] \o <<>> = fB[m]
    BY <2>1, ConcatEmptySeq, Zenon
  <2> QED BY <2>1, <2>2
<1> QED
  BY <1>8, <1>9

(* Single elements put together are the sequence they are of.              *)
LEMMA FlattenedSingles ==
    ASSUME NEW text, IsText(text)
    PROVE  FlattenSeq(InUTF32(text)) = text
<1> DEFINE A == InUTF32(text)
           m == Len(text)
<1>1. A \in Seq(Seq(Nat)) /\ Len(A) = m /\ text \in Seq(Nat) /\ m \in Nat
  BY EncodedText DEF Encodes, IsText
<1>2. \A k \in 1..m : A[k] = <<text[k]>> /\ text[k] \in Nat
  BY CharacterOf
<1> HIDE DEF A
<1>3. PICK fA, bA : Cut(Nat, A, fA, bA)
  BY <1>1, Flattened
<1>4. /\ \A k \in 0..m : fA[k] \in Seq(Nat) /\ bA[k] \in Seq(Nat) /\ fA[k] \o bA[k] = FlattenSeq(A)
      /\ fA[0] = <<>> /\ bA[m] = <<>>
      /\ \A k \in 1..m : fA[k] = fA[k - 1] \o A[k]
  BY <1>1, <1>3 DEF Cut
<1> HIDE DEF m
<1> DEFINE T == {k \in 0..m : Len(fA[k]) = k /\ \A i \in 1..k : fA[k][i] = text[i]}
<1>5. 0 \in T
  <2>1. Len(fA[0]) = 0 /\ 0 \in 0..m
    BY <1>1, <1>4
  <2> QED BY <2>1
<1>6. ASSUME NEW k \in 1..m, k - 1 \in T PROVE k \in T
  <2>0. k - 1 \in 0..m /\ k \in 0..m /\ k \in Nat
    BY <1>1
  <2> DEFINE f == fA[k - 1]
             e == <<text[k]>>
  <2>1. f \in Seq(Nat) /\ e \in Seq(Nat) /\ fA[k] = f \o e /\ Len(e) = 1 /\ e[1] = text[k]
    <3>1. text[k] \in Nat /\ A[k] = e
      BY <1>2
    <3>2. f \in Seq(Nat) /\ fA[k] = f \o A[k]
      BY <1>4, <2>0
    <3>3. e \in Seq(Nat) /\ Len(e) = 1 /\ e[1] = text[k]
      BY <3>1
    <3> QED BY <3>1, <3>2, <3>3
  <2>2. Len(f) = k - 1 /\ \A i \in 1..(k - 1) : f[i] = text[i]
    BY <1>6
  <2> HIDE DEF f, e
  <2>3. /\ Len(f \o e) = Len(f) + Len(e)
        /\ \A i \in 1..(Len(f) + Len(e)) : (f \o e)[i] = IF i <= Len(f) THEN f[i] ELSE e[i - Len(f)]
    BY <2>1, ConcatProperties
  <2>4. Len(f \o e) = k
    BY <2>0, <2>1, <2>2, <2>3
  <2>5. ASSUME NEW i \in 1..k PROVE (f \o e)[i] = text[i]
    <3>1. (f \o e)[i] = IF i <= k - 1 THEN f[i] ELSE e[i - (k - 1)]
      <4>1. Len(f) + Len(e) = k
        BY <2>0, <2>1, <2>2
      <4>2. i \in 1..(Len(f) + Len(e))
        BY <4>1
      <4> QED BY <2>2, <2>3, <4>2, Zenon
    <3>2. CASE i <= k - 1
      <4>1. i \in 1..(k - 1)
        BY <2>0, <3>2
      <4> QED BY <2>2, <3>1, <3>2, <4>1
    <3>3. CASE i = k
      <4>1. i - (k - 1) = 1 /\ ~(i <= k - 1)
        BY <2>0, <3>3
      <4>2. (f \o e)[i] = e[1]
        BY <3>1, <4>1
      <4>3. text[k] = text[i]
        BY <3>3
      <4> QED BY <2>1, <4>2, <4>3, Zenon
    <3>4. i <= k - 1 \/ i = k
      BY <2>0
    <3> QED BY <3>2, <3>3, <3>4, Zenon
  <2> QED BY <2>0, <2>1, <2>4, <2>5
<1>7. m \in T /\ m \in 0..m
  <2>1. 0..m \subseteq T
    <3> HIDE DEF T
    <3> QED BY <1>1, <1>5, <1>6, Upwards
  <2> QED BY <1>1, <2>1
<1>8. fA[m] \in Seq(Nat) /\ fA[m] = FlattenSeq(A)
  <2>1. fA[m] \in Seq(Nat) /\ fA[m] \o <<>> = FlattenSeq(A)
    BY <1>4, <1>7
  <2>2. fA[m] \o <<>> = fA[m]
    BY <2>1, ConcatEmptySeq, Zenon
  <2> QED BY <2>1, <2>2
<1>9. Len(fA[m]) = Len(text) /\ \A i \in 1..Len(fA[m]) : fA[m][i] = text[i]
  BY <1>7 DEF m
<1>10. fA[m] = text
  BY <1>1, <1>8, <1>9, SeqEqual, Zenon
<1> QED
  BY <1>8, <1>10 DEF A

(* A text takes at most four bytes for a character, two units of UTF-16,   *)
(* and a byte for every unit of either.                                    *)
LEMMA LengthsOfText ==
    ASSUME NEW text, IsText(text), NEW u8, NEW u16,
           u8 = FlattenSeq(InUTF8(text)), u16 = FlattenSeq(InUTF16(text))
    PROVE  /\ u8 \in Seq(Nat) /\ u16 \in Seq(Nat) /\ Len(text) \in Nat
           /\ Len(u8) <= 4 * Len(text) /\ Len(u8) <= 4 * Len(u16)
           /\ Len(u16) <= Len(u8) /\ Len(text) <= Len(u8)
           /\ Len(u16) <= 2 * Len(text) /\ Len(text) <= Len(u16)
<1> DEFINE A == InUTF8(text)
           B == InUTF16(text)
           C == InUTF32(text)
           m == Len(text)
<1>1. /\ A \in Seq(Seq(Nat)) /\ B \in Seq(Seq(Nat)) /\ C \in Seq(Seq(Nat))
      /\ Len(A) = m /\ Len(B) = m /\ Len(C) = m
  BY EncodedText DEF Encodes
<1>2. FlattenSeq(C) = text /\ text \in Seq(Nat)
  BY FlattenedSingles DEF IsText
<1>3. \A k \in 1..m : /\ Len(A[k]) <= 4 * Len(C[k]) /\ Len(A[k]) <= 4 * Len(B[k])
                      /\ Len(B[k]) <= 1 * Len(A[k]) /\ Len(C[k]) <= 1 * Len(A[k])
                      /\ Len(B[k]) <= 2 * Len(C[k]) /\ Len(C[k]) <= 1 * Len(B[k])
  <2> TAKE k \in 1..m
  <2>1. /\ text[k] \in Nat /\ IsCharacter(text[k])
        /\ A[k] = ToUTF8(text[k]) /\ B[k] = ToUTF16(text[k]) /\ C[k] = <<text[k]>>
    BY CharacterOf
  <2> HIDE DEF A, B, C
  <2> DEFINE a == Len(A[k])
             b == Len(B[k])
             c == Len(C[k])
  <2>2. a \in 1..4 /\ b \in 1..2 /\ c = 1 /\ b <= a
    BY <2>1, EncodedCharacter
  <2> HIDE DEF a, b, c
  <2>3. a <= 4 * c /\ a <= 4 * b /\ b <= 1 * a /\ c <= 1 * a /\ b <= 2 * c /\ c <= 1 * b
    BY <2>2
  <2> QED BY <2>3 DEF a, b, c
<1>4. u8 = FlattenSeq(A) /\ u16 = FlattenSeq(B)
  OBVIOUS
<1> HIDE DEF A, B, C, m
<1>5. u8 \in Seq(Nat) /\ u16 \in Seq(Nat)
  BY <1>1, <1>4, FlattenedIn
<1>6. Len(FlattenSeq(A)) <= 4 * Len(FlattenSeq(C))
  <2>1. \A k \in 1..m : Len(A[k]) <= 4 * Len(C[k])
    BY <1>3
  <2> QED BY <1>1, <2>1, NotLonger
<1>7. Len(FlattenSeq(A)) <= 4 * Len(FlattenSeq(B))
  <2>1. \A k \in 1..m : Len(A[k]) <= 4 * Len(B[k])
    BY <1>3
  <2> QED BY <1>1, <2>1, NotLonger
<1>8. Len(FlattenSeq(B)) <= 1 * Len(FlattenSeq(A))
  <2>1. \A k \in 1..m : Len(B[k]) <= 1 * Len(A[k])
    BY <1>3
  <2> QED BY <1>1, <2>1, NotLonger
<1>9. Len(FlattenSeq(C)) <= 1 * Len(FlattenSeq(A))
  <2>1. \A k \in 1..m : Len(C[k]) <= 1 * Len(A[k])
    BY <1>3
  <2> QED BY <1>1, <2>1, NotLonger
<1>10. Len(FlattenSeq(B)) <= 2 * Len(FlattenSeq(C))
  <2>1. \A k \in 1..m : Len(B[k]) <= 2 * Len(C[k])
    BY <1>3
  <2> QED BY <1>1, <2>1, NotLonger
<1>11. Len(FlattenSeq(C)) <= 1 * Len(FlattenSeq(B))
  <2>1. \A k \in 1..m : Len(C[k]) <= 1 * Len(B[k])
    BY <1>3
  <2> QED BY <1>1, <2>1, NotLonger
<1> QED
  BY <1>2, <1>4, <1>5, <1>6, <1>7, <1>8, <1>9, <1>10, <1>11

(* A text in UTF-8 begins with a legal sequence.                           *)
LEMMA BeginsLegal ==
    ASSUME NEW text, IsText(text)
    PROVE  CreateFromUTF8(FlattenSeq(InUTF8(text))) = Ok(FlattenSeq(InUTF8(text)))
<1> DEFINE A == InUTF8(text)
           u8 == FlattenSeq(A)
           m == Len(text)
<1>1. A \in Seq(Seq(Nat)) /\ Len(A) = m /\ m \in Nat
  BY EncodedText DEF Encodes, IsText
<1>2. \A k \in 1..m : A[k] = ToUTF8(text[k]) /\ text[k] \in Nat /\ IsCharacter(text[k])
  BY CharacterOf
<1> HIDE DEF A, u8, m
<1>3. PICK fA, bA : Cut(Nat, A, fA, bA)
  BY <1>1, Flattened
<1>4. /\ \A k \in 0..m : fA[k] \in Seq(Nat) /\ bA[k] \in Seq(Nat) /\ fA[k] \o bA[k] = FlattenSeq(A)
      /\ fA[0] = <<>> /\ bA[m] = <<>>
      /\ \A k \in 1..m : bA[k - 1] = A[k] \o bA[k]
  BY <1>1, <1>3 DEF Cut
<1>5. u8 = bA[0]
  <2>0. 0 \in 0..m
    BY <1>1
  <2>1. bA[0] \in Seq(Nat) /\ <<>> \o bA[0] = u8
    BY <1>4, <2>0 DEF u8
  <2>2. <<>> \o bA[0] = bA[0]
    BY <2>1, ConcatEmptySeq, Zenon
  <2> QED BY <2>1, <2>2
<1>6. CASE m = 0
  <2>1. u8 = <<>>
    BY <1>4, <1>5, <1>6
  <2>2. CreateFromUTF8(u8) = Ok(u8)
    BY <2>1, Zenon DEF CreateFromUTF8
  <2> QED BY <2>2 DEF u8, A
<1>7. CASE m # 0
  <2>1. 1 \in 1..m /\ 1 \in 0..m /\ 1 - 1 = 0
    BY <1>1, <1>7
  <2>2. bA[0] = A[1] \o bA[1] /\ bA[1] \in Seq(Nat)
    BY <1>4, <2>1
  <2> DEFINE c == text[1]
  <2>3. A[1] = ToUTF8(c) /\ c \in Nat /\ IsCharacter(c)
    BY <1>2, <2>1
  <2> HIDE DEF c
  <2>4. ReadsUTF8(u8, c)
    BY <1>5, <2>2, <2>3, UTF8InFront, Zenon
  <2>5. isLegalUTF8Sequence(u8)
    <3>1. /\ trailingBytesForUTF8(u8[1]) + 1 = Len(ToUTF8(c)) /\ ~(Len(ToUTF8(c)) > Len(u8))
          /\ SubSeq(u8, 1, Len(ToUTF8(c))) = ToUTF8(c) /\ isLegalUTF8(ToUTF8(c))
      BY <2>4, Zenon DEF ReadsUTF8
    <3>2. Len(ToUTF8(c)) \in Int /\ Len(u8) \in Int
      <4>1. Len(ToUTF8(c)) \in 1..4
        BY <2>3, EncodedCharacter
      <4>2. u8 \in Seq(Nat)
        BY <1>1, FlattenedIn DEF u8
      <4> QED BY <4>1, <4>2
    <3> DEFINE n == Len(ToUTF8(c))
               l == Len(u8)
    <3>3. n \in Int /\ l \in Int /\ ~(n > l)
      BY <3>1, <3>2
    <3> HIDE DEF n, l
    <3>4. n <= l
      BY <3>3
    <3>5. Len(ToUTF8(c)) <= Len(u8)
      BY <3>4 DEF n, l
    <3> QED BY <3>1, <3>5, Zenon DEF isLegalUTF8Sequence
  <2>6. CreateFromUTF8(u8) = Ok(u8)
    BY <2>5, Zenon DEF CreateFromUTF8
  <2> QED BY <2>6 DEF u8, A
<1> QED
  BY <1>6, <1>7

-----------------------------------------------------------------------------
(* A text made into a string and read back.                                *)
LEMMA ConvertedAndBack ==
    ASSUME NEW text, IsText(text)
    PROVE  LET u8  == FlattenSeq(InUTF8(text))
               u16 == FlattenSeq(InUTF16(text))
           IN  /\ CreateFromUTF32(text) = Ok(u8)
               /\ ConvertToUTF32(u8) = Ok(text)
               /\ ConvertToUTF16(u8) = Ok(u16)
               /\ CreateFromUTF16(u16) = Ok(u8)
               /\ ConvertUTF32toUTF16(text, 2 * Len(text)).target = u16
               /\ ConvertUTF16toUTF32(u16, Len(u16)).target = text
               /\ \A size \in Nat :
                     CopyToUTF16(size, u8) = IF size + 1 >= 2 * Len(u16) THEN u16 ELSE <<>>
<1> DEFINE u8  == FlattenSeq(InUTF8(text))
           u16 == FlattenSeq(InUTF16(text))
           n   == Len(text)
           n8  == Len(u8)
           n16 == Len(u16)
<1>1. /\ u8 \in Seq(Nat) /\ u16 \in Seq(Nat) /\ n \in Nat
      /\ n8 <= 4 * n /\ n8 <= 4 * n16 /\ n16 <= n8 /\ n <= n8 /\ n16 <= 2 * n /\ n <= n16
  BY LengthsOfText
<1>2. FlattenSeq(InUTF32(text)) = text
  BY FlattenedSingles
<1>3. /\ \A size \in Nat : IsWhole(ConvertUTF32toUTF8(text, size), u8, size)
      /\ \A size \in Nat : IsWhole(ConvertUTF8toUTF32(u8, size), text, size)
      /\ \A size \in Nat : IsWhole(ConvertUTF8toUTF16(u8, size), u16, size)
      /\ \A size \in Nat : IsWhole(ConvertUTF16toUTF8(u16, size), u8, size)
      /\ \A size \in Nat : IsWhole(ConvertUTF32toUTF16(text, size), u16, size)
      /\ \A size \in Nat : IsWhole(ConvertUTF16toUTF32(u16, size), text, size)
  <2>1. \A size \in Nat : IsWhole(ConvertUTF32toUTF8(text, size), u8, size)
    BY <1>2, WholeUTF32toUTF8
  <2>2. \A size \in Nat : IsWhole(ConvertUTF8toUTF32(u8, size), text, size)
    BY <1>2, WholeUTF8toUTF32
  <2>3. \A size \in Nat : IsWhole(ConvertUTF8toUTF16(u8, size), u16, size)
    BY WholeUTF8toUTF16
  <2>4. \A size \in Nat : IsWhole(ConvertUTF16toUTF8(u16, size), u8, size)
    BY WholeUTF16toUTF8
  <2>5. \A size \in Nat : IsWhole(ConvertUTF32toUTF16(text, size), u16, size)
    BY <1>2, WholeUTF32toUTF16
  <2>6. \A size \in Nat : IsWhole(ConvertUTF16toUTF32(u16, size), text, size)
    BY <1>2, WholeUTF16toUTF32
  <2> QED BY <2>1, <2>2, <2>3, <2>4, <2>5, <2>6
<1>4. n8 \in Nat /\ n16 \in Nat
  BY <1>1
<1> HIDE DEF u8, u16
<1> DEFINE Whole(t) == [result |-> "conversionOK", target |-> t]
<1>5. ConvertUTF32toUTF8(text, 4 * Len(text)) = Whole(u8)
  <2>1. 4 * Len(text) \in Nat /\ Len(u8) <= 4 * Len(text)
    BY <1>1
  <2> QED BY <1>3, <2>1, Zenon DEF IsWhole
<1>6. ConvertUTF8toUTF32(u8, Len(u8)) = Whole(text)
  <2>1. Len(u8) \in Nat /\ Len(text) <= Len(u8)
    BY <1>1, <1>4
  <2> QED BY <1>3, <2>1, Zenon DEF IsWhole
<1>7. ConvertUTF8toUTF16(u8, Len(u8)) = Whole(u16)
  <2>1. Len(u8) \in Nat /\ Len(u16) <= Len(u8)
    BY <1>1, <1>4
  <2> QED BY <1>3, <2>1, Zenon DEF IsWhole
<1>8. ConvertUTF16toUTF8(u16, 4 * Len(u16)) = Whole(u8)
  <2>1. 4 * Len(u16) \in Nat /\ Len(u8) <= 4 * Len(u16)
    BY <1>1, <1>4
  <2> QED BY <1>3, <2>1, Zenon DEF IsWhole
<1>9. ConvertUTF32toUTF16(text, 2 * Len(text)) = Whole(u16)
  <2>1. 2 * Len(text) \in Nat /\ Len(u16) <= 2 * Len(text)
    BY <1>1
  <2> QED BY <1>3, <2>1, Zenon DEF IsWhole
<1>10. ConvertUTF16toUTF32(u16, Len(u16)) = Whole(text)
  <2>1. Len(u16) \in Nat /\ Len(text) <= Len(u16)
    BY <1>1, <1>4
  <2> QED BY <1>3, <2>1, Zenon DEF IsWhole
<1>11. \A t : Whole(t).result = "conversionOK" /\ Whole(t).target = t /\ Outcome(Whole(t)) = Ok(t)
  BY DEF Outcome, Ok
<1>12. ASSUME NEW size \in Nat
       PROVE  CopyToUTF16(size, u8) = IF size + 1 >= 2 * Len(u16) THEN u16 ELSE <<>>
  <2> DEFINE room == (size + 1) \div 2
             c == ConvertUTF8toUTF16(u8, room)
  <2>1. room \in Nat /\ (n16 <= room <=> size + 1 >= 2 * n16)
    BY <1>4
  <2>2. IsWhole(c, u16, room)
    <3> HIDE DEF room
    <3> QED BY <1>3, <2>1
  <2>3. CopyToUTF16(size, u8) = Copied(c)
    BY Zenon DEF CopyToUTF16
  <2> HIDE DEF room, c
  <2>4. CASE n16 <= room
    <3>1. c = Whole(u16)
      BY <2>2, <2>4, Zenon DEF IsWhole
    <3>2. Copied(c) = u16
      BY <1>11, <3>1, Zenon DEF Copied
    <3>3. size + 1 >= 2 * n16
      BY <2>1, <2>4
    <3> QED BY <2>3, <3>2, <3>3
  <2>5. CASE ~(n16 <= room)
    <3>1. c.result = "targetExhausted"
      BY <2>2, <2>5, Zenon DEF IsWhole
    <3>2. Copied(c) = <<>>
      BY <3>1 DEF Copied
    <3>3. ~(size + 1 >= 2 * n16)
      BY <2>1, <2>5
    <3> QED BY <2>3, <3>2, <3>3
  <2> QED BY <2>4, <2>5
<1> HIDE DEF Whole
<1>13. /\ CreateFromUTF32(text) = Ok(u8) /\ ConvertToUTF32(u8) = Ok(text)
       /\ ConvertToUTF16(u8) = Ok(u16) /\ CreateFromUTF16(u16) = Ok(u8)
  BY <1>5, <1>6, <1>7, <1>8, <1>11, Zenon
     DEF CreateFromUTF32, ConvertToUTF32, ConvertToUTF16, CreateFromUTF16
<1>14. /\ ConvertUTF32toUTF16(text, 2 * Len(text)).target = u16
       /\ ConvertUTF16toUTF32(u16, Len(u16)).target = text
  BY <1>9, <1>10, <1>11, Zenon
<1> QED
  BY <1>12, <1>13, <1>14 DEF u8, u16

-----------------------------------------------------------------------------
(* Converting anything.  The states of a loop, and its turns.              *)
Results4 == {"conversionOK", "sourceExhausted", "sourceIllegal", "targetExhausted"}

States == [rest : Seq(Nat), target : Seq(Nat), result : Results4, stopped : BOOLEAN]

Turns == [result : Results4, used : Nat, written : Seq(Nat)]

(* A turn leads from one state of the loop to another.                     *)
LEMMA GoesOn ==
    ASSUME NEW c \in States, NEW t, c.rest # <<>> => t \in Turns
    PROVE  WentOn(c, t) \in States
<1> DEFINE U == Seq(Nat)
<1>1. /\ c.rest \in U /\ c.target \in U /\ c.result \in Results4 /\ c.stopped \in BOOLEAN
  BY DEF States
<1>2. CASE c.stopped \/ c.rest = <<>>
  BY <1>2 DEF WentOn
<1>3. CASE ~(c.stopped \/ c.rest = <<>>)
  <2>1. t.result \in Results4 /\ t.used \in Nat /\ t.written \in U
    BY <1>3 DEF Turns
  <2> DEFINE rest == SubSeq(c.rest, t.used + 1, Len(c.rest))
             target == c.target \o t.written
             result == IF t.result = "conversionOK" THEN c.result ELSE t.result
             stopped == t.used = 0
  <2>2. rest \in U
    <3>1. From(c.rest, t.used) \in U
      BY <1>1, <2>1, Rest
    <3> QED BY <3>1 DEF From
  <2>3. target \in U
    BY <1>1, <2>1, Joined, Zenon
  <2>4. result \in Results4 /\ stopped \in BOOLEAN
    BY <1>1, <2>1
  <2> HIDE DEF rest, target, result, stopped, U
  <2>5. [rest |-> rest, target |-> target, result |-> result, stopped |-> stopped] \in States
    BY <2>2, <2>3, <2>4 DEF States, U
  <2> QED BY <1>3, <2>5, Zenon DEF WentOn, rest, target, result, stopped
<1> QED
  BY <1>2, <1>3

(* A loop that goes on from any state has a run.                           *)
LEMMA RunExists ==
    ASSUME NEW source \in Seq(Nat), NEW N \in Nat, NEW step \in [States -> States]
    PROVE  \E g \in [0..N -> States] :
              IsRun(g, N, source) /\ \A n \in 1..N : g[n] = step[g[n - 1]]
<1> DEFINE S == 0..N
           V == States
           v0 == Began(source)
           F == [g \in [S -> V] |-> [n \in S |-> IF n = 0 THEN v0 ELSE step[g[n - 1]]]]
           mu == [n \in S |-> n]
<1>1. v0 \in V
  BY EmptySeq DEF Began, States, Results4
<1> HIDE DEF v0, V
<1>2. step \in [V -> V]
  BY DEF V
<1>3. \A n \in S : n # 0 => n - 1 \in S /\ mu[n - 1] < mu[n]
  OBVIOUS
<1>4. F \in [[S -> V] -> [S -> V]]
  <2>1. ASSUME NEW g \in [S -> V], NEW n \in S PROVE (IF n = 0 THEN v0 ELSE step[g[n - 1]]) \in V
    BY <1>1, <1>2, <1>3
  <2> HIDE DEF S
  <2> QED BY <2>1
<1>5. \A n \in S : \A g, h \in [S -> V] :
          (\A k \in S : mu[k] < mu[n] => g[k] = h[k]) => F[g][n] = F[h][n]
  <2> TAKE n \in S
  <2> TAKE g, h \in [S -> V]
  <2> HAVE \A k \in S : mu[k] < mu[n] => g[k] = h[k]
  <2>1. n # 0 => g[n - 1] = h[n - 1]
    BY <1>3
  <2> HIDE DEF S, mu
  <2> QED BY <2>1
<1>6. PICK f \in [S -> V] : F[f] = f
  <2>1. mu \in [S -> Nat]
    OBVIOUS
  <2> HIDE DEF S, F, mu
  <2>2. DependsBelow(S, mu, V, F)
    BY <1>1, <1>4, <1>5, <2>1 DEF DependsBelow
  <2> QED BY <2>2, Recursion
<1>7. \A n \in S : f[n] = IF n = 0 THEN v0 ELSE step[f[n - 1]]
  <2> HIDE DEF S
  <2> QED BY <1>6
<1>8. f[0] = v0 /\ \A n \in 1..N : f[n] = step[f[n - 1]]
  <2>1. 0 \in S /\ \A n \in 1..N : n \in S /\ n # 0
    OBVIOUS
  <2> HIDE DEF S
  <2> QED BY <1>7, <2>1
<1>9. f = [n \in 0..N |-> f[n]]
  BY <1>6
<1> QED
  BY <1>6, <1>8, <1>9 DEF IsRun, v0, V

(* A number in UTF-8, whatever it is.                                      *)
LEMMA NumberInUTF8 ==
    ASSUME NEW c \in Nat
    PROVE  ToUTF8(c) \in Seq(Nat)
<1> DEFINE b1 == 192 + c \div 64
           b2 == 224 + c \div 4096
           b3 == 240 + c \div 262144
           d1 == 128 + (c % 64)
           d2 == 128 + ((c \div 64) % 64)
           d3 == 128 + ((c \div 4096) % 64)
<1>1. b1 \in Nat /\ b2 \in Nat /\ b3 \in Nat /\ d1 \in Nat /\ d2 \in Nat /\ d3 \in Nat
  BY SixBits
<1>2. \/ ToUTF8(c) = <<c>> \/ ToUTF8(c) = <<b1, d1>>
      \/ ToUTF8(c) = <<b2, d2, d1>> \/ ToUTF8(c) = <<b3, d3, d2, d1>>
  BY SMT DEF ToUTF8
<1> HIDE DEF b1, b2, b3, d1, d2, d3
<1>3. <<c>> \in Seq(Nat)
  OBVIOUS
<1>4. <<b1, d1>> \in Seq(Nat)
  BY <1>1
<1>5. <<b2, d2, d1>> \in Seq(Nat)
  BY <1>1
<1>6. <<b3, d3, d2, d1>> \in Seq(Nat)
  BY <1>1
<1> QED
  BY <1>2, <1>3, <1>4, <1>5, <1>6, Zenon

(* A string is a sequence of numbers, whatever it is made from.            *)
LEMMA NumbersToUTF8 ==
    ASSUME NEW source \in Seq(Nat), NEW size \in Nat
    PROVE  ConvertUTF32toUTF8(source, size).target \in Seq(Nat)
<1> DEFINE N == Len(source)
           step == [c \in States |-> WentOn(c, TurnUTF32toUTF8(c, size))]
<1>1. ASSUME NEW c \in States, c.rest # <<>>
      PROVE  TurnUTF32toUTF8(c, size) \in Turns
  <2> DEFINE ch == c.rest[1]
             room == size - Len(c.target)
  <2>1. ch \in Nat
    <3>1. c.rest \in Seq(Nat) /\ Len(c.rest) \in Nat /\ Len(c.rest) # 0
      BY <1>1, EmptySeq DEF States
    <3>2. 1 \in 1..Len(c.rest)
      BY <3>1
    <3> QED BY <3>1, <3>2, ElementOfSeq
  <2>2. ToUTF8(ch) \in Seq(Nat) /\ ToUTF8(UNI_REPLACEMENT_CHAR) \in Seq(Nat)
    <3>1. UNI_REPLACEMENT_CHAR \in Nat
      BY DEF UNI_REPLACEMENT_CHAR
    <3> HIDE DEF ch
    <3> QED BY <2>1, <3>1, NumberInUTF8, Zenon
  <2> DEFINE e == ToUTF8(ch)
             r == ToUTF8(UNI_REPLACEMENT_CHAR)
  <2>3. Stop("targetExhausted") \in Turns
    BY EmptySeq DEF Stop, Turns, Results4
  <2> HIDE DEF e, r
  <2>4. Turn(1, e) \in Turns
    BY <2>2 DEF Turn, Turns, Results4, e
  <2>5. [Turn(1, r) EXCEPT !.result = "sourceIllegal"] \in Turns
    BY <2>2 DEF Turn, Turns, Results4, r
  <2> HIDE DEF ch, room
  <2>6. WriteUTF8(1, ch, room) \in Turns
    BY <2>3, <2>4, Zenon DEF WriteUTF8, e
  <2>7. TurnUTF32toUTF8(c, size) \in {WriteUTF8(1, ch, room), Stop("targetExhausted"),
                                      [Turn(1, r) EXCEPT !.result = "sourceIllegal"]}
    BY Zenon DEF TurnUTF32toUTF8, ch, room, r
  <2> QED BY <2>3, <2>5, <2>6, <2>7
<1>2. step \in [States -> States]
  BY <1>1, GoesOn
<1>3. N \in Nat
  OBVIOUS
<1>4. PICK g \in [0..N -> States] : IsRun(g, N, source) /\ \A n \in 1..N : g[n] = step[g[n - 1]]
  <2> HIDE DEF N, step
  <2> QED BY <1>2, <1>3, RunExists
<1>5. \A n \in 1..N : g[n] = WentOn(g[n - 1], TurnUTF32toUTF8(g[n - 1], size))
  <2> TAKE n \in 1..N
  <2>1. n - 1 \in 0..N
    OBVIOUS
  <2>2. g[n - 1] \in States
    BY <2>1
  <2> QED BY <1>4, <2>2
<1> HIDE DEF N, step
<1>6. ConvertUTF32toUTF8(source, size) = Ended(g[N])
  <2>1. Len(source) = N
    BY DEF N
  <2>2. IsRun(g, N, source)
    BY <1>4
  <2> QED BY <1>3, <1>5, <2>1, <2>2, RunOfUTF32toUTF8, Zenon
<1>7. g[N] \in States
  <2>1. N \in 0..N
    BY <1>3
  <2> QED BY <2>1
<1> QED
  BY <1>6, <1>7 DEF Ended, States

-----------------------------------------------------------------------------
(* The bytes that begin a legal sequence, by the length it then has, and   *)
(* those that follow.                                                      *)
Lead(a, n) ==
    /\ a \in Nat
    /\ n = 0 => a < 128
    /\ n = 1 => a >= 194 /\ a <= 223
    /\ n = 2 => a >= 224 /\ a <= 239
    /\ n = 3 => a >= 240 /\ a <= 244

Continues(b) == b >= 128 /\ b <= 191

(* What isLegalUTF8 asks of the second byte.                               *)
SecondFits(a, b) ==
    /\ b <= 191
    /\ a = 224 => b >= 160
    /\ a = 237 => b <= 159
    /\ a = 240 => b >= 144
    /\ a = 244 => b <= 143
    /\ a # 224 /\ a # 237 /\ a # 240 /\ a # 244 => b >= 128

(* A byte tells how long a sequence it begins.                             *)
LEMMA FirstBytes ==
    ASSUME NEW a \in Nat
    PROVE  /\ trailingBytesForUTF8(a) \in 0..5
           /\ trailingBytesForUTF8(a) = 0 => a < 192
           /\ trailingBytesForUTF8(a) = 1 => a >= 192 /\ a <= 223
           /\ trailingBytesForUTF8(a) = 2 => a >= 224 /\ a <= 239
           /\ trailingBytesForUTF8(a) = 3 => a >= 240
BY SMT DEF trailingBytesForUTF8

(* No legal sequence begins with a byte that only follows others, or one   *)
(* that begins something overlong or past the last character.              *)
LEMMA LegalFirst ==
    ASSUME NEW e, e[1] \in Nat, isLegalUTF8(e)
    PROVE  Lead(e[1], trailingBytesForUTF8(e[1])) /\ Len(e) <= 4
<1> DEFINE a == e[1]
<1>1. a \notin 128..193 /\ a <= 244 /\ Len(e) <= 4
  BY Zenon DEF isLegalUTF8
<1>2. a \in Nat
  OBVIOUS
<1> HIDE DEF a
<1>3. ~(a >= 128 /\ a <= 193)
  BY <1>1, <1>2, SMT
<1>4. Lead(a, trailingBytesForUTF8(a))
  BY <1>1, <1>2, <1>3, FirstBytes, SMT DEF Lead
<1> QED
  BY <1>1, <1>4, Zenon DEF a

(* It asks that of the second byte of every legal sequence of more.        *)
LEMMA LegalSecond ==
    ASSUME NEW e, isLegalUTF8(e), Len(e) > 1
    PROVE  SecondFits(e[1], e[2])
<1> DEFINE a == e[1]
           b == e[2]
<1>1. /\ b <= 191
      /\ CASE a = 224 -> b >= 160
           [] a = 237 -> b <= 159
           [] a = 240 -> b >= 144
           [] a = 244 -> b <= 143
           [] OTHER   -> b >= 128
  BY Zenon DEF isLegalUTF8
<1> HIDE DEF a, b
<1>2. SecondFits(a, b)
  BY <1>1, SMT DEF SecondFits
<1> QED
  BY <1>2, Zenon DEF a, b

(* Every byte after the second is one that follows others.                 *)
LEMMA LegalTail ==
    ASSUME NEW e, isLegalUTF8(e), NEW i \in 3..Len(e), e[i] \in Nat
    PROVE  Continues(e[i])
<1> DEFINE b == e[i]
<1>1. b \in 128..191
  <2>1. \A j \in 3..Len(e) : e[j] \in 128..191
    BY Zenon DEF isLegalUTF8
  <2> QED BY <2>1, SMT
<1> HIDE DEF b
<1>2. Continues(b)
  BY <1>1, SMT DEF Continues
<1> QED
  BY <1>2, Zenon DEF b

-----------------------------------------------------------------------------
(* The characters of each number of bytes.                                 *)
TakesOne(c)   == c \in Nat /\ c <= 127
TakesTwo(c)   == c \in Nat /\ c >= 128 /\ c <= 2047
TakesThree(c) == c \in Nat /\ c >= 2048 /\ c <= 65535 /\ (c < 55296 \/ c > 57343)
TakesFour(c)  == c \in Nat /\ c >= 65536 /\ c <= UNI_MAX_LEGAL_UTF32

(* The surrogates lie between these bounds.                                *)
LEMMA SurrogateBounds ==
    ASSUME NEW c \in Nat, c \in Surrogates
    PROVE  c >= 55296 /\ c <= 57343
<1>1. CASE c \in HighSurrogates
  BY <1>1, SMT DEF HighSurrogates
<1>2. CASE c \in LowSurrogates
  BY <1>2, SMT DEF LowSurrogates
<1> QED
  BY <1>1, <1>2 DEF Surrogates

(* A character outside ASCII.                                              *)
Multibyte(c) == c \in Nat /\ IsCharacter(c) /\ c \notin 1..126

(* They are characters; the byte-order marker takes three bytes, and what  *)
(* takes more than one is not in ASCII.                                    *)
LEMMA SizesOfCharacters ==
    ASSUME NEW c
    PROVE  /\ TakesOne(c) => c \in Nat /\ IsCharacter(c) /\ c # ByteOrderMark
           /\ TakesTwo(c) => Multibyte(c) /\ c # ByteOrderMark
           /\ TakesThree(c) => Multibyte(c)
           /\ TakesFour(c) => Multibyte(c) /\ c # ByteOrderMark
<1> DEFINE any  == TakesOne(c) \/ TakesTwo(c) \/ TakesThree(c) \/ TakesFour(c)
           many == TakesTwo(c) \/ TakesThree(c) \/ TakesFour(c)
<1>1. any => c \in Nat /\ c <= UNI_MAX_LEGAL_UTF32
  BY SMT DEF TakesOne, TakesTwo, TakesThree, TakesFour, UNI_MAX_LEGAL_UTF32
<1>2. any => c < 55296 \/ c > 57343
  BY SMT DEF TakesOne, TakesTwo, TakesThree, TakesFour
<1>3. any => c \notin Surrogates
  BY <1>1, <1>2, SurrogateBounds, SMT
<1>4. (TakesOne(c) \/ TakesTwo(c) \/ TakesFour(c)) => c # ByteOrderMark
  BY SMT DEF TakesOne, TakesTwo, TakesFour, ByteOrderMark
<1>5. many => c \notin 1..126
  BY SMT DEF TakesTwo, TakesThree, TakesFour
<1> QED
  BY <1>1, <1>3, <1>4, <1>5, Zenon DEF IsCharacter, Multibyte

(* What the converter makes of two, three and four bytes.                  *)
Sum2(a, b)       == a * 64 + b - offsetsFromUTF8[2]
Sum3(a, b, c)    == a * 4096 + b * 64 + c - offsetsFromUTF8[3]
Sum4(a, b, c, d) == a * 262144 + b * 4096 + c * 64 + d - offsetsFromUTF8[4]

(* Two bytes make a character of two bytes.                                *)
LEMMA TwoByteSum ==
    ASSUME NEW a, NEW b \in Nat, Lead(a, 1), SecondFits(a, b)
    PROVE  TakesTwo(Sum2(a, b))
BY SMT DEF Sum2, Lead, SecondFits, offsetsFromUTF8, TakesTwo

(* The three bytes of the byte-order marker.                               *)
MarkerOf(a, b, c) == a = 239 /\ b = 187 /\ c = 191

(* Three bytes make one of three bytes, and no half of a pair; only one    *)
(* sequence of three makes the byte-order marker.                          *)
LEMMA ThreeByteSum ==
    ASSUME NEW a, NEW b \in Nat, NEW c \in Nat, Lead(a, 2), SecondFits(a, b), Continues(c)
    PROVE  /\ TakesThree(Sum3(a, b, c))
           /\ Sum3(a, b, c) = ByteOrderMark <=> MarkerOf(a, b, c)
<1>1. TakesThree(Sum3(a, b, c))
  BY SMT DEF Sum3, Lead, SecondFits, Continues, offsetsFromUTF8, TakesThree
<1>2. /\ a \in Nat /\ a <= 239 /\ b <= 191 /\ c <= 191
      /\ a = 239 => b >= 128
  BY SMT DEF Lead, SecondFits, Continues
<1> DEFINE x == (a - 239) * 4096 + (b - 187) * 64 + (c - 191)
<1>3. Sum3(a, b, c) = x + ByteOrderMark
  BY <1>2, SMT DEF Sum3, offsetsFromUTF8, ByteOrderMark
<1>4. ByteOrderMark \in Int
  BY DEF ByteOrderMark
<1>5. CASE a < 239
  <2>1. x < 0 /\ x \in Int
    BY <1>2, <1>5, SMT
  <2>2. ~MarkerOf(a, b, c)
    BY <1>5 DEF MarkerOf
  <2> HIDE DEF x
  <2>3. Sum3(a, b, c) # ByteOrderMark
    BY <1>3, <1>4, <2>1, SMT
  <2> QED BY <1>1, <2>2, <2>3, Zenon
<1>6. CASE a = 239
  <2>1. x = (b - 187) * 64 + (c - 191) /\ x \in Int
    BY <1>6, SMT
  <2>2. c >= 128
    BY SMT DEF Continues
  <2>3. x = 0 <=> b = 187 /\ c = 191
    BY <1>2, <2>1, <2>2, SMT
  <2> HIDE DEF x
  <2>4. Sum3(a, b, c) = ByteOrderMark <=> x = 0
    BY <1>3, <1>4, <2>1, SMT
  <2>5. MarkerOf(a, b, c) <=> b = 187 /\ c = 191
    BY <1>6, SMT DEF MarkerOf
  <2> QED BY <1>1, <2>3, <2>4, <2>5, Zenon
<1> QED
  BY <1>1, <1>2, <1>5, <1>6, SMT

(* Four bytes make one outside the basic plane.                            *)
LEMMA FourByteSum ==
    ASSUME NEW a, NEW b \in Nat, NEW c \in Nat, NEW d \in Nat,
           Lead(a, 3), SecondFits(a, b), Continues(c), Continues(d)
    PROVE  TakesFour(Sum4(a, b, c, d))
BY SMT DEF Sum4, Lead, SecondFits, Continues, offsetsFromUTF8, TakesFour, UNI_MAX_LEGAL_UTF32

(* The sum that the converter makes of a sequence, by its length.          *)
LEMMA SumByLength ==
    ASSUME NEW e
    PROVE  /\ Len(e) = 1 => FromUTF8(e) = e[1]
           /\ Len(e) = 2 => FromUTF8(e) = Sum2(e[1], e[2])
           /\ Len(e) = 3 => FromUTF8(e) = Sum3(e[1], e[2], e[3])
           /\ Len(e) = 4 => FromUTF8(e) = Sum4(e[1], e[2], e[3], e[4])
BY SMT DEF FromUTF8, Sum2, Sum3, Sum4

-----------------------------------------------------------------------------
(* A legal sequence of one byte is that byte.                              *)
LEMMA LegalOfOne ==
    ASSUME NEW e \in Seq(Nat), Len(e) = 1, trailingBytesForUTF8(e[1]) = 0, isLegalUTF8(e)
    PROVE  FromUTF8(e) = e[1] /\ TakesOne(e[1])
<1>1. e[1] \in Nat
  <2>1. 1 \in 1..Len(e)
    OBVIOUS
  <2> QED BY <2>1, ElementOfSeq, Zenon
<1>2. Lead(e[1], 0)
  BY <1>1, LegalFirst, Zenon
<1>3. \A a : Lead(a, 0) => TakesOne(a)
  BY SMT DEF Lead, TakesOne
<1> QED
  BY <1>2, <1>3, SumByLength, Zenon

(* One of two bytes is a character above ASCII.                            *)
LEMMA LegalOfTwo ==
    ASSUME NEW e \in Seq(Nat), Len(e) = 2, trailingBytesForUTF8(e[1]) = 1, isLegalUTF8(e)
    PROVE  TakesTwo(FromUTF8(e))
<1>1. 1 \in 1..Len(e) /\ 2 \in 1..Len(e) /\ Len(e) > 1
  OBVIOUS
<1>2. e[1] \in Nat /\ e[2] \in Nat
  BY <1>1, ElementOfSeq, Zenon
<1>3. Lead(e[1], 1) /\ SecondFits(e[1], e[2])
  BY <1>1, <1>2, LegalFirst, LegalSecond, Zenon
<1>4. TakesTwo(Sum2(e[1], e[2]))
  BY <1>2, <1>3, TwoByteSum, Zenon
<1> QED
  BY <1>4, SumByLength, Zenon

(* One of three bytes is no surrogate, and the byte-order marker only as   *)
(* itself.                                                                 *)
LEMMA LegalOfThree ==
    ASSUME NEW e \in Seq(Nat), Len(e) = 3, trailingBytesForUTF8(e[1]) = 2, isLegalUTF8(e)
    PROVE  /\ TakesThree(FromUTF8(e))
           /\ FromUTF8(e) = ByteOrderMark <=> MarkerOf(e[1], e[2], e[3])
<1>1. 1 \in 1..Len(e) /\ 2 \in 1..Len(e) /\ 3 \in 1..Len(e) /\ 3 \in 3..Len(e) /\ Len(e) > 1
  OBVIOUS
<1>2. e[1] \in Nat /\ e[2] \in Nat /\ e[3] \in Nat
  BY <1>1, ElementOfSeq, Zenon
<1>3. Lead(e[1], 2) /\ SecondFits(e[1], e[2]) /\ Continues(e[3])
  BY <1>1, <1>2, LegalFirst, LegalSecond, LegalTail, Zenon
<1>4. /\ TakesThree(Sum3(e[1], e[2], e[3]))
      /\ Sum3(e[1], e[2], e[3]) = ByteOrderMark <=> MarkerOf(e[1], e[2], e[3])
  BY <1>2, <1>3, ThreeByteSum, Zenon
<1> QED
  BY <1>4, SumByLength, Zenon

(* One of four bytes is outside the basic plane.                           *)
LEMMA LegalOfFour ==
    ASSUME NEW e \in Seq(Nat), Len(e) = 4, trailingBytesForUTF8(e[1]) = 3, isLegalUTF8(e)
    PROVE  TakesFour(FromUTF8(e))
<1>1. /\ 1 \in 1..Len(e) /\ 2 \in 1..Len(e) /\ 3 \in 1..Len(e) /\ 4 \in 1..Len(e)
      /\ 3 \in 3..Len(e) /\ 4 \in 3..Len(e) /\ Len(e) > 1
  OBVIOUS
<1>2. e[1] \in Nat /\ e[2] \in Nat /\ e[3] \in Nat /\ e[4] \in Nat
  BY <1>1, ElementOfSeq, Zenon
<1>3. Lead(e[1], 3) /\ SecondFits(e[1], e[2]) /\ Continues(e[3]) /\ Continues(e[4])
  BY <1>1, <1>2, LegalFirst, LegalSecond, LegalTail, Zenon
<1>4. TakesFour(Sum4(e[1], e[2], e[3], e[4]))
  BY <1>2, <1>3, FourByteSum, Zenon
<1> QED
  BY <1>4, SumByLength, Zenon

(* A sequence is the byte-order marker if its three bytes are.             *)
LEMMA MarkerBytes ==
    ASSUME NEW e \in Seq(Nat)
    PROVE  e = BOM <=> Len(e) = 3 /\ MarkerOf(e[1], e[2], e[3])
<1>1. BOM \in Seq(Nat) /\ Len(BOM) = 3 /\ BOM[1] = 239 /\ BOM[2] = 187 /\ BOM[3] = 191
  BY DEF BOM
<1>2. ASSUME Len(e) = 3, e[1] = 239, e[2] = 187, e[3] = 191 PROVE e = BOM
  <2>1. Len(e) = Len(BOM)
    BY <1>1, <1>2
  <2>2. \A i \in 1..Len(e) : e[i] = BOM[i]
    BY <1>1, <1>2
  <2>3. BOM \in Seq(Nat)
    BY <1>1
  <2> QED BY <2>1, <2>2, <2>3, SeqEqual, Zenon
<1> QED
  BY <1>1, <1>2 DEF MarkerOf

(* The character of a legal sequence is one, of ASCII only if it takes one *)
(* byte, and the byte-order marker only if the sequence is the marker.     *)
LEMMA LegalCharacter ==
    ASSUME NEW e \in Seq(Nat), Len(e) = trailingBytesForUTF8(e[1]) + 1, isLegalUTF8(e)
    PROVE  /\ FromUTF8(e) \in Nat /\ IsCharacter(FromUTF8(e))
           /\ FromUTF8(e) = ByteOrderMark <=> e = BOM
           /\ ASCIIof(e) = IF FromUTF8(e) \in 1..126 THEN FromUTF8(e) ELSE QuestionMark
<1> DEFINE n == trailingBytesForUTF8(e[1])
           ch == FromUTF8(e)
<1>1. n \in {0, 1, 2, 3, 4, 5}
  BY SMT DEF trailingBytesForUTF8
<1>2. Len(e) = n + 1 /\ Len(e) <= 4
  <2>1. Len(e) \in Nat /\ Len(e) = n + 1
    OBVIOUS
  <2>2. Len(e) >= 1
    BY <1>1, <2>1
  <2>3. e[1] \in Nat
    <3>1. 1 \in 1..Len(e)
      BY <2>1, <2>2
    <3> QED BY <3>1, ElementOfSeq, Zenon
  <2> QED BY <2>1, <2>3, LegalFirst, Zenon
<1> HIDE DEF n, ch
<1>3. n = 0 \/ n = 1 \/ n = 2 \/ n = 3
  BY <1>1, <1>2
<1>4. CASE n = 0
  <2>1. Len(e) = 1 /\ trailingBytesForUTF8(e[1]) = 0
    BY <1>2, <1>4 DEF n
  <2>2. ch = e[1] /\ TakesOne(ch)
    BY <2>1, LegalOfOne, Zenon DEF ch
  <2>3. ch \in Nat /\ IsCharacter(ch) /\ ch # ByteOrderMark
    BY <2>2, SizesOfCharacters, Zenon
  <2>4. ASCIIof(e) = IF ch \in 1..126 THEN ch ELSE QuestionMark
    BY <2>1, <2>2, Zenon DEF ASCIIof
  <2>5. e # BOM
    BY <2>1, MarkerBytes
  <2> QED BY <2>3, <2>4, <2>5, Zenon DEF ch
<1>5. CASE n = 1
  <2>1. Len(e) = 2 /\ trailingBytesForUTF8(e[1]) = 1
    BY <1>2, <1>5 DEF n
  <2>2. TakesTwo(ch)
    BY <2>1, LegalOfTwo, Zenon DEF ch
  <2>3. ch \in Nat /\ IsCharacter(ch) /\ ch # ByteOrderMark /\ ch \notin 1..126
    BY <2>2, SizesOfCharacters, Zenon DEF Multibyte
  <2>4. Len(e) # 1 /\ Len(e) # 3
    BY <2>1
  <2>5. ASCIIof(e) = QuestionMark /\ e # BOM
    BY <2>4, MarkerBytes, Zenon DEF ASCIIof
  <2> QED BY <2>3, <2>5, Zenon DEF ch
<1>6. CASE n = 2
  <2>1. Len(e) = 3 /\ trailingBytesForUTF8(e[1]) = 2
    BY <1>2, <1>6 DEF n
  <2>2. TakesThree(ch) /\ (ch = ByteOrderMark <=> MarkerOf(e[1], e[2], e[3]))
    BY <2>1, LegalOfThree, Zenon DEF ch
  <2>3. ch \in Nat /\ IsCharacter(ch) /\ ch \notin 1..126
    BY <2>2, SizesOfCharacters, Zenon DEF Multibyte
  <2>4. ASCIIof(e) = QuestionMark
    BY <2>1 DEF ASCIIof
  <2>5. ch = ByteOrderMark <=> e = BOM
    BY <2>1, <2>2, MarkerBytes, Zenon
  <2> QED BY <2>3, <2>4, <2>5, Zenon DEF ch
<1>7. CASE n = 3
  <2>1. Len(e) = 4 /\ trailingBytesForUTF8(e[1]) = 3
    BY <1>2, <1>7 DEF n
  <2>2. TakesFour(ch)
    BY <2>1, LegalOfFour, Zenon DEF ch
  <2>3. ch \in Nat /\ IsCharacter(ch) /\ ch # ByteOrderMark /\ ch \notin 1..126
    BY <2>2, SizesOfCharacters, Zenon DEF Multibyte
  <2>4. Len(e) # 1 /\ Len(e) # 3
    BY <2>1
  <2>5. ASCIIof(e) = QuestionMark /\ e # BOM
    BY <2>4, MarkerBytes, Zenon DEF ASCIIof
  <2> QED BY <2>3, <2>5, Zenon DEF ch
<1> QED
  BY <1>3, <1>4, <1>5, <1>6, <1>7

-----------------------------------------------------------------------------
(* Walking over a string.  Behind(s, i) is where the sequence ends that    *)
(* begins at i; from each place on, shown is what the string has as ASCII  *)
(* text, up to a sequence that is not complete, and whole says that there  *)
(* is none.                                                                *)
Behind(s, i) == i + Used(s, i)

Walks(s, shown, whole) ==
    /\ shown \in [0..Len(s) -> Seq(Nat)] /\ whole \in [0..Len(s) -> BOOLEAN]
    /\ shown[Len(s)] = <<>> /\ whole[Len(s)]
    /\ \A i \in 0..(Len(s) - 1) :
          IF Behind(s, i) > Len(s) THEN shown[i] = <<>> /\ ~whole[i]
          ELSE /\ whole[i] = whole[Behind(s, i)]
               /\ shown[i] = IF AtBOM(s, i) THEN shown[Behind(s, i)]
                             ELSE <<ASCIIof(SubSeq(s, i + 1, Behind(s, i)))>> \o shown[Behind(s, i)]

(* A sequence ends behind where it begins.                                 *)
LEMMA BehindIt ==
    ASSUME NEW s \in Seq(Nat), NEW i \in 0..Len(s)
    PROVE  Behind(s, i) \in Int /\ Behind(s, i) > i
           /\ (~(Behind(s, i) > Len(s)) => Behind(s, i) \in 1..Len(s))
<1> DEFINE n == trailingBytesForUTF8(s[i + 1])
<1>1. n \in 0..5
  BY SMT DEF trailingBytesForUTF8
<1>2. Behind(s, i) = i + (n + 1)
  BY Zenon DEF Behind, Used
<1>3. Len(s) \in Nat
  OBVIOUS
<1> HIDE DEF n
<1> QED
  BY <1>1, <1>2, <1>3

(* What is shown of it is a number.                                        *)
LEMMA ShownNumber ==
    ASSUME NEW s \in Seq(Nat), NEW i \in 0..Len(s), ~(Behind(s, i) > Len(s))
    PROVE  ASCIIof(SubSeq(s, i + 1, Behind(s, i))) \in Nat
<1> DEFINE x == SubSeq(s, i + 1, Behind(s, i))
           c == x[1]
           r == IF Len(x) = 1 /\ c \in 1..126 THEN c ELSE QuestionMark
<1>1. ASCIIof(x) = r
  BY Zenon DEF ASCIIof
<1>2. QuestionMark \in Nat
  BY DEF QuestionMark
<1> HIDE DEF x, c
<1>3. c \in 1..126 => c \in Nat
  OBVIOUS
<1>4. r \in Nat
  BY <1>2, <1>3, Zenon
<1> QED BY <1>1, <1>4, Zenon DEF x, c

(* Every string is walked in one way, which is given by recursion.         *)
LEMMA Walked ==
    ASSUME NEW s \in Seq(Nat)
    PROVE  \E shown, whole : Walks(s, shown, whole)
<1> DEFINE S == 0..Len(s)
           V == Seq(Nat) \X BOOLEAN
           One(i) == ASCIIof(SubSeq(s, i + 1, Behind(s, i)))
           More(i, v) == IF AtBOM(s, i) THEN v ELSE <<<<One(i)>> \o v[1], v[2]>>
           Step(g, i) ==
               IF i = Len(s) THEN <<<<>>, TRUE>>
               ELSE IF Behind(s, i) > Len(s) THEN <<<<>>, FALSE>>
               ELSE More(i, g[Behind(s, i)])
           F == [g \in [S -> V] |-> [i \in S |-> Step(g, i)]]
           mu == [i \in S |-> Len(s) - i]
<1>1. Len(s) \in Nat
  OBVIOUS
<1>2. ASSUME NEW i \in S, ~(Behind(s, i) > Len(s))
      PROVE  Behind(s, i) \in S /\ mu[Behind(s, i)] < mu[i] /\ One(i) \in Nat
  <2>1. Behind(s, i) \in Int /\ Behind(s, i) > i /\ Behind(s, i) \in 1..Len(s)
    BY <1>2, BehindIt
  <2>2. One(i) \in Nat
    BY <1>2, ShownNumber
  <2> HIDE DEF One
  <2> QED BY <1>1, <2>1, <2>2
<1> HIDE DEF One
<1>3. ASSUME NEW v \in V PROVE v[1] \in Seq(Nat) /\ v[2] \in BOOLEAN
  OBVIOUS
<1>4. <<<<>>, TRUE>> \in V /\ <<<<>>, FALSE>> \in V
  BY EmptySeq
<1>5. ASSUME NEW i \in S, ~(Behind(s, i) > Len(s)), NEW v \in V PROVE More(i, v) \in V
  <2>1. One(i) \in Nat /\ v[1] \in Seq(Nat) /\ v[2] \in BOOLEAN
    BY <1>2, <1>3, <1>5
  <2>2. <<One(i)>> \in Seq(Nat)
    BY <2>1
  <2>3. <<One(i)>> \o v[1] \in Seq(Nat)
    BY <2>1, <2>2, Joined, Zenon
  <2>4. <<<<One(i)>> \o v[1], v[2]>> \in V
    <3> DEFINE x == <<One(i)>> \o v[1]
    <3> HIDE DEF x
    <3>1. x \in Seq(Nat)
      BY <2>3 DEF x
    <3>2. <<x, v[2]>> \in V
      BY <2>1, <3>1
    <3> QED BY <3>2 DEF x
  <2> HIDE DEF V
  <2> QED BY <1>5, <2>4
<1>6. ASSUME NEW i \in S, NEW g \in [S -> V] PROVE Step(g, i) \in V
  <2>1. CASE i = Len(s)
    BY <1>4, <2>1, Zenon
  <2>2. CASE i # Len(s) /\ Behind(s, i) > Len(s)
    BY <1>4, <2>2, Zenon
  <2>3. CASE i # Len(s) /\ ~(Behind(s, i) > Len(s))
    <3>1. Behind(s, i) \in S
      BY <1>2, <2>3
    <3>2. g[Behind(s, i)] \in V
      <4> HIDE DEF S, V
      <4> QED BY <3>1
    <3>3. More(i, g[Behind(s, i)]) \in V
      BY <1>5, <2>3, <3>2
    <3> HIDE DEF More, V, S
    <3> QED BY <2>3, <3>3, Zenon
  <2> QED BY <2>1, <2>2, <2>3
<1>7. F \in [[S -> V] -> [S -> V]]
  <2> HIDE DEF S, V, Step
  <2> QED BY <1>6
<1>8. \A i \in S : \A g, h \in [S -> V] :
          (\A j \in S : mu[j] < mu[i] => g[j] = h[j]) => F[g][i] = F[h][i]
  <2> TAKE i \in S
  <2> TAKE g, h \in [S -> V]
  <2> HAVE \A j \in S : mu[j] < mu[i] => g[j] = h[j]
  <2>1. ~(Behind(s, i) > Len(s)) => g[Behind(s, i)] = h[Behind(s, i)]
    <3>1. ~(Behind(s, i) > Len(s)) => Behind(s, i) \in S /\ mu[Behind(s, i)] < mu[i]
      BY <1>2
    <3> HIDE DEF S, V, mu
    <3> QED BY <3>1
  <2>2. Step(g, i) = Step(h, i)
    <3> HIDE DEF S, V, More
    <3> QED BY <2>1
  <2> HIDE DEF S, V, Step
  <2> QED BY <2>2
<1>9. PICK f \in [S -> V] : F[f] = f
  <2>1. mu \in [S -> Nat]
    BY <1>1
  <2>2. V # {}
    <3> HIDE DEF V
    <3> QED BY <1>4
  <2> HIDE DEF S, V, F, mu
  <2>3. DependsBelow(S, mu, V, F)
    BY <2>1, <2>2, <1>7, <1>8 DEF DependsBelow
  <2> QED BY <2>3, Recursion
<1>10. \A i \in S : f[i] = Step(f, i) /\ f[i] \in V
  <2> HIDE DEF S, V, Step
  <2> QED BY <1>9
<1> DEFINE shown == [i \in S |-> f[i][1]]
           whole == [i \in S |-> f[i][2]]
<1>11. shown \in [S -> Seq(Nat)] /\ whole \in [S -> BOOLEAN]
  <2> HIDE DEF S, V
  <2> QED BY <1>3, <1>10
<1>12. shown[Len(s)] = <<>> /\ whole[Len(s)]
  <2>1. Len(s) \in S
    BY <1>1
  <2>2. f[Len(s)] = <<<<>>, TRUE>>
    <3>1. f[Len(s)] = Step(f, Len(s))
      <4> HIDE DEF S, Step
      <4> QED BY <1>10, <2>1
    <3> HIDE DEF S, V, More
    <3> QED BY <3>1
  <2>3. f[Len(s)][1] = <<>> /\ f[Len(s)][2] = TRUE
    <3> DEFINE v == f[Len(s)]
    <3>1. v = <<<<>>, TRUE>>
      BY <2>2
    <3> HIDE DEF v
    <3>2. v[1] = <<>> /\ v[2] = TRUE
      BY <3>1
    <3> QED BY <3>2 DEF v
  <2>4. shown[Len(s)] = f[Len(s)][1] /\ whole[Len(s)] = f[Len(s)][2]
    <3> HIDE DEF S
    <3> QED BY <2>1
  <2> HIDE DEF shown, whole
  <2> QED BY <2>3, <2>4
<1>13. ASSUME NEW i \in 0..(Len(s) - 1)
       PROVE  IF Behind(s, i) > Len(s) THEN shown[i] = <<>> /\ ~whole[i]
              ELSE /\ whole[i] = whole[Behind(s, i)]
                   /\ shown[i] = IF AtBOM(s, i) THEN shown[Behind(s, i)]
                                 ELSE <<One(i)>> \o shown[Behind(s, i)]
  <2>1. i \in S /\ i # Len(s)
    BY <1>1
  <2>2. f[i] = Step(f, i)
    BY <1>10, <2>1
  <2>3. CASE Behind(s, i) > Len(s)
    <3>1. f[i] = <<<<>>, FALSE>>
      <4> HIDE DEF S, V, More
      <4> QED BY <2>1, <2>2, <2>3
    <3> DEFINE v == f[i]
    <3>2. v = <<<<>>, FALSE>>
      BY <3>1
    <3> HIDE DEF v
    <3>3. v[1] = <<>> /\ v[2] = FALSE
      BY <3>2
    <3>4. shown[i] = v[1] /\ whole[i] = v[2]
      <4> HIDE DEF S
      <4> QED BY <2>1 DEF v
    <3> HIDE DEF shown, whole
    <3> QED BY <2>3, <3>3, <3>4
  <2>4. CASE ~(Behind(s, i) > Len(s))
    <3>1. Behind(s, i) \in S
      BY <1>2, <2>1, <2>4
    <3>2. f[i] = More(i, f[Behind(s, i)])
      <4> HIDE DEF S, V, More
      <4> QED BY <2>1, <2>2, <2>4
    <3>3. CASE AtBOM(s, i)
      <4>1. f[i] = f[Behind(s, i)]
        BY <3>2, <3>3
      <4> QED BY <2>1, <2>4, <3>1, <3>3, <4>1
    <3>4. CASE ~AtBOM(s, i)
      <4> DEFINE v == f[Behind(s, i)]
      <4>1. f[i] = <<<<One(i)>> \o v[1], v[2]>>
        BY <3>2, <3>4
      <4>2. f[i][1] = <<One(i)>> \o v[1] /\ f[i][2] = v[2]
        <5> HIDE DEF v
        <5> QED BY <4>1
      <4> QED BY <2>1, <2>4, <3>1, <3>4, <4>2
    <3> QED BY <3>3, <3>4
  <2> QED BY <2>3, <2>4
<1> HIDE DEF shown, whole
<1>14. Walks(s, shown, whole)
  BY <1>11, <1>12, <1>13 DEF Walks, One
<1> QED
  BY <1>14

-----------------------------------------------------------------------------
(* Two functions that are the same wherever they are so at all smaller     *)
(* places are the same everywhere.                                         *)
SameFromBelow(S, mu, f, g) ==
    \A x \in S : (\A y \in S : mu[y] < mu[x] => f[y] = g[y]) => f[x] = g[x]

(* By induction over the size.                                             *)
LEMMA Determined ==
    ASSUME NEW S, NEW mu \in [S -> Nat], NEW f, NEW g, SameFromBelow(S, mu, f, g)
    PROVE  \A x \in S : f[x] = g[x]
<1> USE DEF SameFromBelow
<1> DEFINE B == {x \in S : f[x] # g[x]}
           T == {mu[x] : x \in B}
<1> SUFFICES ASSUME B # {} PROVE FALSE
  OBVIOUS
<1>1. T \in SUBSET Nat /\ T # {}
  OBVIOUS
<1>2. PICK n \in T : \A k \in T : n <= k
  <2> HIDE DEF T
  <2> QED BY <1>1, Least
<1>3. PICK x \in B : n = mu[x]
  BY <1>2
<1>4. ASSUME NEW y \in S, mu[y] < mu[x] PROVE f[y] = g[y]
  <2>1. mu[y] \in Nat /\ mu[x] \in Nat
    OBVIOUS
  <2>2. y \in B => mu[x] <= mu[y]
    BY <1>2, <1>3
  <2> QED BY <1>4, <2>1, <2>2
<1>5. x \in S /\ f[x] # g[x]
  OBVIOUS
<1> HIDE DEF B
<1> QED
  BY <1>4, <1>5

(* One place of a walk.                                                    *)
WalkAt(s, shown, whole, i) ==
    /\ shown[i] \in Seq(Nat) /\ Len(shown[i]) \in Nat /\ whole[i] \in BOOLEAN
    /\ i = Len(s) => shown[i] = <<>> /\ whole[i]
    /\ i # Len(s) /\ Behind(s, i) > Len(s) => shown[i] = <<>> /\ ~whole[i]
    /\ i # Len(s) /\ ~(Behind(s, i) > Len(s)) =>
          /\ Behind(s, i) \in 0..Len(s) /\ Len(s) - Behind(s, i) < Len(s) - i
          /\ whole[i] = whole[Behind(s, i)]
          /\ shown[Behind(s, i)] \in Seq(Nat) /\ Len(shown[Behind(s, i)]) \in Nat
          /\ ASCIIof(SubSeq(s, i + 1, Behind(s, i))) \in Nat
          /\ AtBOM(s, i) => shown[i] = shown[Behind(s, i)]
          /\ ~AtBOM(s, i) =>
                /\ shown[i] = <<ASCIIof(SubSeq(s, i + 1, Behind(s, i)))>> \o shown[Behind(s, i)]
                /\ Len(shown[i]) = Len(shown[Behind(s, i)]) + 1

(* That is what a walk says of each place of it.                           *)
LEMMA PlaceOfWalk ==
    ASSUME NEW s \in Seq(Nat), NEW shown, NEW whole, Walks(s, shown, whole), NEW i \in 0..Len(s)
    PROVE  WalkAt(s, shown, whole, i)
<1> DEFINE b == Behind(s, i)
           n == Len(s)
           c == ASCIIof(SubSeq(s, i + 1, Behind(s, i)))
<1>1. /\ \A j \in 0..n : shown[j] \in Seq(Nat) /\ whole[j] \in BOOLEAN
      /\ shown[n] = <<>> /\ whole[n] /\ n \in Nat
  <2>1. shown \in [0..n -> Seq(Nat)] /\ whole \in [0..n -> BOOLEAN] /\ shown[n] = <<>> /\ whole[n]
    BY Zenon DEF Walks
  <2>2. n \in Nat
    OBVIOUS
  <2> HIDE DEF n
  <2> QED BY <2>1, <2>2
<1>2. shown[i] \in Seq(Nat) /\ Len(shown[i]) \in Nat /\ whole[i] \in BOOLEAN
  BY <1>1
<1>3. b \in Int /\ b > i /\ (~(b > n) => b \in 1..n)
  BY BehindIt
<1>4. i # n =>
         IF b > n THEN shown[i] = <<>> /\ ~whole[i]
         ELSE /\ whole[i] = whole[b]
              /\ shown[i] = IF AtBOM(s, i) THEN shown[b] ELSE <<c>> \o shown[b]
  <2>1. i # n => i \in 0..(Len(s) - 1)
    BY <1>1
  <2> QED BY <2>1, Zenon DEF Walks
<1>5. ~(b > n) => c \in Nat
  BY ShownNumber
<1> HIDE DEF b, n, c
<1>6. i \in 0..n
  BY DEF n
<1>7. ASSUME i # n, ~(b > n)
      PROVE  /\ b \in 0..n /\ n - b < n - i /\ whole[i] = whole[b]
             /\ shown[b] \in Seq(Nat) /\ Len(shown[b]) \in Nat /\ c \in Nat
             /\ AtBOM(s, i) => shown[i] = shown[b]
             /\ ~AtBOM(s, i) => shown[i] = <<c>> \o shown[b] /\ Len(shown[i]) = Len(shown[b]) + 1
  <2>1. b \in 0..n /\ n - b < n - i
    BY <1>1, <1>3, <1>6, <1>7
  <2>2. shown[b] \in Seq(Nat) /\ c \in Nat
    BY <1>1, <1>5, <1>7, <2>1
  <2>3. Len(shown[b]) \in Nat
    BY <2>2
  <2>4. Len(<<c>> \o shown[b]) = Len(shown[b]) + 1
    <3>1. <<c>> \in Seq(Nat) /\ Len(<<c>>) = 1
      BY <2>2
    <3>2. Len(<<c>> \o shown[b]) = Len(<<c>>) + Len(shown[b])
      BY <2>2, <3>1, Joined, Zenon
    <3> QED BY <2>3, <3>1, <3>2
  <2> QED BY <1>4, <1>7, <2>1, <2>2, <2>3, <2>4, Zenon
<1> QED
  BY <1>1, <1>2, <1>4, <1>7, Zenon DEF WalkAt, b, n, c

(* FudgeString_getLength finds the length of what is shown.                *)
LengthAt(s, g, i) ==
    LET rest == g[Behind(s, i)]
    IN  IF i = Len(s) THEN 0
        ELSE IF Behind(s, i) > Len(s) \/ rest = -1 THEN -1
        ELSE IF AtBOM(s, i) THEN rest ELSE rest + 1

(* The length of what is shown, and -1 if the string is not whole.         *)
LEMMA LengthWalked ==
    ASSUME NEW s \in Seq(Nat), NEW shown, NEW whole, Walks(s, shown, whole)
    PROVE  GetLength(s) = IF whole[0] THEN Len(shown[0]) ELSE -1
<1> DEFINE n == Len(s)
           S == 0..Len(s)
           There(i) == IF whole[i] THEN Len(shown[i]) ELSE -1
           l == [i \in S |-> There(i)]
           length == CHOOSE f : f = [i \in S |-> LengthAt(s, f, i)]
           mu == [i \in S |-> Len(s) - i]
<1>1. \A i \in S : WalkAt(s, shown, whole, i)
  BY PlaceOfWalk
<1>2. ASSUME NEW i \in S PROVE There(i) = LengthAt(s, l, i)
  <2> DEFINE b == Behind(s, i)
  <2>1. WalkAt(s, shown, whole, i)
    BY <1>1
  <2>2. CASE i = n
    <3>1. LengthAt(s, l, i) = 0
      BY <2>2, Zenon DEF LengthAt
    <3>2. whole[i] /\ shown[i] = <<>>
      BY <2>1, <2>2, Zenon DEF WalkAt
    <3> QED BY <3>1, <3>2
  <2>3. CASE i # n /\ b > n
    <3>1. LengthAt(s, l, i) = -1
      BY <2>3, Zenon DEF LengthAt
    <3>2. ~whole[i]
      BY <2>1, <2>3, Zenon DEF WalkAt
    <3> QED BY <3>1, <3>2
  <2>4. CASE i # n /\ ~(b > n)
    <3>1. /\ b \in S /\ whole[i] = whole[b] /\ Len(shown[b]) \in Nat /\ whole[i] \in BOOLEAN
          /\ AtBOM(s, i) => shown[i] = shown[b]
          /\ ~AtBOM(s, i) => Len(shown[i]) = Len(shown[b]) + 1
      BY <2>1, <2>4, Zenon DEF WalkAt
    <3>2. l[b] = IF whole[b] THEN Len(shown[b]) ELSE -1
      <4> HIDE DEF S, b
      <4> QED BY <3>1
    <3>3. LengthAt(s, l, i) = IF l[b] = -1 THEN -1 ELSE IF AtBOM(s, i) THEN l[b] ELSE l[b] + 1
      <4> HIDE DEF l
      <4> QED BY <2>4, Zenon DEF LengthAt
    <3> DEFINE lb == l[b]
               k == Len(shown[b])
    <3> HIDE DEF l, b
    <3>4. CASE whole[i]
      <4>1. lb = k /\ k \in Nat
        BY <3>1, <3>2, <3>4
      <4> HIDE DEF lb, k
      <4>2. lb # -1
        BY <4>1
      <4>3. LengthAt(s, l, i) = IF AtBOM(s, i) THEN lb ELSE lb + 1
        BY <3>3, <4>2 DEF lb
      <4>4. There(i) = Len(shown[i])
        BY <3>4
      <4>5. CASE AtBOM(s, i)
        BY <3>1, <4>1, <4>3, <4>4, <4>5 DEF k
      <4>6. CASE ~AtBOM(s, i)
        <5>1. Len(shown[i]) = k + 1
          BY <3>1, <4>6 DEF k
        <5> QED BY <4>1, <4>3, <4>4, <4>6, <5>1
      <4> QED BY <4>5, <4>6
    <3>5. CASE ~whole[i]
      <4>1. l[b] = -1
        BY <3>1, <3>2, <3>5
      <4> QED BY <3>3, <3>5, <4>1
    <3> QED BY <3>4, <3>5
  <2> QED BY <2>2, <2>3, <2>4
<1>3. l = [i \in S |-> LengthAt(s, l, i)]
  <2> HIDE DEF S, There
  <2> QED BY <1>2
<1>4. length = [i \in S |-> LengthAt(s, length, i)]
  <2> HIDE DEF l
  <2> QED BY <1>3, Zenon
<1>5. GetLength(s) = length[0]
  BY Zenon DEF GetLength, LengthAt, Behind
<1> HIDE DEF length
<1>6. n \in Nat
  OBVIOUS
<1>7. mu \in [S -> Nat]
  BY <1>6
<1>8. ASSUME NEW i \in S, \A y \in S : mu[y] < mu[i] => length[y] = l[y]
      PROVE  length[i] = l[i]
  <2>1. length[i] = LengthAt(s, length, i) /\ l[i] = LengthAt(s, l, i)
    <3> HIDE DEF l, S
    <3> QED BY <1>3, <1>4, Zenon
  <2>2. i # n /\ ~(Behind(s, i) > n) => length[Behind(s, i)] = l[Behind(s, i)]
    <3>1. i # n /\ ~(Behind(s, i) > n) => Behind(s, i) \in S /\ n - Behind(s, i) < n - i
      BY <1>1, Zenon DEF WalkAt
    <3>2. i # n /\ ~(Behind(s, i) > n) => Behind(s, i) \in S /\ mu[Behind(s, i)] < mu[i]
      BY <3>1
    <3> HIDE DEF S, mu, l, n
    <3> QED BY <1>8, <3>2
  <2> HIDE DEF l
  <2>3. LengthAt(s, length, i) = LengthAt(s, l, i)
    BY <2>2, Zenon DEF LengthAt
  <2> QED BY <2>1, <2>3
<1>9. \A i \in S : length[i] = l[i]
  <2> HIDE DEF S, mu, l
  <2>1. SameFromBelow(S, mu, length, l)
    BY <1>8 DEF SameFromBelow
  <2> QED BY <1>7, <2>1, Determined
<1>10. 0 \in S /\ l[0] = There(0)
  BY <1>6
<1> QED
  BY <1>5, <1>9, <1>10

-----------------------------------------------------------------------------
(* FudgeString_convertToASCIIZ makes what is shown of it.                  *)
Incomplete == Fail("STRING_INCOMPLETE_UNICODE")

AsciiAt(s, g, i) ==
    LET rest == g[Behind(s, i)]
    IN  IF i = Len(s) THEN Ok(<<>>)
        ELSE IF Behind(s, i) > Len(s) THEN Incomplete
        ELSE IF rest.status # "OK" \/ AtBOM(s, i) THEN rest
        ELSE Ok(<<ASCIIof(SubSeq(s, i + 1, Behind(s, i)))>> \o rest.value)

(* A result is one of success or of failure.                               *)
LEMMA ResultOrNot ==
    /\ \A t : Ok(t).status = "OK" /\ Ok(t).value = t
    /\ Incomplete.status # "OK"
BY DEF Ok, Fail, Incomplete

(* The ASCII text is what is shown, if the string is whole.                *)
LEMMA TextWalked ==
    ASSUME NEW s \in Seq(Nat), NEW shown, NEW whole, Walks(s, shown, whole)
    PROVE  ConvertToASCIIZ(s) = IF whole[0] THEN Ok(shown[0]) ELSE Incomplete
<1> DEFINE n == Len(s)
           S == 0..Len(s)
           There(i) == IF whole[i] THEN Ok(shown[i]) ELSE Incomplete
           l == [i \in S |-> There(i)]
           ascii == CHOOSE f : f = [i \in S |-> AsciiAt(s, f, i)]
           mu == [i \in S |-> Len(s) - i]
<1>1. \A i \in S : WalkAt(s, shown, whole, i)
  BY PlaceOfWalk
<1>2. ASSUME NEW i \in S PROVE There(i) = AsciiAt(s, l, i)
  <2> DEFINE b == Behind(s, i)
             c == ASCIIof(SubSeq(s, i + 1, Behind(s, i)))
  <2>1. WalkAt(s, shown, whole, i)
    BY <1>1
  <2>2. CASE i = n
    <3>1. AsciiAt(s, l, i) = Ok(<<>>)
      BY <2>2, Zenon DEF AsciiAt
    <3>2. whole[i] /\ shown[i] = <<>>
      BY <2>1, <2>2, Zenon DEF WalkAt
    <3> QED BY <3>1, <3>2, Zenon
  <2>3. CASE i # n /\ b > n
    <3>1. AsciiAt(s, l, i) = Incomplete
      BY <2>3, Zenon DEF AsciiAt
    <3>2. ~whole[i]
      BY <2>1, <2>3, Zenon DEF WalkAt
    <3> QED BY <3>1, <3>2, Zenon
  <2>4. CASE i # n /\ ~(b > n)
    <3>1. /\ b \in S /\ whole[i] = whole[b]
          /\ AtBOM(s, i) => shown[i] = shown[b]
          /\ ~AtBOM(s, i) => shown[i] = <<c>> \o shown[b]
      BY <2>1, <2>4, Zenon DEF WalkAt
    <3>2. l[b] = IF whole[b] THEN Ok(shown[b]) ELSE Incomplete
      <4> HIDE DEF S, b
      <4> QED BY <3>1
    <3>3. AsciiAt(s, l, i) = IF l[b].status # "OK" \/ AtBOM(s, i) THEN l[b]
                             ELSE Ok(<<c>> \o l[b].value)
      <4> HIDE DEF l
      <4> QED BY <2>4, Zenon DEF AsciiAt
    <3> HIDE DEF l, b, c
    <3>4. CASE whole[i]
      <4>1. l[b] = Ok(shown[b])
        BY <3>1, <3>2, <3>4, Zenon
      <4>2. l[b].status = "OK" /\ l[b].value = shown[b]
        BY <4>1, ResultOrNot, Zenon
      <4> QED BY <3>1, <3>3, <3>4, <4>1, <4>2, Zenon
    <3>5. CASE ~whole[i]
      <4>1. l[b] = Incomplete
        BY <3>1, <3>2, <3>5, Zenon
      <4> QED BY <3>3, <3>5, <4>1, ResultOrNot, Zenon
    <3> QED BY <3>4, <3>5
  <2> QED BY <2>2, <2>3, <2>4
<1>3. l = [i \in S |-> AsciiAt(s, l, i)]
  <2> HIDE DEF S, There
  <2> QED BY <1>2
<1>4. ascii = [i \in S |-> AsciiAt(s, ascii, i)]
  <2> HIDE DEF l
  <2> QED BY <1>3, Zenon
<1>5. ConvertToASCIIZ(s) = ascii[0]
  BY Zenon DEF ConvertToASCIIZ, AsciiAt, Behind, Incomplete
<1> HIDE DEF ascii
<1>6. n \in Nat
  OBVIOUS
<1>7. mu \in [S -> Nat]
  BY <1>6
<1>8. ASSUME NEW i \in S, \A y \in S : mu[y] < mu[i] => ascii[y] = l[y]
      PROVE  ascii[i] = l[i]
  <2>1. ascii[i] = AsciiAt(s, ascii, i) /\ l[i] = AsciiAt(s, l, i)
    <3> HIDE DEF l, S
    <3> QED BY <1>3, <1>4, Zenon
  <2>2. i # n /\ ~(Behind(s, i) > n) => ascii[Behind(s, i)] = l[Behind(s, i)]
    <3>1. i # n /\ ~(Behind(s, i) > n) => Behind(s, i) \in S /\ n - Behind(s, i) < n - i
      BY <1>1, Zenon DEF WalkAt
    <3>2. i # n /\ ~(Behind(s, i) > n) => Behind(s, i) \in S /\ mu[Behind(s, i)] < mu[i]
      BY <3>1
    <3> HIDE DEF S, mu, l, n
    <3> QED BY <1>8, <3>2
  <2> HIDE DEF l
  <2>3. AsciiAt(s, ascii, i) = AsciiAt(s, l, i)
    BY <2>2, Zenon DEF AsciiAt
  <2> QED BY <2>1, <2>3
<1>9. \A i \in S : ascii[i] = l[i]
  <2> HIDE DEF S, mu, l
  <2>1. SameFromBelow(S, mu, ascii, l)
    BY <1>8 DEF SameFromBelow
  <2> QED BY <1>7, <2>1, Determined
<1>10. 0 \in S
  BY <1>6
<1>11. l[0] = There(0)
  <2> HIDE DEF S, There
  <2> QED BY <1>10
<1> QED
  BY <1>5, <1>9, <1>10, <1>11, Zenon

(* The first elements of one and a sequence.                               *)
LEMMA UpToOneMore ==
    ASSUME NEW x \in Nat, NEW a \in Seq(Nat), NEW room \in Nat, room # 0
    PROVE  UpTo(room, <<x>> \o a) = <<x>> \o UpTo(room - 1, a)
<1> DEFINE o == <<x>>
           c == o \o a
           k == room - 1
           m == IF k <= Len(a) THEN k ELSE Len(a)
           u == SubSeq(c, 1, m + 1)
           v == SubSeq(a, 1, m)
<1>1. /\ o \in Seq(Nat) /\ Len(o) = 1 /\ o[1] = x /\ Len(a) \in Nat /\ k \in Nat /\ k + 1 = room
  OBVIOUS
<1> HIDE DEF o
<1>2. /\ c \in Seq(Nat) /\ Len(c) = Len(a) + 1 /\ c[1] = x
      /\ \A i \in 1..Len(a) : c[i + 1] = a[i]
  <2>1. /\ c \in Seq(Nat) /\ Len(c) = Len(o) + Len(a)
        /\ \A i \in 1..Len(o) : c[i] = o[i]
        /\ \A i \in 1..Len(a) : c[Len(o) + i] = a[i]
    <3>1. o \in Seq(Nat) /\ a \in Seq(Nat)
      BY <1>1
    <3> QED BY <3>1, JoinedElements
  <2> HIDE DEF c
  <2>2. \A i \in 1..Len(a) : 1 + i = i + 1
    OBVIOUS
  <2> QED BY <1>1, <2>1, <2>2
<1> HIDE DEF c, k
<1>3. m \in 0..Len(a) /\ m + 1 \in 0..Len(c) /\ m \in Nat
  BY <1>1, <1>2
<1>4. UpTo(room, c) = u
  <2>1. Min({room, Len(c)}) = IF room <= Len(c) THEN room ELSE Len(c)
    <3>1. Len(c) \in Nat
      BY <1>1, <1>2
    <3> QED BY <3>1, LesserOne
  <2>2. Min({room, Len(c)}) = m + 1
    <3> DEFINE lc == Len(c)
               la == Len(a)
    <3>1. lc = la + 1 /\ la \in Nat /\ k \in Nat /\ room = k + 1
      BY <1>1, <1>2
    <3>2. m = IF k <= la THEN k ELSE la
      OBVIOUS
    <3> HIDE DEF lc, la, m
    <3>3. (IF room <= lc THEN room ELSE lc) = m + 1
      BY <3>1, <3>2
    <3> QED BY <2>1, <3>3 DEF lc
  <2> QED BY <2>2, Zenon DEF UpTo
<1>5. UpTo(k, a) = v
  <2>1. Min({k, Len(a)}) = m
    BY <1>1, LesserOne
  <2> QED BY <2>1, Zenon DEF UpTo
<1> HIDE DEF m
<1>6. u \in Seq(Nat) /\ Len(u) = m + 1 /\ \A i \in 1..(m + 1) : u[i] = c[i]
  BY <1>2, <1>3, FirstElements
<1>7. v \in Seq(Nat) /\ Len(v) = m /\ \A i \in 1..m : v[i] = a[i]
  BY <1>3, FirstElements
<1> HIDE DEF u, v
<1> DEFINE w == o \o v
<1>8. /\ w \in Seq(Nat) /\ Len(w) = m + 1 /\ w[1] = x
      /\ \A i \in 1..m : w[i + 1] = v[i]
  <2>1. /\ w \in Seq(Nat) /\ Len(w) = Len(o) + Len(v)
        /\ \A i \in 1..Len(o) : w[i] = o[i]
        /\ \A i \in 1..Len(v) : w[Len(o) + i] = v[i]
    <3>1. o \in Seq(Nat) /\ v \in Seq(Nat)
      BY <1>1, <1>7
    <3> QED BY <3>1, JoinedElements
  <2> HIDE DEF w
  <2>2. \A i \in 1..m : 1 + i = i + 1
    BY <1>3
  <2> QED BY <1>1, <1>3, <1>7, <2>1, <2>2
<1> HIDE DEF w
<1>9. ASSUME NEW i \in 1..Len(u) PROVE u[i] = w[i]
  <2>1. i \in 1..(m + 1) /\ u[i] = c[i]
    BY <1>6
  <2>2. CASE i = 1
    BY <1>2, <1>8, <2>1, <2>2
  <2>3. CASE i # 1
    <3> DEFINE j == i - 1
    <3>1. j \in 1..m /\ j \in 1..Len(a) /\ j + 1 = i
      BY <1>1, <1>3, <2>1, <2>3
    <3> HIDE DEF j
    <3>2. c[j + 1] = a[j] /\ w[j + 1] = v[j] /\ v[j] = a[j]
      BY <1>2, <1>7, <1>8, <3>1
    <3> QED BY <2>1, <3>1, <3>2
  <2> QED BY <2>2, <2>3
<1>10. u = w
  <2>1. Len(u) = Len(w)
    BY <1>6, <1>8
  <2> QED BY <1>6, <1>8, <1>9, <2>1, SeqEqual
<1> QED
  BY <1>4, <1>5, <1>10 DEF c, o, k, w

(* There is nothing in no room.                                            *)
LEMMA UpToNone ==
    ASSUME NEW a \in Seq(Nat), NEW room \in Nat, room = 0 \/ a = <<>>
    PROVE  UpTo(room, a) = <<>>
<1>1. Len(a) \in Nat /\ (a = <<>> => Len(a) = 0)
  OBVIOUS
<1>2. Min({room, Len(a)}) = IF room <= Len(a) THEN room ELSE Len(a)
  BY <1>1, LesserOne
<1> DEFINE k == Min({room, Len(a)})
<1>3. UpTo(room, a) = SubSeq(a, 1, k)
  BY Zenon DEF UpTo
<1>5. k = 0
  BY <1>1, <1>2
<1> HIDE DEF k
<1>4. UpTo(room, a) = SubSeq(a, 1, 0)
  BY <1>3, <1>5, Zenon
<1> QED
  BY <1>4

-----------------------------------------------------------------------------
(* FudgeString_copyToASCII puts as much of it into the buffer as there is  *)
(* room for, and fails if it gets to the end of what is shown before that. *)
CopyAt(s, g, at) ==
    LET i       == at[1]
        room    == at[2]
        skipped == g[<<Behind(s, i), room>>]
        rest    == g[<<Behind(s, i), room - 1>>]
    IN  IF i = Len(s) \/ room = 0 THEN Ok(<<>>)
        ELSE IF Behind(s, i) > Len(s) THEN Incomplete
        ELSE IF AtBOM(s, i) THEN skipped
        ELSE IF rest.status # "OK" THEN rest
        ELSE Ok(<<ASCIIof(SubSeq(s, i + 1, Behind(s, i)))>> \o rest.value)

Copy(shown, whole, i, room) ==
    IF whole[i] \/ room <= Len(shown[i]) THEN Ok(UpTo(room, shown[i])) ELSE Incomplete

(* The copy is its beginning, if that is all there is room for or all of   *)
(* it.                                                                     *)
LEMMA CopyWalked ==
    ASSUME NEW s \in Seq(Nat), NEW shown, NEW whole, Walks(s, shown, whole), NEW size \in Nat
    PROVE  CopyToASCII(size, s) =
               IF whole[0] \/ size <= Len(shown[0]) THEN UpTo(size, shown[0]) ELSE <<>>
<1> DEFINE n == Len(s)
           S == (0..Len(s)) \X (0..size)
           C(i, room) == Copy(shown, whole, i, room)
           l == [at \in S |-> C(at[1], at[2])]
           copy == CHOOSE f : f = [at \in S |-> CopyAt(s, f, at)]
           mu == [at \in S |-> Len(s) - at[1]]
<1>0. \A at \in S : at[1] \in 0..n /\ at[2] \in 0..size /\ at = <<at[1], at[2]>>
  OBVIOUS
<1>1. \A i \in 0..n : WalkAt(s, shown, whole, i)
  BY PlaceOfWalk
<1>2. \A i \in 0..n, room \in 0..size : <<i, room>> \in S /\ l[<<i, room>>] = C(i, room)
  <2> SUFFICES ASSUME NEW i \in 0..n, NEW room \in 0..size
               PROVE  <<i, room>> \in S /\ l[<<i, room>>] = C(i, room)
    OBVIOUS
  <2>1. <<i, room>> \in S
    OBVIOUS
  <2>2. <<i, room>>[1] = i /\ <<i, room>>[2] = room
    OBVIOUS
  <2>3. l[<<i, room>>] = C(<<i, room>>[1], <<i, room>>[2])
    <3> HIDE DEF S, C
    <3> QED BY <2>1
  <2> QED BY <2>1, <2>2, <2>3, Zenon
<1>3. ASSUME NEW at \in S PROVE C(at[1], at[2]) = CopyAt(s, l, at)
  <2> DEFINE i == at[1]
             room == at[2]
             b == Behind(s, i)
             c == ASCIIof(SubSeq(s, i + 1, Behind(s, i)))
             skipped == l[<<b, room>>]
             rest == l[<<b, room - 1>>]
  <2>1. i \in 0..n /\ room \in 0..size /\ room \in Nat
    BY <1>0
  <2>2. CopyAt(s, l, at) =
            IF i = n \/ room = 0 THEN Ok(<<>>)
            ELSE IF b > n THEN Incomplete
            ELSE IF AtBOM(s, i) THEN skipped
            ELSE IF rest.status # "OK" THEN rest
            ELSE Ok(<<c>> \o rest.value)
    <3> HIDE DEF l
    <3> QED BY Zenon DEF CopyAt
  <2> DEFINE it == CopyAt(s, l, at)
  <2> HIDE DEF it, skipped, rest, l, i, room
  <2>3. WalkAt(s, shown, whole, i)
    BY <1>1, <2>1
  <2>4. CASE i = n \/ room = 0
    <3>1. it = Ok(<<>>)
      BY <2>2, <2>4, Zenon DEF it
    <3>2. shown[i] \in Seq(Nat) /\ Len(shown[i]) \in Nat /\ (i = n => whole[i] /\ shown[i] = <<>>)
      BY <2>3, Zenon DEF WalkAt
    <3>3. UpTo(room, shown[i]) = <<>>
      BY <2>1, <2>4, <3>2, UpToNone
    <3>4. whole[i] \/ room <= Len(shown[i])
      BY <2>1, <2>4, <3>2
    <3>5. C(i, room) = Ok(<<>>)
      BY <3>3, <3>4, Zenon DEF Copy
    <3> QED BY <3>1, <3>5 DEF it, i, room
  <2>5. CASE ~(i = n \/ room = 0) /\ b > n
    <3>1. it = Incomplete
      BY <2>2, <2>5, Zenon DEF it
    <3>2. shown[i] = <<>> /\ ~whole[i]
      BY <2>3, <2>5, Zenon DEF WalkAt
    <3>3. ~(room <= Len(shown[i]))
      BY <2>1, <2>5, <3>2
    <3>4. C(i, room) = Incomplete
      BY <3>2, <3>3, Zenon DEF Copy
    <3> QED BY <3>1, <3>4 DEF it, i, room
  <2>6. CASE ~(i = n \/ room = 0) /\ ~(b > n)
    <3>1. /\ b \in 0..n /\ whole[i] = whole[b] /\ c \in Nat
          /\ shown[b] \in Seq(Nat) /\ Len(shown[b]) \in Nat
          /\ AtBOM(s, i) => shown[i] = shown[b]
          /\ ~AtBOM(s, i) => shown[i] = <<c>> \o shown[b] /\ Len(shown[i]) = Len(shown[b]) + 1
      BY <2>3, <2>6, Zenon DEF WalkAt
    <3>2. room - 1 \in 0..size /\ room - 1 \in Nat /\ room # 0
      BY <2>1, <2>6
    <3>3. skipped = C(b, room) /\ rest = C(b, room - 1)
      <4> HIDE DEF b, C
      <4> QED BY <1>2, <2>1, <3>1, <3>2, Zenon DEF skipped, rest
    <3>4. it = IF AtBOM(s, i) THEN skipped
               ELSE IF rest.status # "OK" THEN rest
               ELSE Ok(<<c>> \o rest.value)
      BY <2>2, <2>6, Zenon DEF it
    <3> HIDE DEF b, c
    <3>5. CASE AtBOM(s, i)
      <4>1. it = C(b, room)
        BY <3>3, <3>4, <3>5, Zenon
      <4>2. C(i, room) = C(b, room)
        BY <3>1, <3>5, Zenon DEF Copy
      <4> QED BY <4>1, <4>2 DEF it, i, room
    <3>6. CASE ~AtBOM(s, i)
      <4>1. it = IF rest.status # "OK" THEN rest ELSE Ok(<<c>> \o rest.value)
        BY <3>4, <3>6, Zenon
      <4>2. whole[i] \/ room <= Len(shown[i]) <=> whole[b] \/ room - 1 <= Len(shown[b])
        <5> DEFINE p == Len(shown[i])
                   q == Len(shown[b])
        <5>1. p = q + 1 /\ q \in Nat /\ (whole[i] <=> whole[b])
          BY <3>1, <3>6
        <5> HIDE DEF p, q
        <5>2. room <= p <=> room - 1 <= q
          BY <2>1, <5>1
        <5> QED BY <5>1, <5>2, Zenon DEF p, q
      <4>3. CASE whole[b] \/ room - 1 <= Len(shown[b])
        <5>1. rest = Ok(UpTo(room - 1, shown[b]))
          BY <3>3, <4>3, Zenon DEF Copy
        <5>2. it = Ok(<<c>> \o UpTo(room - 1, shown[b]))
          BY <4>1, <5>1, ResultOrNot, Zenon
        <5>3. UpTo(room, <<c>> \o shown[b]) = <<c>> \o UpTo(room - 1, shown[b])
          BY <2>1, <3>1, <3>2, UpToOneMore
        <5>4. C(i, room) = Ok(UpTo(room, <<c>> \o shown[b]))
          BY <3>1, <3>6, <4>2, <4>3, Zenon DEF Copy
        <5> QED BY <5>2, <5>3, <5>4, Zenon DEF it, i, room
      <4>4. CASE ~(whole[b] \/ room - 1 <= Len(shown[b]))
        <5>1. rest = Incomplete
          BY <3>3, <4>4, Zenon DEF Copy
        <5>2. it = Incomplete
          BY <4>1, <5>1, ResultOrNot, Zenon
        <5>3. C(i, room) = Incomplete
          BY <4>2, <4>4, Zenon DEF Copy
        <5> QED BY <5>2, <5>3, Zenon DEF it, i, room
      <4> QED BY <4>3, <4>4
    <3> QED BY <3>5, <3>6
  <2> QED BY <2>4, <2>5, <2>6
<1>4. l = [at \in S |-> CopyAt(s, l, at)]
  <2> HIDE DEF S, C
  <2> QED BY <1>3
<1>5. copy = [at \in S |-> CopyAt(s, copy, at)]
  <2> HIDE DEF l
  <2> QED BY <1>4, Zenon
<1>6. CopyToASCII(size, s) = IF copy[<<0, size>>].status = "OK" THEN copy[<<0, size>>].value ELSE <<>>
  BY Zenon DEF CopyToASCII, CopyAt, Behind, Incomplete
<1> HIDE DEF copy
<1>7. n \in Nat
  OBVIOUS
<1>8. mu \in [S -> Nat]
  <2>1. \A at \in S : Len(s) - at[1] \in Nat
    BY <1>0, <1>7
  <2> HIDE DEF S
  <2> QED BY <2>1
<1>9. ASSUME NEW at \in S, \A y \in S : mu[y] < mu[at] => copy[y] = l[y]
      PROVE  copy[at] = l[at]
  <2> DEFINE i == at[1]
             room == at[2]
             b == Behind(s, i)
  <2>1. copy[at] = CopyAt(s, copy, at) /\ l[at] = CopyAt(s, l, at)
    <3> HIDE DEF l, S
    <3> QED BY <1>4, <1>5, Zenon
  <2>2. i \in 0..n /\ room \in 0..size
    BY <1>0
  <2>3. i # n /\ ~(b > n) => b \in 0..n /\ n - b < n - i
    BY <1>1, <2>2, Zenon DEF WalkAt
  <2>4. ASSUME NEW r \in 0..size, i # n, ~(b > n) PROVE copy[<<b, r>>] = l[<<b, r>>]
    <3> DEFINE y == <<b, r>>
    <3>1. y \in S
      BY <1>2, <2>3, <2>4
    <3>2. y[1] = b
      <4> HIDE DEF b
      <4> QED OBVIOUS
    <3> HIDE DEF y, b
    <3>3. mu[y] = n - y[1] /\ mu[at] = n - i
      <4> HIDE DEF S
      <4> QED BY <3>1
    <3>4. mu[y] < mu[at]
      BY <2>3, <2>4, <3>2, <3>3
    <3> HIDE DEF S, mu, l
    <3> QED BY <1>9, <3>1, <3>4 DEF y
  <2>5. i # n /\ ~(b > n) => copy[<<b, room>>] = l[<<b, room>>]
    <3> HIDE DEF l, b, n
    <3> QED BY <2>2, <2>4, Zenon
  <2>6. i # n /\ room # 0 /\ ~(b > n) => copy[<<b, room - 1>>] = l[<<b, room - 1>>]
    <3>1. room # 0 => room - 1 \in 0..size
      BY <2>2
    <3> HIDE DEF l, b, n
    <3> QED BY <3>1, <2>4, Zenon
  <2> HIDE DEF l
  <2>7. CopyAt(s, copy, at) = CopyAt(s, l, at)
    BY <2>5, <2>6, Zenon DEF CopyAt
  <2> QED BY <2>1, <2>7
<1>10. \A at \in S : copy[at] = l[at]
  <2> HIDE DEF S, mu, l
  <2>1. SameFromBelow(S, mu, copy, l)
    BY <1>9 DEF SameFromBelow
  <2> QED BY <1>8, <2>1, Determined
<1>11. copy[<<0, size>>] = C(0, size)
  <2>1. 0 \in 0..n /\ size \in 0..size
    BY <1>7
  <2>2. <<0, size>> \in S /\ l[<<0, size>>] = C(0, size)
    <3> HIDE DEF S, l, C, n
    <3> QED BY <1>2, <2>1, Zenon
  <2> HIDE DEF S, l, C
  <2> QED BY <1>10, <2>2, Zenon
<1> QED
  BY <1>6, <1>11, ResultOrNot, Zenon DEF Copy

-----------------------------------------------------------------------------
(* A part of a sequence, from one place in it to another.                  *)
LEMMA PartElements ==
    ASSUME NEW S, NEW s \in Seq(S), NEW a \in 0..Len(s), NEW b \in 0..Len(s), a <= b
    PROVE  /\ SubSeq(s, a + 1, b) \in Seq(S) /\ Len(SubSeq(s, a + 1, b)) = b - a
           /\ \A k \in 1..(b - a) : SubSeq(s, a + 1, b)[k] = s[a + k]
<1> DEFINE m == a + 1
           x == SubSeq(s, a + 1, b)
<1>1. m \in Int /\ b \in Int /\ \A j \in m..b : j \in 1..Len(s)
  OBVIOUS
<1>2. \A j \in m..b : s[j] \in S
  BY <1>1, ElementOfSeq
<1>3. x = SubSeq(s, m, b)
  OBVIOUS
<1>4. (IF m <= b THEN b - m + 1 ELSE 0) = b - a /\ b - m + 1 = b - a
  OBVIOUS
<1>5. \A k \in 1..(b - a) : m + k - 1 = a + k
  OBVIOUS
<1> HIDE DEF m, x
<1>6. /\ SubSeq(s, m, b) \in Seq(S)
      /\ Len(SubSeq(s, m, b)) = IF m <= b THEN b - m + 1 ELSE 0
      /\ \A k \in 1..(b - m + 1) : SubSeq(s, m, b)[k] = s[m + k - 1]
  BY <1>1, <1>2, SubSeqProperties
<1>7. \A k \in 1..(b - a) : x[k] = s[a + k]
  BY <1>3, <1>4, <1>5, <1>6
<1> QED
  BY <1>3, <1>4, <1>6, <1>7 DEF x

(* The sequence of bytes that is in front of what is left of a string.     *)
InFront(s, p, rest, u, e) ==
    /\ u \in 1..6 /\ Used(s, p) = u /\ Behind(s, p) = p + u
    /\ rest \in Seq(Nat) /\ Len(rest) = Len(s) - p /\ rest # <<>> /\ rest[1] = s[p + 1]
    /\ (u > Len(rest) <=> Behind(s, p) > Len(s))
    /\ u <= Len(rest) =>
          /\ e \in Seq(Nat) /\ Len(e) = u /\ e[1] = s[p + 1]
          /\ SubSeq(rest, 1, u) = e /\ From(rest, u) = From(s, p + u)
          /\ (AtBOM(s, p) <=> e = BOM)

(* The sequence at p is in front of what is left from p on.                *)
LEMMA SequenceInFront ==
    ASSUME NEW s \in Seq(Nat), NEW p \in 0..Len(s), p # Len(s)
    PROVE  InFront(s, p, From(s, p), Used(s, p), SubSeq(s, p + 1, Behind(s, p)))
<1> DEFINE n == Len(s)
           rest == From(s, p)
           u == Used(s, p)
           b == Behind(s, p)
           e == SubSeq(s, p + 1, b)
<1>1. n \in Nat /\ p \in 0..n /\ p # n
  OBVIOUS
<1>2. u \in 1..6
  <2> DEFINE t == trailingBytesForUTF8(s[p + 1])
  <2>1. t \in 0..5
    BY SMT DEF trailingBytesForUTF8
  <2>2. u = t + 1
    BY Zenon DEF Used
  <2> HIDE DEF t
  <2> QED BY <2>1, <2>2
<1>3. b = p + u
  BY Zenon DEF Behind
<1>4. /\ rest \in Seq(Nat) /\ Len(rest) = n - p
      /\ \A k \in 1..(n - p) : rest[k] = s[p + k]
  BY RestElements
<1> HIDE DEF u, b, rest, n
<1>5. rest # <<>> /\ rest[1] = s[p + 1]
  <2>1. Len(rest) # 0 /\ 1 \in 1..(n - p)
    BY <1>1, <1>4
  <2> QED BY <1>4, <2>1
<1>6. u > Len(rest) <=> b > n
  BY <1>1, <1>2, <1>3, <1>4
<1>7. ASSUME u <= Len(rest)
      PROVE  /\ e \in Seq(Nat) /\ Len(e) = u /\ e[1] = s[p + 1]
             /\ SubSeq(rest, 1, u) = e /\ From(rest, u) = From(s, p + u)
             /\ (AtBOM(s, p) <=> e = BOM)
  <2>1. b \in 0..n /\ p <= b /\ b - p = u /\ u \in 0..Len(rest) /\ 1 \in 1..u
    BY <1>1, <1>2, <1>3, <1>4, <1>7
  <2>2. e \in Seq(Nat) /\ Len(e) = u /\ \A k \in 1..u : e[k] = s[p + k]
    <3>1. p \in 0..Len(s) /\ b \in 0..Len(s) /\ p <= b
      BY <1>1, <2>1 DEF n
    <3>2. /\ SubSeq(s, p + 1, b) \in Seq(Nat) /\ Len(SubSeq(s, p + 1, b)) = b - p
          /\ \A k \in 1..(b - p) : SubSeq(s, p + 1, b)[k] = s[p + k]
      BY <3>1, PartElements
    <3> QED BY <2>1, <3>2
  <2> HIDE DEF e
  <2>3. SubSeq(rest, 1, u) = e
    <3> DEFINE x == SubSeq(rest, 1, u)
    <3>1. x \in Seq(Nat) /\ Len(x) = u /\ \A k \in 1..u : x[k] = rest[k]
      BY <1>4, <2>1, FirstElements
    <3>2. \A k \in 1..u : k \in 1..(n - p)
      BY <1>1, <1>2, <1>4, <1>7
    <3> HIDE DEF x
    <3>3. Len(x) = Len(e) /\ \A k \in 1..Len(x) : x[k] = e[k]
      BY <1>4, <2>2, <3>1, <3>2
    <3> QED BY <2>2, <3>1, <3>3, SeqEqual DEF x
  <2>4. From(rest, u) = From(s, p + u)
    <3> DEFINE x == From(rest, u)
               y == From(s, b)
    <3>1. /\ x \in Seq(Nat) /\ Len(x) = Len(rest) - u
          /\ \A k \in 1..(Len(rest) - u) : x[k] = rest[u + k]
      <4>1. rest \in Seq(Nat) /\ u \in 0..Len(rest)
        BY <1>4, <2>1
      <4> QED BY <4>1, RestElements
    <3>2. /\ y \in Seq(Nat) /\ Len(y) = Len(s) - b
          /\ \A k \in 1..(Len(s) - b) : y[k] = s[b + k]
      BY <2>1, RestElements DEF n
    <3> HIDE DEF x, y
    <3>3. Len(s) - b = Len(rest) - u /\ Len(x) = Len(y)
      BY <1>1, <1>2, <1>3, <1>4, <3>1, <3>2 DEF n
    <3>4. ASSUME NEW k \in 1..Len(x) PROVE x[k] = y[k]
      <4>1. /\ k \in 1..(Len(rest) - u) /\ k \in 1..(Len(s) - b)
            /\ u + k \in 1..(n - p) /\ p + (u + k) = b + k
        BY <1>1, <1>2, <1>3, <1>4, <1>7, <3>1, <3>3
      <4>2. x[k] = rest[u + k] /\ rest[u + k] = s[p + (u + k)] /\ y[k] = s[b + k]
        BY <1>4, <3>1, <3>2, <4>1
      <4> QED BY <4>1, <4>2
    <3>5. x = y
      BY <3>1, <3>2, <3>3, <3>4, SeqEqual
    <3> QED BY <1>3, <3>5 DEF x, y
  <2>5. BOM \in Seq(Nat) /\ Len(BOM) = 3 /\ BOM[1] = 239
    BY DEF BOM
  <2>6. IsPrefix(BOM, rest) <=> 3 <= Len(rest) /\ \A j \in 1..3 : BOM[j] = rest[j]
    <3>1. BOM \in Seq(Nat) /\ rest \in Seq(Nat)
      BY <1>4, <2>5
    <3>2. IsPrefix(BOM, rest) <=> Len(BOM) <= Len(rest) /\ \A j \in 1..Len(BOM) : BOM[j] = rest[j]
      BY <3>1, PrefixElements
    <3> QED BY <2>5, <3>2
  <2>7. AtBOM(s, p) <=> IsPrefix(BOM, rest)
    BY Zenon DEF AtBOM, rest
  <2>8. ASSUME IsPrefix(BOM, rest) PROVE e = BOM
    <3>1. rest[1] = 239
      <4>1. 1 \in 1..3
        OBVIOUS
      <4> QED BY <2>5, <2>6, <2>8, <4>1
    <3>2. u = 3
      <4>1. trailingBytesForUTF8(239) = 2
        BY SMT DEF trailingBytesForUTF8
      <4>2. u = trailingBytesForUTF8(s[p + 1]) + 1
        BY Zenon DEF Used, u
      <4>3. s[p + 1] = 239
        BY <1>5, <3>1
      <4>4. u = trailingBytesForUTF8(239) + 1
        BY <4>2, <4>3, Zenon
      <4> QED BY <4>1, <4>4
    <3>3. \A k \in 1..3 : e[k] = BOM[k]
      <4>1. \A k \in 1..3 : k \in 1..(n - p)
        BY <1>4, <1>7, <3>2
      <4> QED BY <1>4, <2>2, <2>6, <2>8, <3>2, <4>1
    <3>4. Len(e) = Len(BOM) /\ \A k \in 1..Len(e) : e[k] = BOM[k]
      BY <2>2, <2>5, <3>2, <3>3
    <3>5. e \in Seq(Nat) /\ BOM \in Seq(Nat)
      BY <2>2, <2>5
    <3> QED BY <3>4, <3>5, SeqEqual, Zenon
  <2>9. ASSUME e = BOM PROVE IsPrefix(BOM, rest)
    <3>1. u = 3
      BY <2>2, <2>5, <2>9
    <3>2. \A k \in 1..3 : k \in 1..(n - p)
      BY <1>4, <1>7, <3>1
    <3>3. \A k \in 1..3 : BOM[k] = rest[k]
      BY <1>4, <2>2, <2>9, <3>1, <3>2
    <3> QED BY <1>7, <2>6, <3>1, <3>3
  <2>10. e[1] = s[p + 1]
    BY <2>1, <2>2
  <2> QED BY <2>2, <2>3, <2>4, <2>7, <2>8, <2>9, <2>10
<1> HIDE DEF e
<1> QED
  BY <1>2, <1>3, <1>4, <1>5, <1>6, <1>7, Zenon DEF InFront, rest, u, b, e, n

-----------------------------------------------------------------------------
(* Putting sequences together, and then one more.                          *)
LEMMA FlattenedMore ==
    ASSUME NEW S, NEW s \in Seq(Seq(S)), NEW r \in Seq(Seq(S)), NEW m \in Nat,
           Len(s) = m, Len(r) = m + 1, \A i \in 1..m : r[i] = s[i]
    PROVE  FlattenSeq(r) = FlattenSeq(s) \o r[m + 1]
<1>1. PICK f, b : Cut(S, s, f, b)
  BY Flattened
<1>2. PICK g, c : Cut(S, r, g, c)
  BY Flattened
<1>3. /\ \A k \in 0..m : f[k] \in Seq(S) /\ b[k] \in Seq(S) /\ f[k] \o b[k] = FlattenSeq(s)
      /\ f[0] = <<>> /\ b[m] = <<>>
      /\ \A k \in 1..m : f[k] = f[k - 1] \o s[k]
  BY <1>1 DEF Cut
<1>4. /\ \A k \in 0..(m + 1) : g[k] \in Seq(S) /\ c[k] \in Seq(S) /\ g[k] \o c[k] = FlattenSeq(r)
      /\ g[0] = <<>> /\ c[m + 1] = <<>>
      /\ \A k \in 1..(m + 1) : g[k] = g[k - 1] \o r[k]
      /\ \A k \in 1..(m + 1) : c[k - 1] = r[k] \o c[k]
  BY <1>2 DEF Cut
<1> DEFINE T == {k \in 0..m : g[k] = f[k]}
<1>5. 0 \in T
  BY <1>3, <1>4
<1>6. ASSUME NEW k \in 1..m, k - 1 \in T PROVE k \in T
  <2>1. k \in 1..(m + 1) /\ k \in 0..m
    OBVIOUS
  <2>2. g[k] = g[k - 1] \o r[k] /\ f[k] = f[k - 1] \o s[k] /\ r[k] = s[k]
    BY <1>3, <1>4, <2>1
  <2>3. g[k - 1] = f[k - 1]
    BY <1>6
  <2>4. g[k] = f[k]
    BY <2>2, <2>3, Zenon
  <2> QED BY <2>1, <2>4
<1>7. g[m] = f[m]
  <2>1. 0..m \subseteq T
    <3> HIDE DEF T
    <3> QED BY <1>5, <1>6, Upwards
  <2> QED BY <2>1
<1>8. f[m] = FlattenSeq(s) /\ f[m] \in Seq(S)
  <2>0. m \in 0..m
    OBVIOUS
  <2>1. f[m] \in Seq(S) /\ f[m] \o <<>> = FlattenSeq(s)
    BY <1>3, <2>0, Zenon
  <2>2. f[m] \o <<>> = f[m]
    BY <2>1, ConcatEmptySeq, Zenon
  <2> QED BY <2>1, <2>2
<1>9. g[m + 1] = g[m] \o r[m + 1]
  <2>1. m + 1 \in 1..(m + 1) /\ (m + 1) - 1 = m
    OBVIOUS
  <2>2. g[m + 1] = g[(m + 1) - 1] \o r[m + 1]
    BY <1>4, <2>1
  <2> QED BY <2>1, <2>2
<1>10. g[m + 1] = FlattenSeq(r)
  <2>0. m + 1 \in 0..(m + 1)
    OBVIOUS
  <2>1. g[m + 1] \in Seq(S) /\ g[m + 1] \o <<>> = FlattenSeq(r)
    BY <1>4, <2>0, Zenon
  <2>2. g[m + 1] \o <<>> = g[m + 1]
    BY <2>1, ConcatEmptySeq, Zenon
  <2> QED BY <2>1, <2>2
<1> QED
  BY <1>7, <1>8, <1>9, <1>10, Zenon

(* What is shown of a character, of one more than before, of none.         *)
LEMMA ShownOfOne ==
    ASSUME NEW c \in Nat
    PROVE  ShownOf(c) \in Seq(Nat)
<1>1. ShownOf(c) = <<>> \/ ShownOf(c) = <<c>> \/ ShownOf(c) = <<QuestionMark>>
  BY Zenon DEF ShownOf
<1>2. <<c>> \in Seq(Nat)
  OBVIOUS
<1>3. <<QuestionMark>> \in Seq(Nat)
  BY DEF QuestionMark
<1> QED
  BY <1>1, <1>2, <1>3, EmptySeq, Zenon

(* One character more.                                                     *)
LEMMA ShownMore ==
    ASSUME NEW t \in Seq(Nat), NEW ch \in Nat
    PROVE  Shown(t \o <<ch>>) = Shown(t) \o ShownOf(ch)
<1> DEFINE o == <<ch>>
           r == t \o o
           m == Len(t)
           A(x) == [i \in DOMAIN x |-> ShownOf(x[i])]
           As == [i \in 1..m |-> ShownOf(t[i])]
           Ar == [i \in 1..(m + 1) |-> ShownOf(r[i])]
<1>1. m \in Nat /\ o \in Seq(Nat) /\ Len(o) = 1 /\ o[1] = ch
  OBVIOUS
<1> HIDE DEF o
<1>2. /\ r \in Seq(Nat) /\ Len(r) = m + 1 /\ r[m + 1] = ch
      /\ \A i \in 1..m : r[i] = t[i]
  <2>1. /\ r \in Seq(Nat) /\ Len(r) = Len(t) + Len(o)
        /\ \A i \in 1..Len(t) : r[i] = t[i]
        /\ \A i \in 1..Len(o) : r[Len(t) + i] = o[i]
    <3>1. t \in Seq(Nat) /\ o \in Seq(Nat)
      BY <1>1
    <3> QED BY <3>1, JoinedElements
  <2>2. 1 \in 1..Len(o)
    BY <1>1
  <2> HIDE DEF r
  <2> QED BY <1>1, <2>1, <2>2
<1>3. ASSUME NEW x \in Seq(Nat) PROVE Shown(x) = FlattenSeq(A(x))
  BY Zenon DEF Shown
<1>4. ASSUME NEW c \in Nat PROVE ShownOf(c) \in Seq(Nat)
  BY ShownOfOne
<1> HIDE DEF r
<1>5. A(t) = As /\ A(r) = Ar
  BY <1>2
<1>6. As \in Seq(Seq(Nat)) /\ Len(As) = m
  <2>1. \A i \in 1..m : ShownOf(t[i]) \in Seq(Nat)
    BY <1>4, ElementOfSeq
  <2> DEFINE U == Seq(Nat)
  <2> HIDE DEF U, m
  <2>2. As \in [1..m -> U]
    BY <2>1 DEF U
  <2>3. As \in Seq(U) /\ Len(As) = m
    <3> HIDE DEF As
    <3> QED BY <1>1, <2>2
  <2> QED BY <2>3 DEF U
<1>7. Ar \in Seq(Seq(Nat)) /\ Len(Ar) = m + 1
  <2>1. \A i \in 1..(m + 1) : ShownOf(r[i]) \in Seq(Nat)
    <3>1. \A i \in 1..(m + 1) : r[i] \in Nat
      BY <1>2, ElementOfSeq
    <3> QED BY <1>4, <3>1
  <2> DEFINE U == Seq(Nat)
  <2> HIDE DEF U, m
  <2>2. Ar \in [1..(m + 1) -> U]
    BY <2>1 DEF U
  <2>3. Ar \in Seq(U) /\ Len(Ar) = m + 1
    <3> HIDE DEF Ar
    <3>1. m + 1 \in Nat
      BY <1>1
    <3> QED BY <2>2, <3>1
  <2> QED BY <2>3 DEF U
<1>8. (\A i \in 1..m : Ar[i] = As[i]) /\ Ar[m + 1] = ShownOf(ch)
  <2>1. \A i \in 1..m : i \in 1..(m + 1)
    BY <1>1
  <2>2. m + 1 \in 1..(m + 1)
    BY <1>1
  <2> QED BY <1>2, <2>1, <2>2
<1> HIDE DEF As, Ar, m
<1>9. FlattenSeq(Ar) = FlattenSeq(As) \o Ar[m + 1]
  BY <1>1, <1>6, <1>7, <1>8, FlattenedMore
<1>10. Shown(r) = FlattenSeq(Ar) /\ Shown(t) = FlattenSeq(As)
  <2> HIDE DEF A
  <2> QED BY <1>2, <1>3, <1>5, Zenon
<1> QED
  BY <1>8, <1>9, <1>10, Zenon DEF r, o

(* No character.                                                           *)
LEMMA ShownNone == Shown(<<>>) = <<>>
<1> DEFINE A == [i \in DOMAIN <<>> |-> ShownOf(<<>>[i])]
<1>1. Shown(<<>>) = FlattenSeq(A)
  BY Zenon DEF Shown
<1>2. A = <<>>
  OBVIOUS
<1>3. A \in Seq(Seq(Nat)) /\ Len(A) = 0
  BY <1>2
<1> HIDE DEF A
<1>4. PICK f, b : Cut(Nat, A, f, b)
  BY <1>3, Flattened
<1>5. f[0] = <<>> /\ b[0] = <<>> /\ f[0] \o b[0] = FlattenSeq(A)
  <2>1. 0 \in 0..0
    OBVIOUS
  <2> QED BY <1>3, <1>4, <2>1, Zenon DEF Cut
<1>6. <<>> \o <<>> = <<>>
  OBVIOUS
<1> QED
  BY <1>1, <1>5, <1>6, Zenon

(* Any number of them.                                                     *)
LEMMA ShownIn ==
    ASSUME NEW t \in Seq(Nat)
    PROVE  Shown(t) \in Seq(Nat)
<1> DEFINE m == Len(t)
           As == [i \in 1..m |-> ShownOf(t[i])]
<1>1. m \in Nat /\ DOMAIN t = 1..m
  OBVIOUS
<1>2. Shown(t) = FlattenSeq(As)
  <2> DEFINE A == [i \in DOMAIN t |-> ShownOf(t[i])]
  <2>1. Shown(t) = FlattenSeq(A)
    BY Zenon DEF Shown
  <2>2. A = As
    BY <1>1
  <2> QED BY <2>1, <2>2, Zenon
<1>4. ASSUME NEW c \in Nat PROVE ShownOf(c) \in Seq(Nat)
  BY ShownOfOne
<1>6. As \in Seq(Seq(Nat))
  <2>1. \A i \in 1..m : ShownOf(t[i]) \in Seq(Nat)
    BY <1>4, ElementOfSeq
  <2> DEFINE U == Seq(Nat)
  <2> HIDE DEF U, m
  <2>2. As \in [1..m -> U]
    BY <2>1 DEF U
  <2>3. As \in Seq(U)
    <3> HIDE DEF As
    <3> QED BY <1>1, <2>2
  <2> QED BY <2>3 DEF U
<1> HIDE DEF As
<1> QED
  BY <1>2, <1>6, FlattenedIn

-----------------------------------------------------------------------------
(* A turn of the conversion to UTF-32, with the sequence at p in front: it *)
(* reports what is wrong, or writes the one character.                     *)
ReadOn(t, s, p) ==
    /\ t \in Turns
    /\ t.result = "conversionOK" =>
          /\ ~(Behind(s, p) > Len(s))
          /\ From(From(s, p), Used(s, p)) = From(s, Behind(s, p))
          /\ \E ch \in Nat :
                /\ t = Turn(Used(s, p), <<ch>>)
                /\ ShownOf(ch) = IF AtBOM(s, p) THEN <<>>
                                 ELSE <<ASCIIof(SubSeq(s, p + 1, Behind(s, p)))>>

(* A turn that stops the loop reports what is wrong.                       *)
LEMMA Stopped ==
    ASSUME NEW result \in Results4, result # "conversionOK", NEW s, NEW p
    PROVE  ReadOn(Stop(result), s, p)
<1>1. Stop(result) \in Turns
  BY EmptySeq DEF Stop, Turns
<1>2. Stop(result).result = result
  BY DEF Stop
<1> QED
  BY <1>1, <1>2, Zenon DEF ReadOn

(* Each turn of the conversion is one of these.                            *)
LEMMA ReadsOn ==
    ASSUME NEW s \in Seq(Nat), NEW p \in 0..Len(s), p # Len(s),
           NEW c, c.rest = From(s, p), NEW size
    PROVE  ReadOn(TurnUTF8toUTF32(c, size), s, p)
<1> DEFINE t == TurnUTF8toUTF32(c, size)
           u == Used(s, p)
           b == Behind(s, p)
           e == SubSeq(s, p + 1, b)
           rest == From(s, p)
           ch == FromUTF8(e)
           room == size - Len(c.target)
<1>1. InFront(s, p, rest, u, e)
  BY SequenceInFront
<1>2. /\ u \in 1..6 /\ b = p + u /\ rest[1] = s[p + 1] /\ (u > Len(rest) <=> b > Len(s))
      /\ u <= Len(rest) =>
          /\ e \in Seq(Nat) /\ Len(e) = u /\ e[1] = s[p + 1]
          /\ SubSeq(rest, 1, u) = e /\ From(rest, u) = From(s, p + u)
          /\ (AtBOM(s, p) <=> e = BOM)
  BY <1>1, Zenon DEF InFront
<1>3. u = trailingBytesForUTF8(s[p + 1]) + 1
  BY Zenon DEF Used
<1>4. Len(rest) \in Nat
  <2>1. rest \in Seq(Nat)
    BY <1>1, Zenon DEF InFront
  <2> QED BY <2>1
<1> HIDE DEF u, b, e, rest, room
<1>5. t = IF u > Len(rest) THEN Stop("sourceExhausted")
          ELSE IF ~isLegalUTF8(SubSeq(rest, 1, u)) THEN Stop("sourceIllegal")
          ELSE Write8to32(u, FromUTF8(SubSeq(rest, 1, u)), room)
  <2>1. c.rest = rest
    BY DEF rest
  <2> QED BY <1>2, <1>3, <2>1, Zenon DEF TurnUTF8toUTF32, ReadUTF8, room
<1> HIDE DEF t
<1>6. CASE u > Len(rest)
  <2>1. t = Stop("sourceExhausted")
    BY <1>5, <1>6, Zenon
  <2>2. ReadOn(Stop("sourceExhausted"), s, p)
    BY Stopped DEF Results4
  <2> QED BY <2>1, <2>2, Zenon DEF t
<1>7. CASE ~(u > Len(rest))
  <2>1. u <= Len(rest)
    BY <1>2, <1>4, <1>7
  <2>2. /\ e \in Seq(Nat) /\ Len(e) = u /\ e[1] = s[p + 1]
        /\ SubSeq(rest, 1, u) = e /\ From(rest, u) = From(s, p + u)
        /\ (AtBOM(s, p) <=> e = BOM)
    BY <1>2, <2>1, Zenon
  <2>3. CASE ~isLegalUTF8(e)
    <3>1. t = Stop("sourceIllegal")
      BY <1>5, <1>7, <2>2, <2>3, Zenon
    <3>2. ReadOn(Stop("sourceIllegal"), s, p)
      BY Stopped DEF Results4
    <3> QED BY <3>1, <3>2, Zenon DEF t
  <2>4. CASE isLegalUTF8(e)
    <3>1. t = Write8to32(u, ch, room)
      BY <1>5, <1>7, <2>2, <2>4, Zenon
    <3>2. Len(e) = trailingBytesForUTF8(e[1]) + 1
      BY <1>3, <2>2, Zenon
    <3>3. /\ ch \in Nat /\ IsCharacter(ch) /\ (ch = ByteOrderMark <=> e = BOM)
          /\ ASCIIof(e) = IF ch \in 1..126 THEN ch ELSE QuestionMark
      <4>1. e \in Seq(Nat) /\ Len(e) = trailingBytesForUTF8(e[1]) + 1 /\ isLegalUTF8(e)
        BY <2>2, <2>4, <3>2
      <4> QED BY <4>1, LegalCharacter, SMT
    <3> HIDE DEF ch
    <3>4. t = IfRoom(room, u, <<ch>>)
      <4>1. ch \in Nat /\ IsCharacter(ch)
        BY <3>3
      <4> QED BY <3>1, <4>1, WritesUTF32, Zenon
    <3>5. ShownOf(ch) = IF AtBOM(s, p) THEN <<>> ELSE <<ASCIIof(e)>>
      <4>1. ch = ByteOrderMark <=> AtBOM(s, p)
        BY <2>2, <3>3
      <4>2. CASE AtBOM(s, p)
        BY <4>1, <4>2, Zenon DEF ShownOf
      <4>3. CASE ~AtBOM(s, p) /\ ch \in 1..126
        <5>1. ASCIIof(e) = ch
          BY <3>3, <4>3
        <5> QED BY <4>1, <4>3, <5>1, Zenon DEF ShownOf
      <4>4. CASE ~AtBOM(s, p) /\ ch \notin 1..126
        <5>1. ASCIIof(e) = QuestionMark
          BY <3>3, <4>4
        <5> QED BY <4>1, <4>4, <5>1, Zenon DEF ShownOf
      <4> QED BY <4>2, <4>3, <4>4
    <3>6. CASE room < Len(<<ch>>)
      <4>1. t = Stop("targetExhausted")
        BY <3>4, <3>6, Zenon DEF IfRoom
      <4>2. ReadOn(Stop("targetExhausted"), s, p)
        BY Stopped DEF Results4
      <4> QED BY <4>1, <4>2, Zenon DEF t
    <3>7. CASE ~(room < Len(<<ch>>))
      <4>1. t = Turn(u, <<ch>>)
        BY <3>4, <3>7, Zenon DEF IfRoom
      <4>2. <<ch>> \in Seq(Nat) /\ ch \in Nat
        BY <3>3
      <4> DEFINE w == <<ch>>
      <4> HIDE DEF w
      <4>3. Turn(u, w) \in Turns
        BY <1>2, <4>2 DEF Turn, Turns, Results4, w
      <4>4. From(rest, u) = From(s, b) /\ ~(b > Len(s))
        BY <1>2, <1>7, <2>2
      <4> QED BY <3>5, <4>1, <4>2, <4>3, <4>4, Zenon DEF ReadOn, t, u, b, e, rest, w
    <3> QED BY <3>6, <3>7
  <2> QED BY <2>3, <2>4
<1> QED
  BY <1>6, <1>7

(* The state of the loop after n turns: what is shown of the string is     *)
(* what is shown of the characters so far, and what is from p on.          *)
SoFar(c, s, shown, whole, n) ==
    c.result = "conversionOK" =>
        /\ ~c.stopped
        /\ \E p \in 0..Len(s) :
              /\ n <= p \/ p = Len(s)
              /\ c.rest = From(s, p)
              /\ whole[0] = whole[p]
              /\ shown[0] = Shown(c.target) \o shown[p]

(* Another turn keeps that.                                                *)
LEMMA SoFarOn ==
    ASSUME NEW s \in Seq(Nat), NEW shown, NEW whole, Walks(s, shown, whole),
           NEW c \in States, NEW size, NEW n \in Nat, SoFar(c, s, shown, whole, n)
    PROVE  SoFar(WentOn(c, TurnUTF8toUTF32(c, size)), s, shown, whole, n + 1)
<1> DEFINE t == TurnUTF8toUTF32(c, size)
           d == WentOn(c, t)
           N == Len(s)
<1>0. c.rest \in Seq(Nat) /\ c.target \in Seq(Nat) /\ N \in Nat
  BY DEF States
<1>1. d.result = "conversionOK" => c.result = "conversionOK"
  BY DEF WentOn
<1> SUFFICES ASSUME d.result = "conversionOK"
             PROVE  /\ ~d.stopped
                    /\ \E p \in 0..N :
                          /\ n + 1 <= p \/ p = N
                          /\ d.rest = From(s, p)
                          /\ whole[0] = whole[p]
                          /\ shown[0] = Shown(d.target) \o shown[p]
  BY Zenon DEF SoFar
<1>2. ~c.stopped /\ c.result = "conversionOK"
  BY <1>1 DEF SoFar
<1>3. PICK p \in 0..N : /\ n <= p \/ p = N
                        /\ c.rest = From(s, p)
                        /\ whole[0] = whole[p]
                        /\ shown[0] = Shown(c.target) \o shown[p]
  BY <1>2, Zenon DEF SoFar
<1>4. Len(c.rest) = N - p
  <2>1. Len(From(s, p)) = Len(s) - p
    BY RestElements
  <2> QED BY <1>3, <2>1
<1> HIDE DEF N, d, t
<1>5. CASE p = N
  <2>1. c.rest = <<>>
    <3>1. Len(c.rest) = 0
      BY <1>0, <1>4, <1>5
    <3> QED BY <1>0, <3>1
  <2>2. d = c
    BY <2>1, Zenon DEF WentOn, d
  <2> QED BY <1>2, <1>3, <1>5, <2>2, Zenon
<1>6. CASE p # N
  <2>1. c.rest # <<>>
    <3>1. Len(c.rest) # 0
      BY <1>0, <1>4, <1>6
    <3> QED BY <3>1
  <2>2. d = [rest    |-> SubSeq(c.rest, t.used + 1, Len(c.rest)),
             target  |-> c.target \o t.written,
             result  |-> IF t.result = "conversionOK" THEN c.result ELSE t.result,
             stopped |-> t.used = 0]
    BY <1>2, <2>1, Zenon DEF WentOn, d
  <2>3. /\ d.rest = From(c.rest, t.used) /\ d.target = c.target \o t.written
        /\ d.result = IF t.result = "conversionOK" THEN c.result ELSE t.result
        /\ d.stopped = (t.used = 0)
    BY <2>2 DEF From
  <2>4. ReadOn(t, s, p)
    <3>1. p # Len(s)
      BY <1>6 DEF N
    <3> QED BY <1>3, <3>1, ReadsOn DEF t, N
  <2>5. t.result = "conversionOK"
    BY <2>3
  <2> DEFINE b == Behind(s, p)
             u == Used(s, p)
             e == ASCIIof(SubSeq(s, p + 1, b))
  <2>6. PICK ch \in Nat : /\ t = Turn(u, <<ch>>)
                          /\ ShownOf(ch) = IF AtBOM(s, p) THEN <<>> ELSE <<e>>
    BY <2>4, <2>5, Zenon DEF ReadOn
  <2>7. ~(b > Len(s)) /\ From(From(s, p), u) = From(s, b)
    BY <2>4, <2>5, Zenon DEF ReadOn
  <2>8. t.used = u /\ t.written = <<ch>>
    BY <2>6 DEF Turn
  <2>9. u \in 1..6 /\ b = p + u
    <3>1. InFront(s, p, From(s, p), u, SubSeq(s, p + 1, b))
      BY <1>6, SequenceInFront DEF N
    <3> QED BY <3>1, Zenon DEF InFront
  <2>10. d.rest = From(s, b) /\ d.target = c.target \o <<ch>> /\ ~d.stopped
    <3>1. u # 0
      BY <2>9
    <3> HIDE DEF u, b
    <3> QED BY <1>3, <2>3, <2>7, <2>8, <3>1, Zenon
  <2>11. WalkAt(s, shown, whole, p)
    BY PlaceOfWalk DEF N
  <2>12. /\ b \in 0..N /\ whole[p] = whole[b] /\ shown[b] \in Seq(Nat)
         /\ AtBOM(s, p) => shown[p] = shown[b]
         /\ ~AtBOM(s, p) => shown[p] = <<e>> \o shown[b]
    BY <1>6, <2>7, <2>11, Zenon DEF WalkAt, N
  <2> HIDE DEF b, u, e
  <2>13. shown[p] = ShownOf(ch) \o shown[b]
    <3>1. <<>> \o shown[b] = shown[b]
      BY <2>12, ConcatEmptySeq, Zenon
    <3> QED BY <2>6, <2>12, <3>1, Zenon
  <2>14. shown[0] = Shown(d.target) \o shown[b]
    <3>1. Shown(c.target) \in Seq(Nat) /\ ShownOf(ch) \in Seq(Nat) /\ shown[b] \in Seq(Nat)
      BY <1>0, <2>6, <2>12, ShownIn, ShownOfOne
    <3>2. Regroups(Shown(c.target), ShownOf(ch), shown[b])
      BY <3>1, Regrouped
    <3>3. Shown(c.target \o <<ch>>) = Shown(c.target) \o ShownOf(ch)
      BY <1>0, <2>6, ShownMore
    <3>4. Shown(d.target) = Shown(c.target) \o ShownOf(ch)
      BY <2>10, <3>3, Zenon
    <3> QED BY <1>3, <2>13, <3>2, <3>4, Zenon DEF Regroups
  <2>15. n + 1 <= b
    BY <1>3, <1>6, <2>9
  <2> QED BY <1>3, <2>10, <2>12, <2>14, <2>15, Zenon
<1> QED
  BY <1>5, <1>6

-----------------------------------------------------------------------------
(* Whatever is converted to UTF-32 without a complaint shows as its        *)
(* characters do.                                                          *)
LEMMA ReadThrough ==
    ASSUME NEW s \in Seq(Nat), NEW shown, NEW whole, Walks(s, shown, whole), NEW size,
           ConvertUTF8toUTF32(s, size).result = "conversionOK"
    PROVE  whole[0] /\ shown[0] = Shown(ConvertUTF8toUTF32(s, size).target)
<1> DEFINE N == Len(s)
           step == [c \in States |-> WentOn(c, TurnUTF8toUTF32(c, size))]
<1>1. ASSUME NEW c \in States, c.rest # <<>>
      PROVE  TurnUTF8toUTF32(c, size) \in Turns
  <2> DEFINE r == c.rest
  <2>1. r \in Seq(Nat) /\ r # <<>>
    BY <1>1 DEF States
  <2>2. Len(r) \in Nat /\ Len(r) # 0
    <3> HIDE DEF r
    <3> QED BY <2>1, EmptySeq
  <2>3. 0 \in 0..Len(r) /\ 0 # Len(r)
    BY <2>2
  <2>4. r = From(r, 0)
    <3> HIDE DEF r
    <3>1. From(r, 0) = SubSeq(r, 1, Len(r))
      BY DEF From
    <3> QED BY <2>1, <3>1, AllOfIt
  <2>5. c.rest = From(r, 0)
    BY <2>4
  <2> HIDE DEF r
  <2>6. ReadOn(TurnUTF8toUTF32(c, size), r, 0)
    BY <2>1, <2>3, <2>5, ReadsOn
  <2> QED BY <2>6, Zenon DEF ReadOn
<1>2. step \in [States -> States]
  BY <1>1, GoesOn
<1>3. N \in Nat /\ Len(s) = N
  OBVIOUS
<1>4. PICK g \in [0..N -> States] : IsRun(g, N, s) /\ \A n \in 1..N : g[n] = step[g[n - 1]]
  <2> HIDE DEF N, step
  <2> QED BY <1>2, <1>3, RunExists
<1> HIDE DEF N
<1>5. \A n \in 1..N : /\ n - 1 \in 0..N /\ n - 1 \in Nat /\ (n - 1) + 1 = n
                      /\ g[n - 1] \in States
                      /\ g[n] = WentOn(g[n - 1], TurnUTF8toUTF32(g[n - 1], size))
  <2> TAKE n \in 1..N
  <2>1. n - 1 \in 0..N /\ n - 1 \in Nat /\ (n - 1) + 1 = n
    BY <1>3
  <2>2. g[n - 1] \in States
    BY <2>1
  <2> QED BY <1>4, <2>1, <2>2
<1> HIDE DEF step
<1>6. ConvertUTF8toUTF32(s, size) = Ended(g[N])
  <2>1. IsRun(g, N, s)
    BY <1>4
  <2>2. \A n \in 1..N : g[n] = WentOn(g[n - 1], TurnUTF8toUTF32(g[n - 1], size))
    BY <1>5
  <2> QED BY <1>3, <2>1, <2>2, RunOfUTF8toUTF32, Zenon
<1> DEFINE T == {n \in 0..N : SoFar(g[n], s, shown, whole, n)}
<1>7. 0 \in T
  <2>1. g[0] = Began(s)
    BY <1>4 DEF IsRun
  <2>2. ~g[0].stopped /\ g[0].rest = s /\ g[0].target = <<>>
    BY <2>1 DEF Began
  <2>3. s = From(s, 0)
    <3>1. From(s, 0) = SubSeq(s, 1, Len(s))
      BY DEF From
    <3> QED BY <3>1, AllOfIt
  <2>4. 0 \in 0..N /\ 0 <= 0
    BY <1>3
  <2>5. shown[0] = Shown(g[0].target) \o shown[0]
    <3>1. shown[0] \in Seq(Nat)
      <4>1. WalkAt(s, shown, whole, 0)
        BY <2>4, PlaceOfWalk DEF N
      <4> QED BY <4>1, Zenon DEF WalkAt
    <3>2. <<>> \o shown[0] = shown[0]
      BY <3>1, ConcatEmptySeq, Zenon
    <3> QED BY <2>2, <3>2, ShownNone, Zenon
  <2>6. SoFar(g[0], s, shown, whole, 0)
    BY <2>2, <2>3, <2>4, <2>5, Zenon DEF SoFar, N
  <2> QED BY <2>4, <2>6
<1>8. ASSUME NEW n \in 1..N, n - 1 \in T PROVE n \in T
  <2> DEFINE m == n - 1
  <2>1. m \in Nat /\ m + 1 = n /\ g[m] \in States
    BY <1>5
  <2>2. SoFar(g[m], s, shown, whole, m)
    BY <1>8
  <2>3. g[n] = WentOn(g[m], TurnUTF8toUTF32(g[m], size))
    BY <1>5
  <2> HIDE DEF m
  <2>4. SoFar(WentOn(g[m], TurnUTF8toUTF32(g[m], size)), s, shown, whole, m + 1)
    BY <2>1, <2>2, SoFarOn
  <2>5. SoFar(g[n], s, shown, whole, n)
    BY <2>1, <2>3, <2>4, Zenon
  <2>6. n \in 0..N
    BY <1>3
  <2> QED BY <2>5, <2>6
<1>9. SoFar(g[N], s, shown, whole, N)
  <2>1. 0..N \subseteq T
    <3> HIDE DEF T
    <3> QED BY <1>3, <1>7, <1>8, Upwards
  <2>2. N \in 0..N
    BY <1>3
  <2> QED BY <2>1, <2>2
<1>10. g[N].result = "conversionOK" /\ ConvertUTF8toUTF32(s, size).target = g[N].target
  BY <1>6 DEF Ended
<1>11. PICK p \in 0..Len(s) : /\ N <= p \/ p = Len(s)
                              /\ whole[0] = whole[p]
                              /\ shown[0] = Shown(g[N].target) \o shown[p]
  BY <1>9, <1>10, Zenon DEF SoFar
<1>12. p = Len(s)
  BY <1>3, <1>11
<1>13. g[N] \in States /\ Shown(g[N].target) \in Seq(Nat)
  <2>1. N \in 0..N
    BY <1>3
  <2>2. g[N] \in States
    BY <2>1
  <2>3. g[N].target \in Seq(Nat)
    BY <2>2 DEF States
  <2> QED BY <2>2, <2>3, ShownIn
<1>14. whole[Len(s)] /\ shown[Len(s)] = <<>>
  BY Zenon DEF Walks
<1>15. Shown(g[N].target) \o <<>> = Shown(g[N].target)
  BY <1>13, ConcatEmptySeq, Zenon
<1> QED
  BY <1>10, <1>11, <1>12, <1>14, <1>15, Zenon

(* Of any string.                                                          *)
LengthsOf(string) ==
    LET length == GetLength(string)
        ascii  == ConvertToASCIIZ(string)
        utf32  == ConvertToUTF32(string)
    IN  /\ IF length = -1 THEN ascii.status = "STRING_INCOMPLETE_UNICODE"
           ELSE ascii.status = "OK" /\ Len(ascii.value) = length
        /\ \A size \in 0..(Len(string) + 1) :
              LET copy == CopyToASCII(size, string)
              IN  IF length = -1 THEN Len(copy) \in {0, size}
                  ELSE copy = UpTo(size, ascii.value)
        /\ utf32.status = "OK" => ascii = Ok(Shown(utf32.value))

(* A conversion is a success if it has no complaint.                       *)
LEMMA OutcomeOK ==
    ASSUME NEW c, Outcome(c).status = "OK"
    PROVE  c.result = "conversionOK" /\ Outcome(c) = Ok(c.target)
<1>1. CASE c.result = "conversionOK"
  BY <1>1 DEF Outcome
<1>2. CASE c.result # "conversionOK"
  <2>1. Outcome(c).status = StatusOf(c.result)
    BY <1>2 DEF Outcome, Fail
  <2>2. StatusOf(c.result) # "OK"
    BY <1>2 DEF StatusOf
  <2> QED BY <2>1, <2>2
<1> QED
  BY <1>1, <1>2

(* All of this holds of any sequence of numbers, legal UTF-8 or not.       *)
LEMMA LengthsOfAny ==
    ASSUME NEW string \in Seq(Nat)
    PROVE  LengthsOf(string)
<1>1. PICK shown, whole : Walks(string, shown, whole)
  BY Walked
<1> DEFINE length == GetLength(string)
           ascii  == ConvertToASCIIZ(string)
           utf32  == ConvertToUTF32(string)
           text   == shown[0]
           W      == whole[0]
<1>2. Len(string) \in Nat /\ 0 \in 0..Len(string)
  OBVIOUS
<1>3. text \in Seq(Nat) /\ Len(text) \in Nat
  <2>1. WalkAt(string, shown, whole, 0)
    BY <1>1, <1>2, PlaceOfWalk
  <2> QED BY <2>1, Zenon DEF WalkAt
<1>4. length = IF W THEN Len(text) ELSE -1
  BY <1>1, LengthWalked
<1>5. ascii = IF W THEN Ok(text) ELSE Incomplete
  BY <1>1, TextWalked
<1>6. \A size \in Nat : CopyToASCII(size, string) =
          IF W \/ size <= Len(text) THEN UpTo(size, text) ELSE <<>>
  BY <1>1, CopyWalked
<1>7. utf32.status = "OK" => W /\ ascii = Ok(Shown(utf32.value))
  <2> SUFFICES ASSUME utf32.status = "OK" PROVE W /\ ascii = Ok(Shown(utf32.value))
    OBVIOUS
  <2> DEFINE c == ConvertUTF8toUTF32(string, Len(string))
  <2>1. utf32 = Outcome(c)
    BY Zenon DEF ConvertToUTF32
  <2> HIDE DEF utf32
  <2>2. c.result = "conversionOK" /\ utf32 = Ok(c.target)
    <3> HIDE DEF c
    <3> QED BY <2>1, OutcomeOK
  <2>3. W /\ text = Shown(c.target)
    <3>1. c.result = "conversionOK"
      BY <2>2
    <3> QED BY <1>1, <3>1, ReadThrough
  <2> HIDE DEF c, W, text, ascii
  <2>4. utf32.value = c.target
    BY <2>2, ResultOrNot, Zenon
  <2> QED BY <1>5, <2>3, <2>4, Zenon
<1> HIDE DEF length, ascii, utf32, text, W
<1>8. Incomplete.status = "STRING_INCOMPLETE_UNICODE"
  BY DEF Incomplete, Fail
<1>9. length = -1 <=> ~W
  BY <1>3, <1>4
<1>10. IF length = -1 THEN ascii.status = "STRING_INCOMPLETE_UNICODE"
       ELSE ascii.status = "OK" /\ Len(ascii.value) = length
  <2>1. CASE W
    <3>1. ascii.status = "OK" /\ ascii.value = text
      BY <1>5, <2>1, ResultOrNot, Zenon
    <3> QED BY <1>4, <1>9, <2>1, <3>1
  <2>2. CASE ~W
    BY <1>5, <1>8, <1>9, <2>2, Zenon
  <2> QED BY <2>1, <2>2
<1>11. ASSUME NEW size \in 0..(Len(string) + 1)
       PROVE  IF length = -1 THEN Len(CopyToASCII(size, string)) \in {0, size}
              ELSE CopyToASCII(size, string) = UpTo(size, ascii.value)
  <2> DEFINE copy == CopyToASCII(size, string)
  <2>1. size \in Nat
    BY <1>2
  <2>2. copy = IF W \/ size <= Len(text) THEN UpTo(size, text) ELSE <<>>
    BY <1>6, <2>1
  <2> HIDE DEF copy
  <2>3. CASE W
    <3>1. ascii.value = text
      BY <1>5, <2>3, ResultOrNot, Zenon
    <3> QED BY <1>9, <2>2, <2>3, <3>1, Zenon DEF copy
  <2>4. CASE ~W /\ size <= Len(text)
    <3>1. Min({size, Len(text)}) = size
      BY <1>3, <2>1, <2>4, LesserOne
    <3>2. copy = SubSeq(text, 1, size)
      <4>1. copy = UpTo(size, text)
        BY <2>2, <2>4
      <4> QED BY <3>1, <4>1, Zenon DEF UpTo
    <3>3. Len(copy) = size
      <4>1. size \in 0..Len(text)
        BY <1>3, <2>1, <2>4
      <4> QED BY <1>3, <3>2, <4>1, FirstElements
    <3> QED BY <1>9, <2>4, <3>3 DEF copy
  <2>5. CASE ~W /\ ~(size <= Len(text))
    <3>1. copy = <<>>
      BY <2>2, <2>5
    <3>2. Len(copy) = 0
      BY <3>1
    <3> QED BY <1>9, <2>5, <3>2 DEF copy
  <2> QED BY <2>3, <2>4, <2>5
<1> QED
  BY <1>7, <1>10, <1>11, Zenon DEF LengthsOf, length, ascii, utf32
=============================================================================
