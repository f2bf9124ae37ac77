----------------------------- MODULE StringUse ------------------------------
(***************************************************************************)
(* Who holds which string: the references of clients, of string pools      *)
(* (stringpool.c) and of static strings (FudgeString_fromStatic in         *)
(* string.c), with the threads that share them.                            *)
(*                                                                         *)
(* Taking or giving up one reference is one step here; that it may be      *)
(* taken for one is what RefCountAtomic and RefCountPthreads show.         *)
(***************************************************************************)
EXTENDS FiniteSets, Naturals

CONSTANTS
    Threads,
    Statics,    \* FudgeStringStatic structures
    Pools,
    Slots,      \* variables of the clients that own a reference
    Nodes,      \* bound: nodes of all pools at one time
    Strings,    \* bound: strings ever made; none has the address of another
    None,
    MaxPoolRefs \* bound: references to a pool

(* Whatever holds a reference.  For a thread that is the local variable of *)
(* the call it is in.                                                      *)
Places == Threads \cup Statics \cup Slots \cup Nodes

ASSUME StringUseAssumption ==
    /\ IsFiniteSet(Places)
    /\ Threads \cap (Statics \cup Slots \cup Nodes) = {} /\ Slots \cap Nodes = {}
    /\ Statics \cap (Slots \cup Nodes \cup Pools) = {}
    /\ None \notin Strings \cup Pools \cup Statics
    /\ MaxPoolRefs \in Nat

VARIABLES
    build,     \* "atomic", or "pthreads", where AtomicExchangePointer only stores
    ptr,       \* what each place points at
    count,     \* the reference counts
    mem,       \* of each string: "new", "live" or "freed"
    poolOf,    \* the pool each node is in
    poolRefs,  \* the reference count of each pool; 0 if there is no such pool
    pc,        \* where each thread is
    use,       \* and with which static or pool
    borrowed,  \* what FudgeString_fromStatic has returned to it
    early      \* ghost: whether another thread was using the static for the first time

vars == <<build, ptr, count, mem, poolOf, poolRefs, pc, use, borrowed, early>>

Steps == {"idle", "create", "exchange", "release", "return", "acquire", "clear"}

Init ==
    /\ build \in {"atomic", "pthreads"}
    /\ ptr = [p \in Places |-> None]
    /\ count = [s \in Strings |-> 0]
    /\ mem = [s \in Strings |-> "new"]
    /\ poolOf = [n \in Nodes |-> None]
    /\ poolRefs = [q \in Pools |-> 0]
    /\ pc = [t \in Threads |-> "idle"]
    /\ use = [t \in Threads |-> None]
    /\ borrowed = [t \in Threads |-> None]
    /\ early = [t \in Threads |-> FALSE]

At(t, step)      == pc[t] = step
GoTo(t, step)    == pc' = [pc EXCEPT ![t] = step]
Start(t, step, x) == At(t, "idle") /\ GoTo(t, step) /\ use' = [use EXCEPT ![t] = x]

PoolVars   == <<poolOf, poolRefs>>
StaticVars == <<borrowed, early>>

(* FudgeString_allocate and the functions that call it.                    *)
Make(place) ==
    \E s \in Strings :
        /\ mem[s] = "new"
        /\ ptr' = [ptr EXCEPT ![place] = s]
        /\ count' = [count EXCEPT ![s] = 1]
        /\ mem' = [mem EXCEPT ![s] = "live"]

(* FudgeString_release, by whatever has been holding the reference.        *)
Drop(place) ==
    LET s == ptr[place]
    IN  /\ count' = [count EXCEPT ![s] = @ - 1]
        /\ mem' = [mem EXCEPT ![s] = IF count[s] = 1 THEN "freed" ELSE @]
        /\ ptr' = [ptr EXCEPT ![place] = None]

Move(from, to) == ptr' = [ptr EXCEPT ![to] = ptr[from], ![from] = None]

-----------------------------------------------------------------------------
(* The clients.                                                            *)
CreateString(slot) ==
    /\ ptr[slot] = None
    /\ Make(slot)
    /\ UNCHANGED <<build, PoolVars, pc, use, StaticVars>>

(* FudgeString_retain of a string that somebody holds for sure.            *)
InPool(n) == poolRefs[poolOf[n]] > 0 /\ \A t \in Threads : use[t] # poolOf[n]

Known ==
    {ptr[p] : p \in Slots \cup {n \in Nodes : ptr[n] # None /\ InPool(n)}}
      \cup {borrowed[t] : t \in {u \in Threads : ~early[u]}}

Retain(s, slot) ==
    /\ s \in Known \ {None}
    /\ ptr[slot] = None
    /\ ptr' = [ptr EXCEPT ![slot] = s]
    /\ count' = [count EXCEPT ![s] = @ + 1]
    /\ UNCHANGED <<build, mem, PoolVars, pc, use, StaticVars>>

Release(slot) ==
    /\ ptr[slot] # None
    /\ Drop(slot)
    /\ UNCHANGED <<build, PoolVars, pc, use, StaticVars>>

-----------------------------------------------------------------------------
(* FudgeString_fromStatic.  It looks at the pointer, makes a string if     *)
(* there is none, puts it there, releases what was there, and looks again. *)
FromStatic_AlwaysCreates(t, static) ==
    /\ Start(t, "create", static)
    /\ UNCHANGED <<build, ptr, count, mem, PoolVars, StaticVars>>

FromStatic(t, static) ==
    /\ Start(t, IF ptr[static] = None THEN "create" ELSE "return", static)
    /\ UNCHANGED <<build, ptr, count, mem, PoolVars, StaticVars>>

CreateStatic(t) ==
    /\ At(t, "create")
    /\ Make(t)
    /\ GoTo(t, "exchange")
    /\ UNCHANGED <<build, PoolVars, use, StaticVars>>

Exchange(t) ==
    LET old == IF build = "atomic" THEN ptr[use[t]] ELSE None
    IN  /\ At(t, "exchange")
        /\ ptr' = [ptr EXCEPT ![use[t]] = ptr[t], ![t] = old]
        /\ GoTo(t, IF old = None THEN "return" ELSE "release")
        /\ UNCHANGED <<build, count, mem, PoolVars, use, StaticVars>>

ReleaseOld(t) ==
    /\ At(t, "release")
    /\ Drop(t)
    /\ GoTo(t, "return")
    /\ UNCHANGED <<build, PoolVars, use, StaticVars>>

FirstUse(t, static) == use[t] = static /\ pc[t] \in {"create", "exchange"}

Return(t) ==
    /\ At(t, "return")
    /\ borrowed' = [borrowed EXCEPT ![t] = ptr[use[t]]]
    /\ early' = [early EXCEPT ![t] = \E u \in Threads : FirstUse(u, use[t])]
    /\ GoTo(t, "idle")
    /\ use' = [use EXCEPT ![t] = None]
    /\ UNCHANGED <<build, ptr, count, mem, PoolVars>>

-----------------------------------------------------------------------------
(* String pools.  A pool is acted on by one thread at any time.  Which of  *)
(* its nodes goes first makes no difference, so they are a set.            *)
Free(pool) == \A t \in Threads : use[t] # pool

CreatePool(pool) ==
    /\ poolRefs[pool] = 0 /\ Free(pool)
    /\ poolRefs' = [poolRefs EXCEPT ![pool] = 1]
    /\ UNCHANGED <<build, ptr, count, mem, poolOf, pc, use, StaticVars>>

RetainPool(pool) ==
    /\ poolRefs[pool] \in 1..(MaxPoolRefs - 1) /\ Free(pool)
    /\ poolRefs' = [poolRefs EXCEPT ![pool] = @ + 1]
    /\ UNCHANGED <<build, ptr, count, mem, poolOf, pc, use, StaticVars>>

(* FudgeStringPool_acquire: the reference is the pool's from now on.       *)
AddNode(place, pool) ==
    \E n \in Nodes :
        /\ ptr[n] = None
        /\ Move(place, n)
        /\ poolOf' = [poolOf EXCEPT ![n] = pool]

Acquire(slot, pool) ==
    /\ poolRefs[pool] > 0 /\ Free(pool)
    /\ ptr[slot] # None
    /\ AddNode(slot, pool)
    /\ UNCHANGED <<build, count, mem, poolRefs, pc, use, StaticVars>>

(* FudgeStringPool_createStringFromASCII and createStringFromASCIIZ, and   *)
(* what acquireInternal does if there is memory for a node or not.         *)
CreatePooled(t, pool) ==
    /\ poolRefs[pool] > 0 /\ Free(pool)
    /\ Start(t, "acquire", pool)
    /\ Make(t)
    /\ UNCHANGED <<build, PoolVars, StaticVars>>

AcquireInternal(t) ==
    /\ At(t, "acquire")
    /\ AddNode(t, use[t])
    /\ GoTo(t, "idle")
    /\ use' = [use EXCEPT ![t] = None]
    /\ UNCHANGED <<build, count, mem, poolRefs, StaticVars>>

AcquireFails_KeepsString(t) ==
    /\ At(t, "acquire")
    /\ GoTo(t, "idle")
    /\ use' = [use EXCEPT ![t] = None]
    /\ ptr' = [ptr EXCEPT ![t] = None]
    /\ UNCHANGED <<build, count, mem, PoolVars, StaticVars>>

AcquireFails(t) ==
    /\ At(t, "acquire")
    /\ Drop(t)
    /\ GoTo(t, "idle")
    /\ use' = [use EXCEPT ![t] = None]
    /\ UNCHANGED <<build, PoolVars, StaticVars>>

(* FudgeStringPool_clear, by itself or because the last reference has gone *)
Clear(t, pool) ==
    /\ poolRefs[pool] > 0 /\ Free(pool)
    /\ Start(t, "clear", pool)
    /\ UNCHANGED <<build, ptr, count, mem, PoolVars, StaticVars>>

ReleasePool(t, pool) ==
    /\ poolRefs[pool] > 0 /\ Free(pool)
    /\ poolRefs' = [poolRefs EXCEPT ![pool] = @ - 1]
    /\ IF poolRefs[pool] = 1 THEN Start(t, "clear", pool)
       ELSE At(t, "idle") /\ UNCHANGED <<pc, use>>
    /\ UNCHANGED <<build, ptr, count, mem, poolOf, StaticVars>>

Contents(pool) == {n \in Nodes : poolOf[n] = pool}

ClearNode(t) ==
    /\ At(t, "clear")
    /\ \E n \in Contents(use[t]) :
          /\ Drop(n)
          /\ poolOf' = [poolOf EXCEPT ![n] = None]
    /\ UNCHANGED <<build, poolRefs, pc, use, StaticVars>>

Cleared(t) ==
    /\ At(t, "clear")
    /\ Contents(use[t]) = {}
    /\ GoTo(t, "idle")
    /\ use' = [use EXCEPT ![t] = None]
    /\ UNCHANGED <<build, ptr, count, mem, PoolVars, StaticVars>>

-----------------------------------------------------------------------------
ClientStep ==
    \/ \E slot \in Slots :
          \/ CreateString(slot) \/ Release(slot)
          \/ \E s \in Strings : Retain(s, slot)
          \/ \E pool \in Pools : Acquire(slot, pool)
    \/ \E pool \in Pools : CreatePool(pool) \/ RetainPool(pool)

CallStep(t) ==
    \/ \E static \in Statics : FromStatic(t, static)
    \/ CreateStatic(t) \/ Exchange(t) \/ ReleaseOld(t) \/ Return(t)
    \/ \E pool \in Pools : CreatePooled(t, pool) \/ Clear(t, pool) \/ ReleasePool(t, pool)
    \/ AcquireInternal(t) \/ AcquireFails(t) \/ ClearNode(t) \/ Cleared(t)

Next == ClientStep \/ \E t \in Threads : CallStep(t)

Spec == Init /\ [][Next]_vars

-----------------------------------------------------------------------------
Holders(s) == {p \in Places : ptr[p] = s}

(* Every string is held by as many places as its count says, so that it is *)
(* live while any place holds it and goes with the last, however the       *)
(* calls of clients and the races of static strings interleave, and if a   *)
(* pool has no memory for a node.  Without an atomic exchange a static     *)
(* string made twice is lost, but never freed early.                       *)
ReferencesOwned ==
    \A s \in Strings :
        /\ (mem[s] = "live") = (count[s] > 0)
        /\ IF build = "atomic" THEN count[s] = Cardinality(Holders(s))
           ELSE count[s] >= Cardinality(Holders(s))

(* What FudgeString_fromStatic returns may be used for good: the caller    *)
(* does not own it, and nobody else will release it.  This is so once no   *)
(* first use of the static is in progress; a thread that comes in between  *)
(* may get a string that another then releases, where the exchange gives   *)
(* that thread the string.                                                 *)
BorrowedLive ==
    \A t \in Threads :
        borrowed[t] # None /\ (build = "atomic" => ~early[t]) => mem[borrowed[t]] = "live"
=============================================================================
