---------------------------- MODULE SharedObject ----------------------------
(***************************************************************************)
(* What a reference counted object promises its users, with no counter in  *)
(* sight: the object exists for as long as anybody owns a reference to it, *)
(* and once nobody does it is reclaimed, exactly once.                     *)
(*                                                                         *)
(* FudgeMsg, FudgeString, FudgeMsgEnvelope and FudgeStringPool all make    *)
(* this promise through the same four lines of code; RefCountAtomic and    *)
(* RefCountPthreads are the two multi-threaded builds of it.               *)
(***************************************************************************)
EXTENDS RefTokens

VARIABLES owner,    \* who owns each reference token
          object    \* "none" (not created yet), "live" or "freed"

vars == <<owner, object>>

Init ==
    /\ owner = [r \in Refs |-> Nobody]
    /\ object = "none"

\* The creator starts with the only reference.
Create(t) ==
    /\ object = "none"
    /\ object' = "live"
    /\ \E r \in Refs : owner' = [owner EXCEPT ![r] = t]

\* Only a thread that owns a reference can make another.
Retain(t) ==
    /\ object = "live"
    /\ OwnedBy(owner, t) # {}
    /\ \E r \in Refs : /\ owner[r] = Nobody
                       /\ owner' = [owner EXCEPT ![r] = t]
    /\ UNCHANGED object

Release(t) ==
    /\ object = "live"
    /\ \E r \in OwnedBy(owner, t) : owner' = [owner EXCEPT ![r] = Nobody]
    /\ UNCHANGED object

\* A reference changes hands: the receiver now owes the release.
Pass(t, u) ==
    /\ \E r \in OwnedBy(owner, t) : owner' = [owner EXCEPT ![r] = u]
    /\ UNCHANGED object

Reclaim ==
    /\ object = "live"
    /\ Unreferenced(owner)
    /\ object' = "freed"
    /\ UNCHANGED owner

Next ==
    \/ \E t \in Threads : Create(t) \/ Retain(t) \/ Release(t)
    \/ \E t, u \in Threads : Pass(t, u)
    \/ Reclaim

Safety == Init /\ [][Next]_vars

Spec == Safety /\ WF_vars(Reclaim)
=============================================================================
