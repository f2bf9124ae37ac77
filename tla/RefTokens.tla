----------------------------- MODULE RefTokens -----------------------------
(***************************************************************************)
(* Reference ownership, shared by every specification of a reference       *)
(* counted Fudge-C object.                                                 *)
(*                                                                         *)
(* The C code stores only a number.  To say what that number must be, the  *)
(* specifications give each outstanding reference an identity: a token     *)
(* taken from the finite set Refs.  owner[r] is the thread that must one   *)
(* day call release for token r, or Nobody if the token is not in use.     *)
(* The size of Refs is the bound on references outstanding at one time.    *)
(***************************************************************************)
EXTENDS FiniteSets

CONSTANTS Threads,   \* the client's threads
          Refs,      \* reference tokens
          Nobody     \* neither: the owner of an unused token

ASSUME RefTokensAssumption ==
    /\ IsFiniteSet(Refs)
    /\ Nobody \notin Threads \cup Refs

Owners == Threads \cup {Nobody}

OwnedBy(owner, t)  == {r \in Refs : owner[r] = t}
Outstanding(owner) == {r \in Refs : owner[r] # Nobody}
Unreferenced(owner) == Outstanding(owner) = {}
=============================================================================
