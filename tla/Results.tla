------------------------------ MODULE Results -------------------------------
(***************************************************************************)
(* What a function of the library returns: its status and, if that is      *)
(* FUDGE_OK, what it has stored through its output arguments.  A pointer   *)
(* that may be null is a set of at most one element.                       *)
(***************************************************************************)
LOCAL INSTANCE Integers

Ok(value)    == [status |-> "OK", value |-> value]
Fail(status) == [status |-> status]

The(S) == CHOOSE x \in S : TRUE

(* Comparisons return -1, 0 or 1; these take pointers.                     *)
Sign(l, r) == IF l = r THEN 0 ELSE IF l > r THEN 1 ELSE -1

NullsFirst(left, right, Compare(_, _)) ==
    IF left = {} THEN (IF right = {} THEN 0 ELSE -1)
    ELSE IF right = {} THEN 1
    ELSE Compare(The(left), The(right))
=============================================================================
