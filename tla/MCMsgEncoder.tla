---------------------------- MODULE MCMsgEncoder ----------------------------
(***************************************************************************)
(* A small instance of MsgEncoder.  A leaf of 250 bytes and one of 1 make  *)
(* a submessage of 253 + 3 = 256 bytes, the first length that does not fit *)
(* in one byte.  The third leaf is an empty array with a name of 3 bytes   *)
(* and an ordinal, the fourth one of 16-bit integers with 3 bytes.         *)
(***************************************************************************)
EXTENDS MsgEncoder

Leaf(fixed, n, el, nm, o) ==
    [msg |-> Null, fixedwidth |-> IF fixed THEN n ELSE Variable, numbytes |-> n,
     element |-> el, name |-> nm, ordinal |-> o]

MCLeaves == {Leaf(TRUE, 1, 1, NoName, FALSE),
             Leaf(FALSE, 250, 1, NoName, FALSE),
             Leaf(FALSE, 0, 4, 3, TRUE),
             Leaf(FALSE, 3, 2, NoName, FALSE)}
=============================================================================
