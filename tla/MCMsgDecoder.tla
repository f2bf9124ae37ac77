---------------------------- MODULE MCMsgDecoder ----------------------------
(***************************************************************************)
(* A small instance of MsgDecoder: up to three messages, nested in each    *)
(* other or side by side.                                                  *)
(***************************************************************************)
EXTENDS MsgDecoder

MCLocals == {-d : d \in 0..Cardinality(Msgs)}
=============================================================================
